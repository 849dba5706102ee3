--------------------------- MODULE TournamentProofs ---------------------------
(***************************************************************************)
(* For any number of users, requests, settlements and lifecycle runs, any  *)
(* prices, quantities and failures: the types and foreign keys, whose      *)
(* trades are whose, the filling of queued trades, the channel, the books. *)
(*                                                                         *)
(* Keeps is what a request or a run holds all along, AtStep what it holds  *)
(* at the statement it is at.  The sets they take are those of the ids of  *)
(* portfolios, positions, trades and channels.                             *)
(***************************************************************************)
EXTENDS Tournament, SumsTheorems

StepsOf(op) ==
  CASE op = "idle"        -> {"idle"}
    [] op = "enter"       -> {"portfolio", "entry", "cleanup"}
    [] op = "queue"       -> {"enqueue"}
    [] op = "destination" -> {"open", "charge"}
    [] op = "close"       -> {"close", "credit"}
    [] op = "settle"      -> {"next", "opposite", "close", "credit", "open", "executed"}
    [] op = "mark"        -> {"positions", "mark", "total"}
    [] op = "activate"    -> {"activate", "channel", "attach", "entries", "members"}
    [] op = "complete"    -> {"select", "close", "credit", "cancel", "board", "rank",
                              "completed", "archive"}

RowsLegal(p, books, ids) ==
  \A r \in p.selected :
    /\ r.id \in ids
    /\ r.row.portfolio \in books
    /\ r.row.quantity > 0
    /\ r.row.status = "open"
    /\ p.op = "settle" => r.row.portfolio = p.portfolio
    /\ p.op = "mark" => r.row.portfolio \in p.todo
    /\ \A s \in p.selected : s.id = r.id => s = r

TodoLegal(p, books, numbers) ==
  /\ p.op = "settle" => p.todo \subseteq numbers
  /\ p.op = "mark" => p.todo \subseteq books
  /\ p.op \in {"activate", "complete"} => p.todo \subseteq Users
  /\ p.op \notin {"settle", "mark", "activate", "complete"} => p.todo = {}

Keeps(p, books, ids, numbers, rooms) ==
  /\ p.op = "enter" => p.user \in Users
  /\ p.portfolio \in books \cup {0}
  /\ p.op \in {"queue", "destination", "close"} => p.portfolio \in books
  /\ p.trade \in numbers \cup {0}
  /\ p.trade # 0 => p.op = "settle" /\ p.portfolio \in books
  /\ p.op = "queue" => p.left \in Quantities
  /\ p.op \in {"destination", "settle", "mark"} => p.price \in Prices
  /\ p.channel \in rooms \cup {0}
  /\ RowsLegal(p, books, ids)
  /\ TodoLegal(p, books, numbers)

NothingToBook(p) == p.gain = 0 /\ p.share = 0 /\ p.off = 0

AtStep(p, books, rooms) ==
  /\ p.pc \in {"entry", "cleanup", "credit"} => p.portfolio \in books
  /\ p.op = "settle" => (p.trade # 0 <=> p.pc # "next")
  /\ p.pc = "open" => p.left > 0
  /\ p.op = "settle" /\ p.pc \in {"opposite", "close"} => p.left > 0
  /\ p.pc # "credit" => NothingToBook(p)
  /\ p.pc \notin {"close", "credit", "mark"} => p.selected = {}
  /\ p.pc \in {"attach", "entries", "members", "archive"} => p.channel \in rooms

Legal(p, books, ids, numbers, rooms) ==
  /\ p.pc \in StepsOf(p.op)
  /\ p.op = "idle" => p = Idle
  /\ Keeps(p, books, ids, numbers, rooms)
  /\ AtStep(p, books, rooms)

RunsLegal == \A a \in Actors :
  Legal(actor[a], DOMAIN portfolios, DOMAIN positions, DOMAIN trades, DOMAIN channels)

Room == [members : SUBSET Users, archived : BOOLEAN]

Tables ==
  /\ status \in {"upcoming", "active", "completed", "archived"}
  /\ clock \in {"before", "running", "over"}
  /\ channels \in Seq(Room) /\ channel \in 0..Len(channels)
  /\ portfolios \in Seq(Portfolio) /\ Len(portfolios) <= MaxPortfolios
  /\ account \in Seq(Account) /\ Len(account) = Len(portfolios)
  /\ entry \in [Users -> 0..Len(portfolios)]
  /\ rank \in [Users -> 0..N]
  /\ positions \in Seq(Position) /\ Len(positions) <= MaxPositions
  /\ \A i \in DOMAIN positions : /\ positions[i].quantity > 0
                                 /\ positions[i].portfolio \in DOMAIN portfolios
  /\ trades \in Seq(Trade) /\ Len(trades) <= MaxTrades
  /\ \A t \in DOMAIN trades : trades[t].portfolio \in DOMAIN portfolios
  /\ early \subseteq Users
  /\ spent \in [starts : 0..MaxStarts, failures : 0..MaxFailures]

TypeInv == Tables /\ actor \in [Actors -> Actor] /\ RunsLegal

-----------------------------------------------------------------------------
(* Sequences *)

LEMMA AppendFacts ==
  ASSUME NEW S, NEW s \in Seq(S), NEW x \in S
  PROVE  /\ Append(s, x) \in Seq(S)
         /\ Len(Append(s, x)) = Len(s) + 1
         /\ DOMAIN Append(s, x) = DOMAIN s \cup {Len(s) + 1}
         /\ Append(s, x)[Len(s) + 1] = x
         /\ Len(s) + 1 \notin DOMAIN s
         /\ \A i \in DOMAIN s : Append(s, x)[i] = s[i]
OBVIOUS

LEMMA ExceptFacts ==
  ASSUME NEW S, NEW s \in Seq(S), NEW i \in DOMAIN s, NEW x \in S
  PROVE  /\ [s EXCEPT ![i] = x] \in Seq(S)
         /\ Len([s EXCEPT ![i] = x]) = Len(s)
         /\ DOMAIN [s EXCEPT ![i] = x] = DOMAIN s
         /\ [s EXCEPT ![i] = x][i] = x
         /\ \A j \in DOMAIN s \ {i} : [s EXCEPT ![i] = x][j] = s[j]
OBVIOUS

LEMMA DomainFacts ==
  ASSUME NEW S, NEW s \in Seq(S)
  PROVE  /\ Len(s) \in Nat
         /\ DOMAIN s = 1..Len(s)
         /\ \A i \in DOMAIN s : s[i] \in S /\ i \in Nat \ {0}
OBVIOUS

LEMMA Bounds ==
  /\ N \in Nat /\ MaxPortfolios \in Nat /\ MaxPositions \in Nat /\ MaxTrades \in Nat
  /\ MaxStarts \in Nat /\ MaxFailures \in Nat /\ StartingBalance \in Nat
  /\ Prices \subseteq Nat \ {0} /\ Quantities \subseteq Nat \ {0}
BY ConstantsAssumption

LEMMA Numbers ==
  /\ \A x \in Prices : x \in Nat /\ x \in Int /\ x > 0
  /\ \A x \in Quantities : x \in Nat /\ x \in Int /\ x > 0
BY Bounds

LEMMA Quotient ==
  ASSUME NEW x \in Int, NEW y \in Nat, y > 0
  PROVE  x \div y \in Int
OBVIOUS

LEMMA Lengths ==
  ASSUME Tables
  PROVE  /\ Len(portfolios) \in Nat /\ DOMAIN portfolios = 1..Len(portfolios)
         /\ Len(positions) \in Nat /\ DOMAIN positions = 1..Len(positions)
         /\ Len(trades) \in Nat /\ DOMAIN trades = 1..Len(trades)
         /\ Len(channels) \in Nat /\ DOMAIN channels = 1..Len(channels)
         /\ DOMAIN account = DOMAIN portfolios
         /\ \A q \in DOMAIN portfolios : portfolios[q] \in Portfolio /\ account[q] \in Account
         /\ \A i \in DOMAIN positions : positions[i] \in Position /\ positions[i].quantity > 0
         /\ \A t \in DOMAIN trades : trades[t] \in Trade
         /\ \A c \in DOMAIN channels : channels[c] \in Room
BY DomainFacts DEF Tables

(* Ids are within the bounds, and reference portfolios that are there. *)
LEMMA Ids ==
  ASSUME Tables
  PROVE  /\ \A q \in DOMAIN portfolios : q \in 1..MaxPortfolios /\ q # 0
         /\ \A i \in DOMAIN positions : /\ i \in 1..MaxPositions
                                        /\ positions[i].portfolio \in DOMAIN portfolios
         /\ \A t \in DOMAIN trades : /\ t \in 1..MaxTrades
                                     /\ trades[t].portfolio \in DOMAIN portfolios
<1>1. /\ Len(portfolios) \in Nat /\ DOMAIN portfolios = 1..Len(portfolios)
      /\ Len(positions) \in Nat /\ DOMAIN positions = 1..Len(positions)
      /\ Len(trades) \in Nat /\ DOMAIN trades = 1..Len(trades)
  BY Lengths
<1>2. /\ Len(portfolios) <= MaxPortfolios /\ Len(positions) <= MaxPositions
      /\ Len(trades) <= MaxTrades
      /\ \A i \in DOMAIN positions : positions[i].portfolio \in DOMAIN portfolios
      /\ \A t \in DOMAIN trades : trades[t].portfolio \in DOMAIN portfolios
  BY DEF Tables
<1>3. MaxPortfolios \in Nat /\ MaxPositions \in Nat /\ MaxTrades \in Nat
  BY Bounds
<1> QED BY <1>1, <1>2, <1>3

-----------------------------------------------------------------------------
(* What is held between statements *)

(* The names of steps and operations, for leaves that need them one by one. *)
LEMMA Named ==
  /\ "idle" \in Steps /\ "portfolio" \in Steps /\ "entry" \in Steps /\ "cleanup" \in Steps
  /\ "enqueue" \in Steps /\ "open" \in Steps /\ "charge" \in Steps /\ "close" \in Steps
  /\ "credit" \in Steps /\ "next" \in Steps /\ "opposite" \in Steps /\ "executed" \in Steps
  /\ "positions" \in Steps /\ "mark" \in Steps /\ "total" \in Steps /\ "activate" \in Steps
  /\ "channel" \in Steps /\ "attach" \in Steps /\ "entries" \in Steps /\ "members" \in Steps
  /\ "select" \in Steps /\ "cancel" \in Steps /\ "board" \in Steps /\ "rank" \in Steps
  /\ "completed" \in Steps /\ "archive" \in Steps
  /\ "idle" \in Operations /\ "enter" \in Operations /\ "queue" \in Operations
  /\ "destination" \in Operations /\ "close" \in Operations /\ "settle" \in Operations
  /\ "mark" \in Operations /\ "activate" \in Operations /\ "complete" \in Operations
BY DEF Steps, Operations

LEMMA Fields ==
  ASSUME NEW p \in Actor
  PROVE  /\ "op" \in DOMAIN p /\ "pc" \in DOMAIN p /\ "left" \in DOMAIN p
         /\ "selected" \in DOMAIN p /\ "todo" \in DOMAIN p
BY DEF Actor

LEMMA IdleFacts ==
  /\ Idle \in Actor
  /\ Idle.op = "idle" /\ Idle.pc = "idle" /\ Idle.portfolio = 0 /\ Idle.trade = 0
  /\ Idle.todo = {} /\ Idle.selected = {} /\ Idle.channel = 0 /\ Idle.left = 0
  /\ Idle.user = 0 /\ Idle.price = 0 /\ NothingToBook(Idle)
BY Named, Bounds DEF Idle, Actor, Directions, NothingToBook

LEMMA IdleLegal ==
  ASSUME NEW books, NEW ids, NEW numbers, NEW rooms
  PROVE  Idle \in Actor /\ Legal(Idle, books, ids, numbers, rooms)
BY IdleFacts DEF Legal, StepsOf, Keeps, AtStep, RowsLegal, TodoLegal

(* Tables only grow. *)
LEMMA LegalStays ==
  ASSUME NEW books, NEW ids, NEW numbers, NEW rooms, NEW p,
         Legal(p, books, ids, numbers, rooms),
         NEW books2, books \subseteq books2, NEW ids2, ids \subseteq ids2,
         NEW numbers2, numbers \subseteq numbers2, NEW rooms2, rooms \subseteq rooms2
  PROVE  Legal(p, books2, ids2, numbers2, rooms2)
BY DEF Legal, Keeps, AtStep, RowsLegal, TodoLegal

LEMMA RunFacts ==
  ASSUME TypeInv, NEW a \in Actors
  PROVE  /\ actor[a] \in Actor
         /\ Legal(actor[a], DOMAIN portfolios, DOMAIN positions, DOMAIN trades,
                  DOMAIN channels)
BY DEF TypeInv, RunsLegal

LEMMA StepOps ==
  ASSUME NEW books, NEW ids, NEW numbers, NEW rooms, NEW p \in Actor,
         Legal(p, books, ids, numbers, rooms)
  PROVE  /\ p.pc = "idle" => p = Idle
         /\ p.pc \in {"portfolio", "entry", "cleanup"} => p.op = "enter"
         /\ p.pc = "enqueue" => p.op = "queue"
         /\ p.pc = "charge" => p.op = "destination"
         /\ p.pc = "open" => p.op \in {"destination", "settle"}
         /\ p.pc \in {"close", "credit"} => p.op \in {"close", "settle", "complete"}
         /\ p.pc \in {"next", "opposite", "executed"} => p.op = "settle"
         /\ p.pc \in {"positions", "mark", "total"} => p.op = "mark"
         /\ p.pc \in {"activate", "channel", "attach", "entries", "members"} =>
              p.op = "activate"
         /\ p.pc \in {"select", "cancel", "board", "rank", "completed", "archive"} =>
              p.op = "complete"
<1>1. p.pc \in StepsOf(p.op) /\ (p.op = "idle" => p = Idle)
  BY DEF Legal
<1>2. p.op \in {"idle", "enter", "queue", "destination", "close", "settle", "mark",
                "activate", "complete"}
  BY DEF Actor, Operations
<1> QED BY <1>1, <1>2 DEF StepsOf

-----------------------------------------------------------------------------
(* What an actor holds after a step *)

NextRun(a) == \E q \in Actor :
  /\ Set(a, q)
  /\ Legal(q, DOMAIN portfolios', DOMAIN positions', DOMAIN trades', DOMAIN channels')

LEMMA ToIdle ==
  ASSUME NEW a, Set(a, Idle)
  PROVE  NextRun(a)
BY IdleLegal DEF NextRun

(* The legal step of what an actor held is legal for tables that have grown. *)
Grown ==
  /\ DOMAIN portfolios \subseteq DOMAIN portfolios'
  /\ DOMAIN positions \subseteq DOMAIN positions'
  /\ DOMAIN trades \subseteq DOMAIN trades'
  /\ DOMAIN channels \subseteq DOMAIN channels'

LEMMA StillLegal ==
  ASSUME TypeInv, NEW a \in Actors, Grown
  PROVE  Legal(actor[a], DOMAIN portfolios', DOMAIN positions', DOMAIN trades',
               DOMAIN channels')
BY RunFacts, LegalStays DEF Grown

LEMMA TypeStays ==
  ASSUME TypeInv, NEW a \in Actors, NextRun(a), Tables', Grown
  PROVE  TypeInv'
<1>1. PICK q \in Actor :
        /\ actor' = [actor EXCEPT ![a] = q]
        /\ Legal(q, DOMAIN portfolios', DOMAIN positions', DOMAIN trades', DOMAIN channels')
  BY DEF NextRun, Set
<1>2. actor \in [Actors -> Actor]
  BY DEF TypeInv
<1>3. actor' \in [Actors -> Actor]
  BY <1>1, <1>2
<1>4. ASSUME NEW b \in Actors
      PROVE  Legal(actor'[b], DOMAIN portfolios', DOMAIN positions', DOMAIN trades',
                   DOMAIN channels')
  <2>1. CASE b = a
    BY <1>1, <1>2, <2>1
  <2>2. CASE b # a
    <3>1. actor'[b] = actor[b]
      BY <1>1, <1>2, <2>2
    <3> QED BY <3>1, StillLegal
  <2> QED BY <2>1, <2>2
<1>5. RunsLegal'
  BY <1>4 DEF RunsLegal
<1> QED BY <1>3, <1>5 DEF TypeInv

LEMMA OpenFacts ==
  ASSUME Tables
  PROVE  \A i \in OpenPositions :
           /\ i \in DOMAIN positions /\ positions[i] \in Position
           /\ positions[i].status = "open" /\ positions[i].quantity > 0
           /\ positions[i].portfolio \in DOMAIN portfolios
           /\ i \in 1..MaxPositions
<1>1. \A i \in DOMAIN positions : i \in 1..MaxPositions
  BY Ids
<1> QED BY <1>1, Lengths, Ids DEF OpenPositions

(* Rows as they were selected. *)
LEMMA SelectFacts ==
  ASSUME Tables, NEW ids, ids \subseteq OpenPositions
  PROVE  /\ Select(ids) \in SUBSET Selected
         /\ \A r \in Select(ids) :
              /\ r.id \in ids /\ r.id \in DOMAIN positions /\ r.row = positions[r.id]
              /\ r.row.status = "open" /\ r.row.quantity > 0
              /\ r.row.portfolio \in DOMAIN portfolios
              /\ \A s \in Select(ids) : s.id = r.id => s = r
         /\ Select(ids) = {} <=> ids = {}
         /\ \A i \in ids : [id |-> i, row |-> positions[i]] \in Select(ids)
<1>1. \A i \in ids :
           /\ i \in DOMAIN positions /\ positions[i] \in Position
           /\ positions[i].status = "open" /\ positions[i].quantity > 0
           /\ positions[i].portfolio \in DOMAIN portfolios
           /\ i \in 1..MaxPositions
  BY OpenFacts
<1>2. Select(ids) \in SUBSET Selected
  BY <1>1 DEF Select, Selected
<1>3. \A r \in Select(ids) : r.id \in ids /\ r.row = positions[r.id]
                             /\ r = [id |-> r.id, row |-> positions[r.id]]
  BY DEF Select
<1>4. \A i \in ids : [id |-> i, row |-> positions[i]] \in Select(ids)
  BY DEF Select
<1>5. Select(ids) = {} <=> ids = {}
  BY <1>3, <1>4
<1>6. \A r \in Select(ids) : \A s \in Select(ids) : s.id = r.id => s = r
  BY <1>3
<1> QED BY <1>1, <1>2, <1>3, <1>4, <1>5, <1>6

(* A row has been dealt with, or the rows were just selected: there is nothing
   to book.                                                                *)
LEMMA ContinueLegal ==
  ASSUME NEW books, NEW ids, NEW numbers, NEW rooms, NEW p \in Actor,
         Keeps(p, books, ids, numbers, rooms), NothingToBook(p),
         p.op \in {"close", "settle", "complete"},
         p.op = "settle" => p.trade # 0
  PROVE  /\ Continue(p) \in Actor
         /\ Legal(Continue(p), books, ids, numbers, rooms)
<1>1. CASE p.op = "settle" /\ p.left = 0
  <2> DEFINE q == [p EXCEPT !.pc = "executed", !.selected = {}]
  <2>1. Continue(p) = q
    BY <1>1 DEF Continue
  <2>2. /\ q \in Actor /\ q.op = p.op /\ q.pc = "executed" /\ q.selected = {}
        /\ q.user = p.user /\ q.portfolio = p.portfolio /\ q.trade = p.trade
        /\ q.left = p.left /\ q.price = p.price /\ q.channel = p.channel /\ q.todo = p.todo
        /\ q.gain = p.gain /\ q.share = p.share /\ q.off = p.off
    BY Named DEF Actor
  <2> HIDE DEF q
  <2>3. Keeps(q, books, ids, numbers, rooms) /\ NothingToBook(q)
    BY <2>2 DEF Keeps, RowsLegal, TodoLegal, NothingToBook
  <2>4. AtStep(q, books, rooms) /\ q.pc \in StepsOf(q.op)
    BY <1>1, <2>2, <2>3 DEF AtStep, StepsOf
  <2> QED BY <1>1, <2>1, <2>2, <2>3, <2>4 DEF Legal
<1>2. ASSUME NEW pc, pc \in {"open", "close", "cancel"}, pc \in StepsOf(p.op),
             p.op = "settle" => p.left # 0, pc # "close" => p.selected = {},
             pc = "open" => p.op = "settle", Continue(p) = [p EXCEPT !.pc = pc]
      PROVE  Continue(p) \in Actor /\ Legal(Continue(p), books, ids, numbers, rooms)
  <2> DEFINE q == [p EXCEPT !.pc = pc]
  <2>1. Continue(p) = q /\ p.left \in Nat
    BY <1>2 DEF Actor
  <2>2. /\ q \in Actor /\ q.op = p.op /\ q.pc = pc /\ q.selected = p.selected
        /\ q.user = p.user /\ q.portfolio = p.portfolio /\ q.trade = p.trade
        /\ q.left = p.left /\ q.price = p.price /\ q.channel = p.channel /\ q.todo = p.todo
        /\ q.gain = p.gain /\ q.share = p.share /\ q.off = p.off
    BY Named, <1>2 DEF Actor
  <2> HIDE DEF q
  <2>3. Keeps(q, books, ids, numbers, rooms) /\ NothingToBook(q)
    BY <2>2 DEF Keeps, RowsLegal, TodoLegal, NothingToBook
  <2>4. AtStep(q, books, rooms) /\ q.pc \in StepsOf(q.op)
    BY <1>2, <2>1, <2>2, <2>3 DEF AtStep
  <2> QED BY <1>2, <2>1, <2>2, <2>3, <2>4 DEF Legal
<1>3. CASE p.op = "settle" /\ p.left # 0
  BY <1>2, <1>3 DEF Continue, StepsOf
<1>4. CASE p.op = "complete"
  BY <1>2, <1>4 DEF Continue, StepsOf
<1>5. CASE p.op = "close"
  BY <1>5, IdleLegal DEF Continue
<1> QED BY <1>1, <1>3, <1>4, <1>5

LEMMA GainType ==
  ASSUME NEW direction, NEW x \in Int, NEW y \in Int
  PROVE  Gain(direction, x, y) \in Int
BY DEF Gain

(* A row that was selected. *)
LEMMA RowFacts ==
  ASSUME NEW books, NEW ids, NEW numbers, NEW rooms, NEW p \in Actor,
         Legal(p, books, ids, numbers, rooms), NEW r \in p.selected
  PROVE  /\ r.id \in ids /\ r.id \in 1..MaxPositions /\ r.row \in Position
         /\ r.row.portfolio \in books /\ r.row.portfolio \in 1..MaxPortfolios
         /\ r.row.quantity \in Nat /\ r.row.quantity > 0 /\ r.row.status = "open"
         /\ r.row.unrealized \in Int /\ r.row.entry \in Prices /\ r.row.mark \in Prices
         /\ r.row.entry \in Nat /\ r.row.mark \in Nat /\ r.row.direction \in Directions
<1>1. r \in Selected
  BY DEF Actor
<1>2. /\ r.id \in ids /\ r.row.portfolio \in books
      /\ r.row.quantity > 0 /\ r.row.status = "open"
  BY DEF Legal, Keeps, RowsLegal
<1> QED BY <1>1, <1>2, Bounds DEF Position, Selected

LEMMA CloseQuantityType ==
  ASSUME NEW books, NEW ids, NEW numbers, NEW rooms, NEW p \in Actor,
         Legal(p, books, ids, numbers, rooms), NEW r \in p.selected, p.pc = "close"
  PROVE  /\ CloseQuantity(p, r.row) \in Nat /\ CloseQuantity(p, r.row) > 0
         /\ CloseQuantity(p, r.row) <= r.row.quantity
         /\ p.op = "settle" => CloseQuantity(p, r.row) <= p.left
         /\ Exit(p, r.row) \in Prices /\ Exit(p, r.row) \in Nat
<1>1. p.left \in Nat /\ (p.op = "settle" => p.left > 0 /\ p.price \in Prices)
  BY DEF Legal, AtStep, Keeps, Actor
<1> QED BY <1>1, RowFacts, Bounds DEF CloseQuantity, Exit

LEMMA BookingFields ==
  ASSUME NEW p \in Actor, NEW r
  PROVE  LET q == Booking(p, r)
         IN /\ q.pc = "credit" /\ q.selected = p.selected \ {r}
            /\ q.portfolio = r.row.portfolio
            /\ q.left = IF p.op = "settle" THEN p.left - CloseQuantity(p, r.row) ELSE 0
            /\ q.gain = Gain(r.row.direction, r.row.entry, Exit(p, r.row))
                          * CloseQuantity(p, r.row)
            /\ q.share = (r.row.unrealized * CloseQuantity(p, r.row)) \div r.row.quantity
            /\ q.off = CASE p.op = "settle" -> q.share
                         [] p.op = "close" -> 0
                         [] p.op = "complete" -> Distance(q.gain)
            /\ q.op = p.op /\ q.user = p.user /\ q.trade = p.trade /\ q.todo = p.todo
            /\ q.price = p.price /\ q.direction = p.direction /\ q.totals = p.totals
            /\ q.places = p.places /\ q.channel = p.channel
BY DEF Booking, Actor

LEMMA BookingTypes ==
  ASSUME NEW books, NEW ids, NEW numbers, NEW rooms, NEW p \in Actor,
         Legal(p, books, ids, numbers, rooms), NEW r \in p.selected, p.pc = "close"
  PROVE  /\ Booking(p, r) \in Actor
         /\ Legal(Booking(p, r), books, ids, numbers, rooms)
         /\ p.op \in {"close", "settle", "complete"}
         /\ p.op = "settle" => p.portfolio = r.row.portfolio
<1> DEFINE q == Booking(p, r)
           n == CloseQuantity(p, r.row)
           g == Gain(r.row.direction, r.row.entry, Exit(p, r.row))
<1>1. p.op \in {"close", "settle", "complete"}
  BY StepOps
<1>2. /\ q.pc = "credit" /\ q.selected = p.selected \ {r}
      /\ q.portfolio = r.row.portfolio
      /\ q.left = IF p.op = "settle" THEN p.left - n ELSE 0
      /\ q.gain = g * n
      /\ q.share = (r.row.unrealized * n) \div r.row.quantity
      /\ q.off = CASE p.op = "settle" -> q.share
                   [] p.op = "close" -> 0
                   [] p.op = "complete" -> Distance(q.gain)
      /\ q.op = p.op /\ q.user = p.user /\ q.trade = p.trade /\ q.todo = p.todo
      /\ q.price = p.price /\ q.direction = p.direction /\ q.totals = p.totals
      /\ q.places = p.places /\ q.channel = p.channel
  BY BookingFields
<1>3. /\ n \in Nat /\ n <= r.row.quantity /\ (p.op = "settle" => n <= p.left)
      /\ Exit(p, r.row) \in Nat
  BY CloseQuantityType
<1>4. g \in Int
  BY <1>3, RowFacts, GainType
<1>5. q.gain \in Int /\ q.share \in Int
  <2> HIDE DEF g, n
  <2>1. r.row.unrealized * n \in Int
    BY <1>3, RowFacts
  <2> QED BY <1>2, <1>3, <1>4, <2>1, RowFacts, Quotient
<1>6. q.off \in Int
  BY <1>1, <1>2, <1>5 DEF Distance
<1>7. q.left \in Nat
  <2>1. p.left \in Nat
    BY DEF Actor
  <2> HIDE DEF n
  <2> QED BY <1>2, <1>3, <2>1
<1>8. q \in Actor
  <2>1. q = [p EXCEPT !.pc = q.pc, !.selected = q.selected, !.portfolio = q.portfolio,
                      !.left = q.left, !.gain = q.gain, !.share = q.share, !.off = q.off]
    <3>1. q = [p EXCEPT !.pc = "credit", !.selected = @ \ {r}, !.portfolio = r.row.portfolio,
                        !.left = IF p.op = "settle" THEN @ - n ELSE 0, !.gain = g * n,
                        !.share = (r.row.unrealized * n) \div r.row.quantity,
                        !.off = CASE p.op = "settle" -> (r.row.unrealized * n) \div r.row.quantity
                                  [] p.op = "close" -> 0
                                  [] p.op = "complete" -> Distance(g * n)]
      BY DEF Booking
    <3> HIDE DEF q, g, n
    <3> QED BY <1>2, <3>1 DEF Actor
  <2>2. q.selected \in SUBSET Selected
    BY <1>2 DEF Actor
  <2>3. q.portfolio \in 0..MaxPortfolios
    BY <1>2, RowFacts, Bounds
  <2> HIDE DEF q
  <2> QED BY Named, <1>2, <1>5, <1>6, <1>7, <2>1, <2>2, <2>3, Zenon DEF Actor
<1>9. p.op = "settle" => p.portfolio = r.row.portfolio
  BY DEF Legal, Keeps, RowsLegal
<1>10. Keeps(q, books, ids, numbers, rooms)
  <2>1. Keeps(p, books, ids, numbers, rooms) /\ r.row.portfolio \in books
    BY RowFacts DEF Legal
  <2> HIDE DEF q, n, g
  <2>2. RowsLegal(q, books, ids)
    BY <1>1, <1>2, <1>9, <2>1 DEF RowsLegal, Keeps
  <2>3. TodoLegal(q, books, numbers)
    BY <1>2, <2>1 DEF TodoLegal, Keeps
  <2> QED BY <1>1, <1>2, <2>1, <2>2, <2>3 DEF Keeps
<1>11. AtStep(q, books, rooms)
  <2>1. AtStep(p, books, rooms) /\ r.row.portfolio \in books
    BY RowFacts DEF Legal
  <2> HIDE DEF q, n, g
  <2> QED BY <1>1, <1>2, <2>1 DEF AtStep
<1> HIDE DEF q, n, g
<1>12. Legal(q, books, ids, numbers, rooms)
  BY <1>1, <1>2, <1>10, <1>11 DEF Legal, StepsOf
<1> QED BY <1>1, <1>8, <1>9, <1>12 DEF q

(* The next trade of the settlement. *)
LEMMA TradeOverLegal ==
  ASSUME NEW books, NEW ids, NEW numbers, NEW rooms, NEW p \in Actor,
         Legal(p, books, ids, numbers, rooms), p.op = "settle"
  PROVE  /\ TradeOver(p) \in Actor
         /\ Legal(TradeOver(p), books, ids, numbers, rooms)
<1> DEFINE q == TradeOver(p)
<1>1. p.price \in Prices /\ p.todo \subseteq numbers /\ p.todo \in SUBSET (Nat \ {0})
  BY DEF Legal, Keeps, TodoLegal, Actor
<1>2. /\ q.op = "settle" /\ q.pc = "next" /\ q.price = p.price /\ q.todo = p.todo
      /\ q.user = 0 /\ q.portfolio = 0 /\ q.trade = 0 /\ q.selected = {} /\ q.channel = 0
      /\ q.left = 0 /\ q.gain = 0 /\ q.share = 0 /\ q.off = 0
  BY DEF TradeOver, Idle
<1>3. q \in Actor
  BY Named, <1>1, IdleFacts DEF TradeOver, Actor
<1> HIDE DEF q
<1>4. Keeps(q, books, ids, numbers, rooms)
  BY <1>1, <1>2 DEF Keeps, RowsLegal, TodoLegal
<1>5. AtStep(q, books, rooms)
  BY <1>2 DEF AtStep, NothingToBook
<1>6. Legal(q, books, ids, numbers, rooms)
  BY <1>2, <1>4, <1>5 DEF Legal, StepsOf
<1> QED BY <1>3, <1>6 DEF q

LEMMA NextRowType ==
  ASSUME NEW p \in Actor
  PROVE  NextRow(p) \in Actor
<1>1. ASSUME NEW x \in Int, NEW q \in Actor
      PROVE  /\ [q EXCEPT !.gain = x] \in Actor /\ [q EXCEPT !.share = x] \in Actor
             /\ [q EXCEPT !.off = x] \in Actor
  BY DEF Actor
<1>2. 0 \in Int
  OBVIOUS
<1>3. [p EXCEPT !.gain = 0] \in Actor
  BY <1>1, <1>2
<1>4. [[p EXCEPT !.gain = 0] EXCEPT !.share = 0] \in Actor
  BY <1>1, <1>2, <1>3
<1>5. [[[p EXCEPT !.gain = 0] EXCEPT !.share = 0] EXCEPT !.off = 0] \in Actor
  BY <1>1, <1>2, <1>4
<1> QED BY <1>5 DEF NextRow

LEMMA NextRowLegal ==
  ASSUME NEW books, NEW ids, NEW numbers, NEW rooms, NEW p \in Actor,
         Legal(p, books, ids, numbers, rooms), p.pc = "credit"
  PROVE  /\ Continue(NextRow(p)) \in Actor
         /\ Legal(Continue(NextRow(p)), books, ids, numbers, rooms)
<1> DEFINE q == NextRow(p)
<1>1. p.op \in {"close", "settle", "complete"}
  BY StepOps
<1>2. /\ q \in Actor /\ q.op = p.op /\ q.selected = p.selected
      /\ q.user = p.user /\ q.portfolio = p.portfolio /\ q.trade = p.trade
      /\ q.left = p.left /\ q.price = p.price /\ q.channel = p.channel /\ q.todo = p.todo
      /\ NothingToBook(q)
  <2>1. /\ q.op = p.op /\ q.selected = p.selected
        /\ q.user = p.user /\ q.portfolio = p.portfolio /\ q.trade = p.trade
        /\ q.left = p.left /\ q.price = p.price /\ q.channel = p.channel /\ q.todo = p.todo
        /\ q.gain = 0 /\ q.share = 0 /\ q.off = 0
    BY DEF NextRow, Actor
  <2>2. q \in Actor
    BY NextRowType
  <2> QED BY <2>1, <2>2 DEF NothingToBook
<1> HIDE DEF q
<1>3. Keeps(q, books, ids, numbers, rooms)
  BY <1>2 DEF Legal, Keeps, RowsLegal, TodoLegal
<1>4. q.op = "settle" => q.trade # 0
  BY <1>2 DEF Legal, AtStep
<1>5. Continue(q) \in Actor /\ Legal(Continue(q), books, ids, numbers, rooms)
  BY <1>1, <1>2, <1>3, <1>4, ContinueLegal
<1> QED BY <1>5 DEF q

LEMMA NextMarkLegal ==
  ASSUME NEW books, NEW ids, NEW numbers, NEW rooms, NEW p \in Actor,
         Legal(p, books, ids, numbers, rooms), p.pc = "mark", NEW r \in p.selected
  PROVE  /\ NextMark(p, r) \in Actor
         /\ Legal(NextMark(p, r), books, ids, numbers, rooms)
<1> DEFINE q == NextMark(p, r)
<1>1. p.op = "mark"
  BY StepOps
<1>2. /\ q \in Actor /\ q.op = p.op /\ q.selected = p.selected \ {r}
      /\ q.pc \in {"mark", "total"} /\ (q.pc = "total" => q.selected = {})
      /\ q.user = p.user /\ q.portfolio = p.portfolio /\ q.trade = p.trade
      /\ q.left = p.left /\ q.price = p.price /\ q.channel = p.channel /\ q.todo = p.todo
      /\ q.gain = p.gain /\ q.share = p.share /\ q.off = p.off
  BY Named, Zenon DEF NextMark, Actor
<1> HIDE DEF q
<1>3. Keeps(q, books, ids, numbers, rooms)
  BY <1>1, <1>2 DEF Legal, Keeps, RowsLegal, TodoLegal
<1>4. AtStep(q, books, rooms)
  BY <1>1, <1>2 DEF Legal, AtStep, NothingToBook
<1>5. Legal(q, books, ids, numbers, rooms)
  BY <1>1, <1>2, <1>3, <1>4 DEF Legal, StepsOf
<1> QED BY <1>2, <1>5 DEF q

(* One of the rest of what an actor has to treat; the tables are the same. *)
LEMMA LessTodo ==
  ASSUME NEW books, NEW ids, NEW numbers, NEW rooms, NEW p \in Actor,
         Legal(p, books, ids, numbers, rooms), NEW todo, p.selected = {},
         NothingToBook(p),
         NEW pc, \/ p.op = "mark" /\ pc = "total" /\ todo \subseteq books
                 \/ /\ p.op = "activate" /\ pc = "members" /\ todo \subseteq Users
                    /\ p.channel \in rooms
                 \/ p.op = "complete" /\ pc \in {"rank", "completed"} /\ todo \subseteq Users,
         todo \subseteq Nat \ {0}
  PROVE  LET q == [p EXCEPT !.pc = pc, !.todo = todo]
         IN q \in Actor /\ Legal(q, books, ids, numbers, rooms)
<1> DEFINE q == [p EXCEPT !.pc = pc, !.todo = todo]
<1>1. /\ q \in Actor /\ q.op = p.op /\ q.selected = p.selected /\ q.pc = pc
      /\ q.user = p.user /\ q.portfolio = p.portfolio /\ q.trade = p.trade
      /\ q.left = p.left /\ q.price = p.price /\ q.channel = p.channel /\ q.todo = todo
      /\ q.gain = p.gain /\ q.share = p.share /\ q.off = p.off
  BY Named DEF Actor
<1> HIDE DEF q
<1>2. Keeps(q, books, ids, numbers, rooms)
  BY <1>1 DEF Legal, Keeps, RowsLegal, TodoLegal
<1>3. AtStep(q, books, rooms)
  BY <1>1 DEF Legal, AtStep, NothingToBook
<1>4. Legal(q, books, ids, numbers, rooms)
  BY <1>1, <1>2, <1>3 DEF Legal, StepsOf
<1> QED BY <1>1, <1>4 DEF q

LEMMA FewerTotals ==
  ASSUME NEW books, NEW ids, NEW numbers, NEW rooms, NEW p \in Actor,
         Legal(p, books, ids, numbers, rooms), p.selected = {}, NothingToBook(p),
         p.op = "mark", NEW todo, todo \subseteq books, todo \subseteq Nat \ {0}
  PROVE  /\ [p EXCEPT !.pc = "total", !.todo = todo] \in Actor
         /\ Legal([p EXCEPT !.pc = "total", !.todo = todo], books, ids, numbers, rooms)
BY LessTodo, Zenon

LEMMA FewerMembers ==
  ASSUME NEW books, NEW ids, NEW numbers, NEW rooms, NEW p \in Actor,
         Legal(p, books, ids, numbers, rooms), p.selected = {}, NothingToBook(p),
         p.op = "activate", p.channel \in rooms, NEW todo, todo \subseteq Users,
         todo \subseteq Nat \ {0}
  PROVE  /\ [p EXCEPT !.pc = "members", !.todo = todo] \in Actor
         /\ Legal([p EXCEPT !.pc = "members", !.todo = todo], books, ids, numbers, rooms)
BY LessTodo, Zenon

-----------------------------------------------------------------------------
(* The actors, statement by statement *)

LEMMA LegalNow ==
  ASSUME NEW a, NEW q \in Actor, Set(a, q),
         Legal(q, DOMAIN portfolios, DOMAIN positions, DOMAIN trades, DOMAIN channels),
         Grown
  PROVE  NextRun(a)
BY LegalStays DEF NextRun, Grown

LEMMA StepType ==
  ASSUME NEW p \in Actor, NEW pc \in Steps
  PROVE  [p EXCEPT !.pc = pc] \in Actor
BY DEF Actor, Steps

(* To another step, with what was held. *)
LEMMA ToStep ==
  ASSUME TypeInv, NEW a \in Actors, Grown, NEW pc,
         Set(a, [actor[a] EXCEPT !.pc = pc]), pc \in StepsOf(actor[a].op),
         actor[a].op \notin {"idle", "settle"}, NothingToBook(actor[a]),
         pc \notin {"open", "credit"}, pc \in {"entry", "cleanup"} => actor[a].portfolio # 0,
         actor[a].selected = {},
         pc \in {"attach", "entries", "members", "archive"} => actor[a].channel # 0
  PROVE  NextRun(a)
<1> DEFINE p == actor[a]
           q == [p EXCEPT !.pc = pc]
<1>1. /\ p \in Actor
      /\ Legal(p, DOMAIN portfolios, DOMAIN positions, DOMAIN trades, DOMAIN channels)
  BY RunFacts
<1>2. pc \in Steps
  BY <1>1, Named, ZenonT(40) DEF StepsOf, Actor, Operations
<1>3. /\ q \in Actor /\ q.op = p.op /\ q.pc = pc /\ q.selected = p.selected
      /\ q.user = p.user /\ q.portfolio = p.portfolio /\ q.trade = p.trade
      /\ q.left = p.left /\ q.price = p.price /\ q.channel = p.channel /\ q.todo = p.todo
      /\ q.gain = p.gain /\ q.share = p.share /\ q.off = p.off
  <2> HIDE DEF p
  <2>1. q \in Actor
    BY <1>1, <1>2, StepType
  <2> QED BY <1>1, <2>1 DEF Actor
<1>4. /\ p.op \notin {"idle", "settle"} /\ NothingToBook(p)
      /\ (pc \in {"entry", "cleanup"} => p.portfolio # 0) /\ p.selected = {}
      /\ (pc \in {"attach", "entries", "members", "archive"} => p.channel # 0)
      /\ pc \in StepsOf(p.op) /\ Set(a, q)
  OBVIOUS
<1> HIDE DEF p, q
<1>5. Keeps(q, DOMAIN portfolios, DOMAIN positions, DOMAIN trades, DOMAIN channels)
  BY <1>1, <1>3 DEF Legal, Keeps, RowsLegal, TodoLegal
<1>6. AtStep(q, DOMAIN portfolios, DOMAIN channels)
  BY <1>1, <1>3, <1>4 DEF Legal, Keeps, AtStep, NothingToBook
<1>7. Legal(q, DOMAIN portfolios, DOMAIN positions, DOMAIN trades, DOMAIN channels)
  BY <1>3, <1>4, <1>5, <1>6 DEF Legal
<1> QED BY <1>3, <1>4, <1>7, LegalNow

(* A request or a run that starts holds a fresh record. *)
LEMMA Fresh ==
  ASSUME TypeInv, NEW a, NEW q \in Actor, Set(a, q), Grown,
         q.selected = {}, NothingToBook(q), q.trade = 0,
         Keeps(q, DOMAIN portfolios, DOMAIN positions, DOMAIN trades, DOMAIN channels),
         q.pc \in StepsOf(q.op), q.op # "idle",
         q.pc \notin {"entry", "cleanup", "credit", "opposite", "close", "executed", "attach",
                      "entries", "members", "archive"},
         q.pc = "open" => q.left > 0 /\ q.op = "destination"
  PROVE  NextRun(a)
<1>1. AtStep(q, DOMAIN portfolios, DOMAIN channels)
  BY DEF AtStep, StepsOf
<1>2. Legal(q, DOMAIN portfolios, DOMAIN positions, DOMAIN trades, DOMAIN channels)
  BY <1>1 DEF Legal
<1> QED BY <1>2, LegalNow

LEMMA EnterRun ==
  ASSUME TypeInv, NEW a, NEW u \in Users, Grown, enterTournament(a, u)
  PROVE  NextRun(a)
<1> DEFINE q == [Idle EXCEPT !.op = "enter", !.pc = "portfolio", !.user = u]
<1>1. q \in Actor
  <2>1. u \in 0..N
    BY Bounds DEF Users
  <2> QED BY Named, <2>1, IdleFacts DEF Actor
<1>2. /\ q.op = "enter" /\ q.pc = "portfolio" /\ q.user = u /\ q.portfolio = 0 /\ q.trade = 0
      /\ q.todo = {} /\ q.selected = {} /\ q.channel = 0
      /\ q.gain = 0 /\ q.share = 0 /\ q.off = 0
  BY DEF Idle
<1>3. Set(a, q)
  BY DEF enterTournament
<1> HIDE DEF q
<1>4. NothingToBook(q)
      /\ Keeps(q, DOMAIN portfolios, DOMAIN positions, DOMAIN trades, DOMAIN channels)
  BY <1>2 DEF NothingToBook, Keeps, RowsLegal, TodoLegal
<1> QED BY <1>1, <1>2, <1>3, <1>4, Fresh DEF StepsOf

LEMMA TradeRun ==
  ASSUME TypeInv, NEW a, NEW u \in Users, NEW call \in Calls \ {"close"}, Grown,
         NEW direction \in Directions, NEW quantity \in Quantities, NEW price \in Prices,
         StartTrade(a, u, call, direction, quantity, price)
  PROVE  NextRun(a)
<1>1. PICK q \in DOMAIN portfolios :
        Set(a, [Idle EXCEPT !.op = call, !.user = u, !.portfolio = q,
                            !.pc = IF call = "queue" THEN "enqueue" ELSE "open",
                            !.direction = direction, !.left = quantity,
                            !.price = IF call = "queue" THEN 0 ELSE price])
  BY Zenon DEF StartTrade
<1> DEFINE p == [Idle EXCEPT !.op = call, !.user = u, !.portfolio = q,
                            !.pc = IF call = "queue" THEN "enqueue" ELSE "open",
                            !.direction = direction, !.left = quantity,
                            !.price = IF call = "queue" THEN 0 ELSE price]
<1>2. call \in {"queue", "destination"} /\ quantity \in Nat /\ quantity > 0
  BY ConstantsAssumption
<1>3. q \in 0..MaxPortfolios
  <2>1. q \in 1..MaxPortfolios
    BY Ids DEF TypeInv
  <2> HIDE DEF p
  <2> QED BY <2>1, Bounds
<1>4. /\ p.op = call /\ p.pc = (IF call = "queue" THEN "enqueue" ELSE "open")
      /\ p.user = u /\ p.portfolio = q /\ p.trade = 0 /\ p.left = quantity
      /\ p.price = (IF call = "queue" THEN 0 ELSE price)
      /\ p.todo = {} /\ p.selected = {} /\ p.channel = 0
      /\ p.gain = 0 /\ p.share = 0 /\ p.off = 0
  BY DEF Idle
<1>5. p \in Actor
  <2>1. u \in 0..N
    BY Bounds DEF Users
  <2>2. ASSUME NEW op \in {"queue", "destination"}, NEW pc \in {"enqueue", "open"},
               NEW at \in Prices \cup {0}
        PROVE  [Idle EXCEPT !.op = op, !.user = u, !.portfolio = q, !.pc = pc,
                            !.direction = direction, !.left = quantity, !.price = at]
                 \in Actor
    BY Named, <1>2, <1>3, <2>1, IdleFacts DEF Actor
  <2> QED BY <1>2, <2>2, Zenon
<1>6. Set(a, p)
  BY <1>1
<1> HIDE DEF p
<1>7. NothingToBook(p)
      /\ Keeps(p, DOMAIN portfolios, DOMAIN positions, DOMAIN trades, DOMAIN channels)
  BY <1>2, <1>4 DEF NothingToBook, Keeps, RowsLegal, TodoLegal
<1> QED BY <1>2, <1>4, <1>5, <1>6, <1>7, Fresh DEF StepsOf

LEMMA ByHandRun ==
  ASSUME TypeInv, NEW a, NEW i \in DOMAIN positions, Grown, closePosition(a, i)
  PROVE  NextRun(a)
<1> DEFINE q == [Idle EXCEPT !.op = "close", !.pc = "close",
                             !.portfolio = positions[i].portfolio,
                             !.left = positions[i].quantity, !.selected = Select({i})]
<1>1. Tables /\ i \in OpenPositions /\ Set(a, q)
  BY DEF TypeInv, closePosition, OpenPositions
<1>2. /\ Select({i}) \in SUBSET Selected
      /\ \A r \in Select({i}) :
           /\ r.id \in DOMAIN positions /\ r.row = positions[r.id]
           /\ r.row.status = "open" /\ r.row.quantity > 0
           /\ r.row.portfolio \in DOMAIN portfolios
           /\ \A s \in Select({i}) : s.id = r.id => s = r
  BY <1>1, SelectFacts, ZenonT(40)
<1>3. /\ positions[i].portfolio \in DOMAIN portfolios
      /\ positions[i].portfolio \in 0..MaxPortfolios /\ positions[i].quantity \in Nat
  <2>1. positions[i] \in Position /\ positions[i].portfolio \in DOMAIN portfolios
    BY <1>1, OpenFacts
  <2> QED BY <2>1, Bounds DEF Position
<1>4. q \in Actor
  BY Named, <1>2, <1>3, IdleFacts DEF Actor
<1>5. /\ q.op = "close" /\ q.pc = "close" /\ q.portfolio = positions[i].portfolio
      /\ q.trade = 0 /\ q.todo = {} /\ q.selected = Select({i}) /\ q.channel = 0
      /\ q.gain = 0 /\ q.share = 0 /\ q.off = 0
  BY DEF Idle
<1> HIDE DEF q
<1>6. RowsLegal(q, DOMAIN portfolios, DOMAIN positions)
  BY <1>2, <1>5 DEF RowsLegal
<1>7. Keeps(q, DOMAIN portfolios, DOMAIN positions, DOMAIN trades, DOMAIN channels)
  BY <1>3, <1>5, <1>6 DEF Keeps, TodoLegal
<1>8. AtStep(q, DOMAIN portfolios, DOMAIN channels)
  BY <1>5 DEF AtStep, NothingToBook
<1>9. Legal(q, DOMAIN portfolios, DOMAIN positions, DOMAIN trades, DOMAIN channels)
  BY <1>5, <1>7, <1>8 DEF Legal, StepsOf
<1> QED BY <1>1, <1>4, <1>9, LegalNow

LEMMA SettlementRun ==
  ASSUME TypeInv, NEW a, NEW price \in Prices, Grown, StartSettlement(a, price)
  PROVE  NextRun(a)
<1> DEFINE todo == {t \in DOMAIN trades : trades[t].status = "queued"}
           q == [Idle EXCEPT !.op = "settle", !.pc = "next", !.price = price, !.todo = todo]
<1>1. todo \subseteq DOMAIN trades /\ todo \in SUBSET (Nat \ {0})
  BY Lengths DEF TypeInv
<1>2. Set(a, q)
  BY DEF StartSettlement
<1> HIDE DEF todo
<1>3. q \in Actor
  BY Named, <1>1, IdleFacts DEF Actor
<1>4. /\ q.op = "settle" /\ q.pc = "next" /\ q.price = price /\ q.portfolio = 0
      /\ q.trade = 0 /\ q.todo = todo /\ q.selected = {} /\ q.channel = 0
      /\ q.gain = 0 /\ q.share = 0 /\ q.off = 0
  BY DEF Idle
<1> HIDE DEF q
<1>5. NothingToBook(q)
      /\ Keeps(q, DOMAIN portfolios, DOMAIN positions, DOMAIN trades, DOMAIN channels)
  BY <1>1, <1>4 DEF NothingToBook, Keeps, RowsLegal, TodoLegal
<1> QED BY <1>2, <1>3, <1>4, <1>5, Fresh DEF StepsOf

LEMMA InsertedRun ==
  ASSUME TypeInv, NEW a \in Actors, Grown, CreatePortfolio(a)
  PROVE  NextRun(a)
<1> DEFINE p == actor[a]
           q == [p EXCEPT !.pc = "entry", !.portfolio = Len(portfolios) + 1]
<1>1. /\ p \in Actor /\ p.pc = "portfolio" /\ p.op = "enter" /\ Set(a, q)
      /\ Legal(p, DOMAIN portfolios', DOMAIN positions', DOMAIN trades', DOMAIN channels')
  BY RunFacts, StillLegal, StepOps DEF CreatePortfolio
<1>2. Len(portfolios) + 1 \in DOMAIN portfolios' /\ Len(portfolios) + 1 \in 0..MaxPortfolios
  <2>1. Len(portfolios) \in Nat
    BY Lengths DEF TypeInv
  <2>2. /\ Len(portfolios) < MaxPortfolios
        /\ portfolios' = Append(portfolios,
             [owner |-> p.user, cash |-> StartingBalance, realized |-> 0,
              unrealized |-> 0, live |-> TRUE])
    BY DEF CreatePortfolio
  <2>3. portfolios \in Seq(Portfolio)
    BY DEF TypeInv, Tables
  <2> QED BY <2>1, <2>2, <2>3, Bounds
<1>3. /\ q \in Actor /\ q.op = p.op /\ q.pc = "entry" /\ q.selected = p.selected
      /\ q.user = p.user /\ q.portfolio = Len(portfolios) + 1 /\ q.trade = p.trade
      /\ q.left = p.left /\ q.price = p.price /\ q.channel = p.channel /\ q.todo = p.todo
      /\ q.gain = p.gain /\ q.share = p.share /\ q.off = p.off
  <2> HIDE DEF p
  <2>1. "entry" \in Steps
    BY DEF Steps
  <2> QED BY Named, <1>1, <1>2 DEF Actor
<1> HIDE DEF p, q
<1>4. Keeps(q, DOMAIN portfolios', DOMAIN positions', DOMAIN trades', DOMAIN channels')
  BY <1>1, <1>2, <1>3 DEF Legal, Keeps, RowsLegal, TodoLegal
<1>5. AtStep(q, DOMAIN portfolios', DOMAIN channels')
  BY <1>1, <1>2, <1>3 DEF Legal, AtStep, NothingToBook
<1>6. Legal(q, DOMAIN portfolios', DOMAIN positions', DOMAIN trades', DOMAIN channels')
  BY <1>1, <1>3, <1>4, <1>5 DEF Legal, StepsOf
<1> QED BY <1>1, <1>3, <1>6 DEF NextRun

LEMMA EntryRun ==
  ASSUME TypeInv, NEW a \in Actors, Grown, CreateEntry(a)
  PROVE  NextRun(a)
<1>1. /\ actor[a] \in Actor /\ actor[a].pc = "entry" /\ actor[a].op = "enter"
      /\ AtStep(actor[a], DOMAIN portfolios, DOMAIN channels)
  BY RunFacts, StepOps DEF CreateEntry, Legal
<1>2. /\ NothingToBook(actor[a]) /\ actor[a].selected = {}
      /\ actor[a].portfolio \in DOMAIN portfolios
  BY <1>1 DEF AtStep
<1>3. actor[a].portfolio # 0
  BY <1>2, Lengths DEF TypeInv
<1>4. Set(a, Idle) \/ Set(a, [actor[a] EXCEPT !.pc = "cleanup"])
  BY DEF CreateEntry
<1> QED BY <1>1, <1>2, <1>3, <1>4, ToIdle, ToStep DEF StepsOf

LEMMA TradeTaken ==
  ASSUME TypeInv, NEW a \in Actors, Grown, NextTrade(a)
  PROVE  NextRun(a)
<1> DEFINE p == actor[a]
<1>1. /\ p \in Actor /\ p.pc = "next" /\ p.op = "settle"
      /\ Legal(p, DOMAIN portfolios, DOMAIN positions, DOMAIN trades, DOMAIN channels)
  BY RunFacts, StepOps DEF NextTrade
<1>2. /\ NothingToBook(p) /\ p.selected = {} /\ p.trade = 0 /\ p.price \in Prices
      /\ p.portfolio \in DOMAIN portfolios \cup {0} /\ p.todo \subseteq DOMAIN trades
      /\ p.channel \in DOMAIN channels \cup {0}
  BY <1>1 DEF Legal, Keeps, AtStep, TodoLegal
<1>3. CASE p.todo = {} /\ Set(a, [p EXCEPT !.op = "mark", !.pc = "positions"])
  <2> DEFINE q == [p EXCEPT !.op = "mark", !.pc = "positions"]
  <2>1. Set(a, q)
    BY <1>3
  <2>2. /\ q \in Actor /\ q.op = "mark" /\ q.pc = "positions" /\ q.selected = p.selected
        /\ q.user = p.user /\ q.portfolio = p.portfolio /\ q.trade = p.trade
        /\ q.left = p.left /\ q.price = p.price /\ q.channel = p.channel /\ q.todo = p.todo
        /\ q.gain = p.gain /\ q.share = p.share /\ q.off = p.off
    <3> HIDE DEF p
    <3> QED BY Named, <1>1 DEF Actor
  <2>3. p.todo = {}
    BY <1>3
  <2> HIDE DEF p, q
  <2>4. Keeps(q, DOMAIN portfolios, DOMAIN positions, DOMAIN trades, DOMAIN channels)
    BY <1>2, <2>2, <2>3 DEF Keeps, RowsLegal, TodoLegal
  <2>5. AtStep(q, DOMAIN portfolios, DOMAIN channels)
    BY <1>2, <2>2 DEF AtStep, NothingToBook
  <2>6. Legal(q, DOMAIN portfolios, DOMAIN positions, DOMAIN trades, DOMAIN channels)
    BY <2>2, <2>4, <2>5 DEF Legal, StepsOf
  <2> QED BY <2>1, <2>2, <2>6, LegalNow
<1>4. ASSUME NEW t \in p.todo, Set(a, Taken(p, t)) PROVE NextRun(a)
  <2> DEFINE q == Taken(p, t)
  <2>1. /\ t \in DOMAIN trades /\ t \in 1..MaxTrades
        /\ trades[t].portfolio \in DOMAIN portfolios
        /\ trades[t].portfolio \in 0..MaxPortfolios /\ trades[t].direction \in Directions
        /\ trades[t].quantity \in Nat /\ trades[t].quantity > 0
    <3>1. t \in DOMAIN trades
      BY <1>2
    <3>2. trades[t] \in Trade /\ trades[t].portfolio \in DOMAIN portfolios
          /\ t \in 1..MaxTrades
      BY <3>1, Lengths, Ids DEF TypeInv
    <3>3. /\ trades[t].portfolio \in 1..MaxPortfolios /\ trades[t].direction \in Directions
          /\ trades[t].quantity \in Quantities
      BY <3>2 DEF Trade
    <3>4. trades[t].quantity \in Nat \ {0}
      BY <3>3, Bounds
    <3>5. 1..MaxPortfolios \subseteq 0..MaxPortfolios
      BY Bounds
    <3> QED BY <3>1, <3>2, <3>3, <3>4, <3>5
  <2>2. /\ q.op = p.op /\ q.pc = "opposite" /\ q.selected = p.selected
        /\ q.user = p.user /\ q.portfolio = trades[t].portfolio /\ q.trade = t
        /\ q.left = trades[t].quantity /\ q.price = p.price /\ q.channel = p.channel
        /\ q.todo = p.todo \ {t}
        /\ q.gain = p.gain /\ q.share = p.share /\ q.off = p.off
    <3> HIDE DEF p
    <3> QED BY <1>1 DEF Taken, Actor
  <2>3. q \in Actor
    <3> HIDE DEF p
    <3>1. ASSUME NEW x \in 0..MaxPortfolios, NEW d \in Directions, NEW n \in Nat,
                 NEW s \in 0..MaxTrades
          PROVE  [p EXCEPT !.pc = "opposite", !.trade = s, !.todo = @ \ {t},
                           !.portfolio = x, !.direction = d, !.left = n] \in Actor
      <4>1. [p EXCEPT !.pc = "opposite", !.trade = s, !.portfolio = x, !.direction = d,
                      !.left = n] \in Actor
        BY Named, <1>1 DEF Actor
      <4>2. \A y \in Actor : [y EXCEPT !.todo = @ \ {t}] \in Actor
        BY DEF Actor
      <4>3. [p EXCEPT !.pc = "opposite", !.trade = s, !.todo = @ \ {t},
                      !.portfolio = x, !.direction = d, !.left = n]
              = [[p EXCEPT !.pc = "opposite", !.trade = s, !.portfolio = x,
                           !.direction = d, !.left = n] EXCEPT !.todo = @ \ {t}]
        BY <1>1 DEF Actor
      <4> QED BY <4>1, <4>2, <4>3
    <3>2. t \in 0..MaxTrades
      BY <2>1, Bounds
    <3> QED BY <2>1, <3>1, <3>2, Zenon DEF Taken
  <2>4. Set(a, q)
    BY <1>4
  <2> HIDE DEF p, q
  <2>5. Keeps(q, DOMAIN portfolios, DOMAIN positions, DOMAIN trades, DOMAIN channels)
    BY <1>1, <1>2, <2>1, <2>2 DEF Keeps, RowsLegal, TodoLegal
  <2>6. AtStep(q, DOMAIN portfolios, DOMAIN channels)
    <3>1. t # 0
      BY <2>1, Bounds
    <3> QED BY <1>2, <2>1, <2>2, <3>1 DEF AtStep, NothingToBook
  <2>7. Legal(q, DOMAIN portfolios, DOMAIN positions, DOMAIN trades, DOMAIN channels)
    BY <1>1, <2>2, <2>5, <2>6 DEF Legal, StepsOf
  <2> QED BY <2>3, <2>4, <2>7, LegalNow
<1> QED BY <1>3, <1>4 DEF NextTrade

(* Rows are selected, and dealt with from the next step on. *)
LEMMA SelectedRun ==
  ASSUME TypeInv, NEW a \in Actors, Grown, NEW ids, ids \subseteq OpenPositions,
         \/ /\ actor[a].pc = "opposite"
            /\ \A i \in ids : positions[i].portfolio = actor[a].portfolio
         \/ actor[a].pc = "select",
         Set(a, Continue([actor[a] EXCEPT !.selected = Select(ids)]))
  PROVE  NextRun(a)
<1> DEFINE p == actor[a]
           q == [p EXCEPT !.selected = Select(ids)]
<1>1. /\ p \in Actor /\ p.op \in {"settle", "complete"} /\ p.pc \in {"opposite", "select"}
      /\ (p.op = "settle" => p.pc = "opposite")
      /\ Legal(p, DOMAIN portfolios, DOMAIN positions, DOMAIN trades, DOMAIN channels)
  BY RunFacts, StepOps
<1>2. /\ Select(ids) \in SUBSET Selected
      /\ \A r \in Select(ids) :
           /\ r.id \in ids /\ r.id \in DOMAIN positions /\ r.row = positions[r.id]
           /\ r.row.status = "open" /\ r.row.quantity > 0
           /\ r.row.portfolio \in DOMAIN portfolios
           /\ \A s \in Select(ids) : s.id = r.id => s = r
  BY SelectFacts DEF TypeInv
<1>3. /\ q \in Actor /\ q.op = p.op /\ q.selected = Select(ids)
      /\ q.user = p.user /\ q.portfolio = p.portfolio /\ q.trade = p.trade
      /\ q.left = p.left /\ q.price = p.price /\ q.channel = p.channel /\ q.todo = p.todo
      /\ q.gain = p.gain /\ q.share = p.share /\ q.off = p.off
  <2> HIDE DEF p
  <2> QED BY <1>1, <1>2 DEF Actor
<1>4. p.op = "settle" => \A i \in ids : positions[i].portfolio = p.portfolio
  BY <1>1
<1>5. Set(a, Continue(q))
  OBVIOUS
<1> HIDE DEF p, q
<1>6. RowsLegal(q, DOMAIN portfolios, DOMAIN positions)
  BY <1>1, <1>2, <1>3, <1>4 DEF RowsLegal
<1>7. Keeps(q, DOMAIN portfolios, DOMAIN positions, DOMAIN trades, DOMAIN channels)
  BY <1>1, <1>3, <1>6 DEF Legal, Keeps, TodoLegal
<1>8. NothingToBook(q) /\ (q.op = "settle" => q.trade # 0)
  BY <1>1, <1>3 DEF Legal, AtStep, NothingToBook
<1>9. Continue(q) \in Actor
      /\ Legal(Continue(q), DOMAIN portfolios, DOMAIN positions, DOMAIN trades,
               DOMAIN channels)
  BY <1>1, <1>3, <1>7, <1>8, ContinueLegal
<1> QED BY <1>5, <1>9, LegalNow

LEMMA OppositeRun ==
  ASSUME TypeInv, NEW a \in Actors, Grown, SelectOpposite(a) \/ SelectOpen(a)
  PROVE  NextRun(a)
<1>1. CASE SelectOpposite(a)
  <2> DEFINE ids == {i \in OpenOf(actor[a].portfolio) :
                       positions[i].direction = Opposite(actor[a].direction)}
  <2>1. /\ ids \subseteq OpenPositions
        /\ \A i \in ids : positions[i].portfolio = actor[a].portfolio
    BY DEF OpenOf
  <2>2. actor[a].pc = "opposite"
        /\ Set(a, Continue([actor[a] EXCEPT !.selected = Select(ids)]))
    BY <1>1 DEF SelectOpposite
  <2> HIDE DEF ids
  <2> QED BY <2>1, <2>2, SelectedRun
<1>2. CASE SelectOpen(a)
  <2>1. /\ actor[a].pc = "select"
        /\ Set(a, Continue([actor[a] EXCEPT !.selected = Select(OpenPositions)]))
    BY <1>2 DEF SelectOpen
  <2> QED BY <2>1, SelectedRun
<1> QED BY <1>1, <1>2

LEMMA OpenedRun ==
  ASSUME TypeInv, NEW a \in Actors, Grown, OpenPosition(a)
  PROVE  NextRun(a)
<1> DEFINE p == actor[a]
           q == [p EXCEPT !.pc = "executed", !.left = 0]
<1>1. /\ p \in Actor /\ p.pc = "open" /\ p.op \in {"destination", "settle"}
      /\ Legal(p, DOMAIN portfolios, DOMAIN positions, DOMAIN trades, DOMAIN channels)
  BY RunFacts, StepOps DEF OpenPosition
<1>2. NothingToBook(p) /\ p.selected = {}
  BY <1>1 DEF Legal, AtStep
<1>3. CASE Set(a, Idle)
  BY <1>3, ToIdle
<1>4. CASE p.op = "destination" /\ Set(a, [p EXCEPT !.pc = "charge"])
  BY <1>2, <1>4, ToStep DEF StepsOf
<1>5. CASE p.op = "settle" /\ Set(a, q)
  <2>1. Set(a, q)
    BY <1>5
  <2>2. /\ q.op = p.op /\ q.pc = "executed" /\ q.selected = p.selected
        /\ q.user = p.user /\ q.portfolio = p.portfolio /\ q.trade = p.trade
        /\ q.left = 0 /\ q.price = p.price /\ q.channel = p.channel /\ q.todo = p.todo
        /\ q.gain = p.gain /\ q.share = p.share /\ q.off = p.off
    <3> HIDE DEF p
    <3> QED BY <1>1 DEF Actor
  <2>3. q \in Actor
    <3> HIDE DEF p
    <3>1. ASSUME NEW n \in Nat PROVE [p EXCEPT !.pc = "executed", !.left = n] \in Actor
      BY Named, <1>1 DEF Actor
    <3> QED BY <3>1, Zenon
  <2>4. p.op = "settle"
    BY <1>5
  <2> HIDE DEF p, q
  <2>5. Keeps(q, DOMAIN portfolios, DOMAIN positions, DOMAIN trades, DOMAIN channels)
    BY <1>1, <2>2, <2>4 DEF Legal, Keeps, RowsLegal, TodoLegal
  <2>6. AtStep(q, DOMAIN portfolios, DOMAIN channels)
    BY <1>1, <1>2, <2>2, <2>4 DEF Legal, AtStep, NothingToBook
  <2>7. Legal(q, DOMAIN portfolios, DOMAIN positions, DOMAIN trades, DOMAIN channels)
    BY <2>2, <2>4, <2>5, <2>6 DEF Legal, StepsOf
  <2> QED BY <2>1, <2>3, <2>7, LegalNow
<1>6. p.op # "settle" => Set(a, [p EXCEPT !.pc = "charge"]) \/ Set(a, Idle)
  BY DEF OpenPosition
<1>7. p.op = "settle" => Set(a, q)
  BY DEF OpenPosition
<1> QED BY <1>1, <1>3, <1>4, <1>5, <1>6, <1>7

LEMMA SumIsInt ==
  ASSUME TypeInv, NEW q, NEW price \in Nat
  PROVE  Total(q, price) \in Int
<1> DEFINE f == [i \in DOMAIN positions |->
                   IF i \in OpenOf(q)
                   THEN Gain(positions[i].direction, positions[i].entry, price)
                          * positions[i].quantity
                   ELSE 0]
<1>1. ASSUME NEW i \in DOMAIN positions PROVE f[i] \in Int
  <2>1. positions[i] \in Position
    BY Lengths DEF TypeInv
  <2>2. positions[i].entry \in Int /\ positions[i].quantity \in Nat
    <3>1. positions[i].entry \in Prices /\ positions[i].quantity \in Nat
      BY <2>1 DEF Position
    <3> QED BY <3>1, Numbers
  <2>3. Gain(positions[i].direction, positions[i].entry, price) \in Int
    BY <2>2, GainType
  <2> QED BY <2>2, <2>3
<1>2. IsFiniteSet(DOMAIN positions)
  BY Lengths, FS_Interval DEF TypeInv
<1>3. f \in [DOMAIN positions -> Int]
  BY <1>1
<1> HIDE DEF f
<1>4. Sum(f) \in Int
  BY <1>2, <1>3, SumType
<1> QED BY <1>4 DEF Total, f

LEMMA MarksRun ==
  ASSUME TypeInv, NEW a \in Actors, Grown, SelectMarks(a)
  PROVE  NextRun(a)
<1> DEFINE p == actor[a]
           owners == {positions[i].portfolio : i \in OpenPositions}
           totals == [q \in DOMAIN p.totals |-> Total(q, p.price)]
           q == [p EXCEPT !.pc = "mark", !.selected = Select(OpenPositions),
                          !.todo = owners, !.totals = totals]
<1>1. /\ p \in Actor /\ p.pc = "positions" /\ p.op = "mark"
      /\ Legal(p, DOMAIN portfolios, DOMAIN positions, DOMAIN trades, DOMAIN channels)
  BY RunFacts, StepOps DEF SelectMarks
<1>2. CASE Set(a, Idle)
  BY <1>2, ToIdle
<1>3. CASE Set(a, q)
  <2>1. /\ Select(OpenPositions) \in SUBSET Selected
        /\ \A r \in Select(OpenPositions) :
             /\ r.id \in OpenPositions /\ r.id \in DOMAIN positions
             /\ r.row = positions[r.id]
             /\ r.row.status = "open" /\ r.row.quantity > 0
             /\ r.row.portfolio \in DOMAIN portfolios
             /\ \A s \in Select(OpenPositions) : s.id = r.id => s = r
    BY SelectFacts DEF TypeInv
  <2>2. owners \subseteq DOMAIN portfolios
    BY OpenFacts DEF TypeInv
  <2>3. owners \in SUBSET (Nat \ {0})
    <3>1. DOMAIN portfolios \subseteq Nat \ {0}
      BY Lengths DEF TypeInv
    <3> HIDE DEF owners
    <3> QED BY <2>2, <3>1
  <2>4. p.price \in Prices /\ p.price \in Nat
    BY <1>1, Bounds DEF Legal, Keeps
  <2>5. totals \in [1..MaxPortfolios -> Int]
    <3>1. p.totals \in [1..MaxPortfolios -> Int]
      BY <1>1 DEF Actor
    <3>2. DOMAIN p.totals = 1..MaxPortfolios
      BY <3>1
    <3> QED BY <2>4, <3>2, SumIsInt
  <2>6. \A r \in Select(OpenPositions) : r.row.portfolio \in owners
    BY <2>1
  <2>7. Set(a, q)
    BY <1>3
  <2> HIDE DEF owners, totals, p
  <2>8. /\ q \in Actor /\ q.op = p.op /\ q.pc = "mark" /\ q.selected = Select(OpenPositions)
        /\ q.user = p.user /\ q.portfolio = p.portfolio /\ q.trade = p.trade
        /\ q.left = p.left /\ q.price = p.price /\ q.channel = p.channel /\ q.todo = owners
        /\ q.gain = p.gain /\ q.share = p.share /\ q.off = p.off
    BY Named, <1>1, <2>1, <2>3, <2>5 DEF Actor
  <2> HIDE DEF q
  <2>9. RowsLegal(q, DOMAIN portfolios, DOMAIN positions)
    BY <1>1, <2>1, <2>6, <2>8 DEF RowsLegal
  <2>10. Keeps(q, DOMAIN portfolios, DOMAIN positions, DOMAIN trades, DOMAIN channels)
    BY <1>1, <2>2, <2>8, <2>9 DEF Legal, Keeps, TodoLegal
  <2>11. AtStep(q, DOMAIN portfolios, DOMAIN channels)
    BY <1>1, <2>8 DEF Legal, AtStep, NothingToBook
  <2>12. Legal(q, DOMAIN portfolios, DOMAIN positions, DOMAIN trades, DOMAIN channels)
    BY <1>1, <2>8, <2>10, <2>11 DEF Legal, StepsOf
  <2> QED BY <2>7, <2>8, <2>12, LegalNow
<1> QED BY <1>2, <1>3 DEF SelectMarks

LEMMA TotalRun ==
  ASSUME TypeInv, NEW a \in Actors, Grown, actor[a].pc = "total", NEW q \in actor[a].todo,
         Set(a, NextTotal(actor[a], q))
  PROVE  NextRun(a)
<1> DEFINE p == actor[a]
           r == [p EXCEPT !.pc = "total", !.todo = @ \ {q}]
<1>1. /\ p \in Actor /\ p.op = "mark" /\ p.pc = "total"
      /\ Legal(p, DOMAIN portfolios, DOMAIN positions, DOMAIN trades, DOMAIN channels)
  BY RunFacts, StepOps
<1>2. NothingToBook(p) /\ p.selected = {} /\ p.todo \subseteq DOMAIN portfolios
      /\ p.todo \subseteq Nat \ {0}
  BY <1>1 DEF Legal, AtStep, Keeps, TodoLegal, Actor
<1>3. NextTotal(p, q) = Idle \/ NextTotal(p, q) = [p EXCEPT !.pc = "total", !.todo = p.todo \ {q}]
  <2> HIDE DEF p
  <2> QED BY <1>1 DEF NextTotal, Actor
<1> DEFINE rest == p.todo \ {q}
           s == [p EXCEPT !.pc = "total", !.todo = rest]
<1>4. s \in Actor /\ Legal(s, DOMAIN portfolios, DOMAIN positions, DOMAIN trades,
                           DOMAIN channels)
  <2>1. rest \subseteq DOMAIN portfolios /\ rest \subseteq Nat \ {0}
    BY <1>2
  <2> HIDE DEF p, rest
  <2> QED BY <1>1, <1>2, <2>1, FewerTotals, Zenon
<1>5. Set(a, NextTotal(p, q))
  OBVIOUS
<1> HIDE DEF p, s
<1> QED BY <1>3, <1>4, <1>5, ToIdle, LegalNow DEF s

LEMMA MemberRun ==
  ASSUME TypeInv, NEW a \in Actors, Grown, actor[a].pc \in {"entries", "members"},
         NEW users, users \subseteq Users, Set(a, NextMember(actor[a], users))
  PROVE  NextRun(a)
<1> DEFINE p == actor[a]
           s == [p EXCEPT !.pc = "members", !.todo = users]
<1>1. /\ p \in Actor /\ p.op = "activate" /\ p.pc \in {"entries", "members"}
      /\ Legal(p, DOMAIN portfolios, DOMAIN positions, DOMAIN trades, DOMAIN channels)
  BY RunFacts, StepOps
<1>2. NothingToBook(p) /\ p.selected = {} /\ p.channel \in DOMAIN channels
      /\ users \subseteq Nat \ {0}
  BY <1>1, Bounds DEF Legal, AtStep, Users
<1>3. NextMember(p, users) \in {Idle, s}
  BY DEF NextMember
<1>4. Set(a, NextMember(p, users))
  OBVIOUS
<1> HIDE DEF p
<1>5. s \in Actor /\ Legal(s, DOMAIN portfolios, DOMAIN positions, DOMAIN trades,
                           DOMAIN channels)
  BY <1>1, <1>2, FewerMembers, Zenon
<1> HIDE DEF s
<1> QED BY <1>3, <1>4, <1>5, ToIdle, LegalNow

LEMMA RankRun ==
  ASSUME TypeInv, NEW a \in Actors, Grown,
         NEW p \in Actor, p.op = "complete", NothingToBook(p), p.selected = {},
         Legal(p, DOMAIN portfolios, DOMAIN positions, DOMAIN trades, DOMAIN channels),
         NEW users, users \subseteq Users, Set(a, NextRank(p, users))
  PROVE  NextRun(a)
<1> DEFINE none == [p EXCEPT !.pc = "completed", !.todo = {}]
           some == [p EXCEPT !.pc = "rank", !.todo = users]
<1>1. NextRank(p, users) \in {none, some}
  BY DEF NextRank
<1>2. users \subseteq Nat \ {0}
  BY Bounds DEF Users
<1>3. none \in Actor /\ Legal(none, DOMAIN portfolios, DOMAIN positions, DOMAIN trades,
                              DOMAIN channels)
  BY LessTodo, Zenon
<1>4. some \in Actor /\ Legal(some, DOMAIN portfolios, DOMAIN positions, DOMAIN trades,
                              DOMAIN channels)
  BY <1>2, LessTodo, Zenon
<1> HIDE DEF none, some
<1> QED BY <1>1, <1>3, <1>4, LegalNow

LEMMA PlaceType ==
  ASSUME NEW u
  PROVE  Place(u) \in 0..N
<1> DEFINE ahead == {v \in Entered : v = u \/ Ahead(v, u)}
<1>1. IsFiniteSet(1..N) /\ Cardinality(1..N) = N
  BY Bounds, FS_Interval
<1>2. ahead \subseteq 1..N
  BY DEF Entered, Users
<1> HIDE DEF ahead
<1>3. Cardinality(ahead) \in Nat /\ Cardinality(ahead) <= N
  BY <1>1, <1>2, FS_Subset, FS_CardinalityType
<1> QED BY <1>3, Bounds DEF Place, ahead

LEMMA BoardRun ==
  ASSUME TypeInv, NEW a \in Actors, Grown, ReadBoard(a)
  PROVE  NextRun(a)
<1> DEFINE p == actor[a]
           places == [u \in Users |-> IF u \in Entered THEN Place(u) ELSE 0]
           q == [p EXCEPT !.places = places]
<1>1. /\ p \in Actor /\ p.op = "complete" /\ p.pc = "board"
      /\ Legal(p, DOMAIN portfolios, DOMAIN positions, DOMAIN trades, DOMAIN channels)
  BY RunFacts, StepOps DEF ReadBoard
<1>2. places \in [Users -> 0..N]
  BY PlaceType, Bounds
<1>3. NothingToBook(p) /\ p.selected = {} /\ Set(a, NextRank(q, Entered))
  BY <1>1 DEF Legal, AtStep, ReadBoard
<1>4. Entered \subseteq Users
  BY DEF Entered
<1> HIDE DEF p, places
<1>5. /\ q \in Actor /\ q.op = p.op /\ q.pc = p.pc /\ q.selected = p.selected
      /\ q.user = p.user /\ q.portfolio = p.portfolio /\ q.trade = p.trade
      /\ q.left = p.left /\ q.price = p.price /\ q.channel = p.channel /\ q.todo = p.todo
      /\ q.gain = p.gain /\ q.share = p.share /\ q.off = p.off
  BY <1>1, <1>2 DEF Actor
<1> HIDE DEF q
<1>6. Keeps(q, DOMAIN portfolios, DOMAIN positions, DOMAIN trades, DOMAIN channels)
  BY <1>1, <1>5 DEF Legal, Keeps, RowsLegal, TodoLegal
<1>7. AtStep(q, DOMAIN portfolios, DOMAIN channels) /\ NothingToBook(q)
  BY <1>1, <1>3, <1>5 DEF Legal, AtStep, NothingToBook
<1>8. Legal(q, DOMAIN portfolios, DOMAIN positions, DOMAIN trades, DOMAIN channels)
  BY <1>1, <1>5, <1>6, <1>7 DEF Legal
<1> QED BY <1>1, <1>3, <1>4, <1>5, <1>7, <1>8, RankRun

LEMMA RankedRun ==
  ASSUME TypeInv, NEW a \in Actors, Grown, actor[a].pc = "rank", NEW u,
         Set(a, NextRank(actor[a], actor[a].todo \ {u}))
  PROVE  NextRun(a)
<1>1. /\ actor[a] \in Actor /\ actor[a].op = "complete"
      /\ Legal(actor[a], DOMAIN portfolios, DOMAIN positions, DOMAIN trades,
               DOMAIN channels)
  BY RunFacts, StepOps
<1>2. /\ NothingToBook(actor[a]) /\ actor[a].selected = {}
      /\ actor[a].todo \ {u} \subseteq Users
  BY <1>1 DEF Legal, AtStep, Keeps, TodoLegal
<1> QED BY <1>1, <1>2, RankRun

LEMMA CronStarts ==
  ASSUME TypeInv, NEW a \in Actors, Grown, StartActivation(a) \/ StartCompletion(a)
  PROVE  NextRun(a)
<1> DEFINE q == [Idle EXCEPT !.op = "activate", !.pc = "activate"]
           r == [Idle EXCEPT !.op = "complete", !.pc = "select", !.channel = channel]
<1>1. channel \in DOMAIN channels \cup {0} /\ channel \in Nat
  BY Lengths DEF TypeInv, Tables
<1>2. q \in Actor /\ r \in Actor
  BY Named, <1>1, IdleFacts DEF Actor
<1>3. /\ q.op = "activate" /\ q.pc = "activate" /\ q.portfolio = 0 /\ q.trade = 0
      /\ q.todo = {} /\ q.selected = {} /\ q.channel = 0
      /\ q.gain = 0 /\ q.share = 0 /\ q.off = 0
  BY DEF Idle
<1>4. /\ r.op = "complete" /\ r.pc = "select" /\ r.portfolio = 0 /\ r.trade = 0
      /\ r.todo = {} /\ r.selected = {} /\ r.channel = channel
      /\ r.gain = 0 /\ r.share = 0 /\ r.off = 0
  BY DEF Idle
<1>5. Set(a, q) \/ Set(a, r)
  BY DEF StartActivation, StartCompletion
<1> HIDE DEF q, r
<1>6. NothingToBook(q) /\ NothingToBook(r)
      /\ Keeps(q, DOMAIN portfolios, DOMAIN positions, DOMAIN trades, DOMAIN channels)
      /\ Keeps(r, DOMAIN portfolios, DOMAIN positions, DOMAIN trades, DOMAIN channels)
  BY <1>1, <1>3, <1>4 DEF NothingToBook, Keeps, RowsLegal, TodoLegal
<1> QED BY <1>2, <1>3, <1>4, <1>5, <1>6, Fresh DEF StepsOf

LEMMA ChannelRun ==
  ASSUME TypeInv, NEW a \in Actors, Grown, CreateChannel(a)
  PROVE  NextRun(a)
<1> DEFINE p == actor[a]
           q == [p EXCEPT !.pc = "attach", !.channel = Len(channels) + 1]
<1>1. /\ p \in Actor /\ p.pc = "channel" /\ p.op = "activate" /\ Set(a, q)
      /\ Legal(p, DOMAIN portfolios', DOMAIN positions', DOMAIN trades', DOMAIN channels')
  BY RunFacts, StillLegal, StepOps DEF CreateChannel
<1>2. Len(channels) + 1 \in DOMAIN channels' /\ Len(channels) + 1 \in Nat
  <2>1. channels \in Seq(Room)
    BY DEF TypeInv, Tables
  <2>2. [members |-> {}, archived |-> FALSE] \in Room
    BY DEF Room
  <2>3. channels' = Append(channels, [members |-> {}, archived |-> FALSE])
    BY DEF CreateChannel
  <2> QED BY <2>1, <2>2, <2>3, AppendFacts
<1>3. /\ q \in Actor /\ q.op = p.op /\ q.pc = "attach" /\ q.selected = p.selected
      /\ q.user = p.user /\ q.portfolio = p.portfolio /\ q.trade = p.trade
      /\ q.left = p.left /\ q.price = p.price /\ q.channel = Len(channels) + 1
      /\ q.todo = p.todo /\ q.gain = p.gain /\ q.share = p.share /\ q.off = p.off
  <2> HIDE DEF p
  <2> QED BY Named, <1>1, <1>2 DEF Actor
<1> HIDE DEF p, q
<1>4. Keeps(q, DOMAIN portfolios', DOMAIN positions', DOMAIN trades', DOMAIN channels')
  BY <1>1, <1>2, <1>3 DEF Legal, Keeps, RowsLegal, TodoLegal
<1>5. AtStep(q, DOMAIN portfolios', DOMAIN channels')
  BY <1>1, <1>2, <1>3 DEF Legal, AtStep, NothingToBook
<1>6. Legal(q, DOMAIN portfolios', DOMAIN positions', DOMAIN trades', DOMAIN channels')
  BY <1>1, <1>3, <1>4, <1>5 DEF Legal, StepsOf
<1> QED BY <1>1, <1>3, <1>6 DEF NextRun

(* The other steps of a lifecycle run, whether or not their statement failed. *)
LEMMA LifecycleRun ==
  ASSUME TypeInv, NEW a \in Actors, Grown,
         \/ actor[a].pc = "activate" /\ Set(a, [actor[a] EXCEPT !.pc = "channel"])
         \/ actor[a].pc = "attach" /\ Set(a, [actor[a] EXCEPT !.pc = "entries"])
         \/ actor[a].pc = "cancel" /\ Set(a, [actor[a] EXCEPT !.pc = "board"])
         \/ /\ actor[a].pc = "completed"
            /\ Set(a, IF actor[a].channel = 0 THEN Idle ELSE [actor[a] EXCEPT !.pc = "archive"])
  PROVE  NextRun(a)
<1>1. /\ actor[a] \in Actor
      /\ Legal(actor[a], DOMAIN portfolios, DOMAIN positions, DOMAIN trades,
               DOMAIN channels)
      /\ actor[a].pc \in {"activate", "attach"} => actor[a].op = "activate"
      /\ actor[a].pc \in {"cancel", "completed"} => actor[a].op = "complete"
  BY RunFacts, StepOps
<1>2. /\ actor[a].pc \in {"activate", "attach", "cancel", "completed"} =>
           NothingToBook(actor[a]) /\ actor[a].selected = {}
      /\ actor[a].pc = "attach" => actor[a].channel \in DOMAIN channels
  BY <1>1 DEF Legal, AtStep
<1>3. actor[a].pc = "attach" => actor[a].channel # 0
  BY <1>2, Lengths DEF TypeInv
<1>4. CASE actor[a].pc = "activate" /\ Set(a, [actor[a] EXCEPT !.pc = "channel"])
  BY <1>1, <1>2, <1>4, ToStep DEF StepsOf
<1>5. CASE actor[a].pc = "attach" /\ Set(a, [actor[a] EXCEPT !.pc = "entries"])
  BY <1>1, <1>2, <1>3, <1>5, ToStep DEF StepsOf
<1>6. CASE actor[a].pc = "cancel" /\ Set(a, [actor[a] EXCEPT !.pc = "board"])
  BY <1>1, <1>2, <1>6, ToStep DEF StepsOf
<1>7. CASE actor[a].pc = "completed" /\ actor[a].channel # 0
           /\ Set(a, [actor[a] EXCEPT !.pc = "archive"])
  BY <1>1, <1>2, <1>7, ToStep DEF StepsOf
<1>8. CASE Set(a, Idle)
  BY <1>8, ToIdle
<1> QED BY <1>4, <1>5, <1>6, <1>7, <1>8

(* A failed statement: the actor stops, goes on, or turns to the next trade. *)
LEMMA FailedRun ==
  ASSUME TypeInv, NEW a \in Actors, Grown, Failing(a)
  PROVE  NextRun(a)
<1> DEFINE p == actor[a]
<1>1. /\ p \in Actor
      /\ Legal(p, DOMAIN portfolios, DOMAIN positions, DOMAIN trades, DOMAIN channels)
  BY RunFacts
<1>2. CASE StatementThrows(a)
  <2>1. Set(a, Idle) \/ (p.op = "settle" /\ Set(a, TradeOver(p)))
    BY <1>2 DEF StatementThrows
  <2> QED BY <1>1, <2>1, ToIdle, TradeOverLegal, LegalNow
<1>3. CASE StatementIgnored(a)
  <2>1. /\ Set(a, Ignored(p))
        /\ p.pc \in {"cleanup", "charge", "credit", "executed", "activate", "attach",
                     "cancel", "completed", "archive"}
    BY <1>3 DEF StatementIgnored
  <2>2. CASE p.pc \in {"cleanup", "charge", "archive"}
    BY <2>1, <2>2, ToIdle DEF Ignored
  <2>3. CASE p.pc = "credit"
    <3>1. Set(a, Continue(NextRow(p)))
      BY <2>1, <2>3 DEF Ignored
    <3> QED BY <1>1, <2>3, <3>1, NextRowLegal, LegalNow
  <2>4. CASE p.pc = "executed"
    <3>1. Set(a, TradeOver(p)) /\ p.op = "settle"
      BY <1>1, <2>1, <2>4, StepOps DEF Ignored
    <3> QED BY <1>1, <3>1, TradeOverLegal, LegalNow
  <2>5. CASE p.pc \in {"activate", "attach", "cancel", "completed"}
    BY <2>1, <2>5, LifecycleRun DEF Ignored
  <2> QED BY <2>1, <2>2, <2>3, <2>4, <2>5
<1>4. ASSUME NEW r \in p.selected, RowIgnored(a, r) PROVE NextRun(a)
  <2>1. CASE p.pc = "close" /\ Set(a, Booking(p, r))
    BY <1>1, <2>1, BookingTypes, LegalNow
  <2>2. CASE p.pc = "mark" /\ Set(a, NextMark(p, r))
    BY <1>1, <2>2, NextMarkLegal, LegalNow
  <2> QED BY <1>4, <2>1, <2>2 DEF RowIgnored
<1>5. ASSUME NEW q \in p.todo, TotalIgnored(a, q) PROVE NextRun(a)
  BY <1>5, TotalRun DEF TotalIgnored
<1>6. ASSUME NEW u \in p.todo, RankIgnored(a, u) PROVE NextRun(a)
  BY <1>6, RankedRun DEF RankIgnored
<1> QED BY <1>2, <1>3, <1>4, <1>5, <1>6 DEF Failing

-----------------------------------------------------------------------------
(* The tables, statement by statement *)

LEMMA Spends ==
  ASSUME Tables, Start \/ Failure \/ UNCHANGED spent
  PROVE  spent' \in [starts : 0..MaxStarts, failures : 0..MaxFailures]
<1>1. spent \in [starts : 0..MaxStarts, failures : 0..MaxFailures]
  BY DEF Tables
<1>2. MaxStarts \in Nat /\ MaxFailures \in Nat
  BY Bounds
<1> QED BY <1>1, <1>2 DEF Start, Failure

LEMMA SameTables ==
  ASSUME Tables, Start \/ Failure \/ UNCHANGED spent,
         UNCHANGED <<row, clock, rows, account, early>>
  PROVE  Tables' /\ Grown
<1>1. spent' \in [starts : 0..MaxStarts, failures : 0..MaxFailures]
  BY Spends
<1> QED BY <1>1 DEF Tables, Grown, row, rows

(* Only the books, and counts of starts and failures, are written. *)
LEMMA BooksTables ==
  ASSUME Tables, Start \/ Failure \/ UNCHANGED spent,
         UNCHANGED <<row, clock, entry, rank, positions, trades, early>>,
         portfolios' \in Seq(Portfolio), Len(portfolios') = Len(portfolios),
         account' \in Seq(Account), Len(account') = Len(account)
  PROVE  Tables' /\ Grown
<1>1. spent' \in [starts : 0..MaxStarts, failures : 0..MaxFailures]
  BY Spends
<1>2. DOMAIN portfolios' = DOMAIN portfolios
  BY Lengths
<1> QED BY <1>1, <1>2 DEF Tables, Grown, row

LEMMA AccountFields ==
  ASSUME Tables, NEW q \in DOMAIN portfolios
  PROVE  /\ account[q] \in Account /\ account[q].earned \in Int /\ account[q].charged \in Nat
         /\ account[q].booked \in SUBSET Causes /\ account[q].marked \in SUBSET Causes
         /\ portfolios[q] \in Portfolio /\ portfolios[q].cash \in Int
         /\ portfolios[q].realized \in Int /\ portfolios[q].unrealized \in Int
         /\ portfolios[q].owner \in Users /\ portfolios[q].live \in BOOLEAN
         /\ q \in DOMAIN account
BY Lengths DEF Account, Portfolio

(* One account is written over. *)
LEMMA AccountWritten ==
  ASSUME Tables, NEW q \in DOMAIN portfolios, NEW x \in Account,
         account' = [account EXCEPT ![q] = x]
  PROVE  account' \in Seq(Account) /\ Len(account') = Len(account)
<1>1. account \in Seq(Account) /\ q \in DOMAIN account
  BY Lengths DEF Tables
<1> QED BY <1>1, ExceptFacts

LEMMA BlurAccount ==
  ASSUME Tables, NEW q \in DOMAIN portfolios, NEW b \in SUBSET Causes,
         NEW m \in SUBSET Causes, Blur(q, b, m)
  PROVE  account' \in Seq(Account) /\ Len(account') = Len(account)
<1> DEFINE x == [account[q] EXCEPT !.booked = @ \cup b, !.marked = @ \cup m]
<1>1. account[q] \in Account
  BY AccountFields
<1>2. x \in Account
  BY <1>1 DEF Account
<1>3. account' = [account EXCEPT ![q] = x]
  BY <1>1, AccountFields DEF Blur, Account
<1> HIDE DEF x
<1> QED BY <1>2, <1>3, AccountWritten

LEMMA BookedAccount ==
  ASSUME Tables, NEW q \in DOMAIN portfolios, NEW b \in SUBSET Causes,
         account' = [account EXCEPT ![q].booked = b]
  PROVE  account' \in Seq(Account) /\ Len(account') = Len(account)
<1> DEFINE x == [account[q] EXCEPT !.booked = b]
<1>1. account[q] \in Account
  BY AccountFields
<1>2. x \in Account
  BY <1>1 DEF Account
<1>3. account' = [account EXCEPT ![q] = x]
  BY <1>1 DEF Account
<1> HIDE DEF x
<1> QED BY <1>2, <1>3, AccountWritten

LEMMA MarkedAccount ==
  ASSUME Tables, NEW q \in DOMAIN portfolios, NEW b \in SUBSET Causes,
         account' = [account EXCEPT ![q].marked = b]
  PROVE  account' \in Seq(Account) /\ Len(account') = Len(account)
<1> DEFINE x == [account[q] EXCEPT !.marked = b]
<1>1. account[q] \in Account
  BY AccountFields
<1>2. x \in Account
  BY <1>1 DEF Account
<1>3. account' = [account EXCEPT ![q] = x]
  BY <1>1 DEF Account
<1> HIDE DEF x
<1> QED BY <1>2, <1>3, AccountWritten

LEMMA LostAccount ==
  ASSUME Tables, NEW missed, NEW b \in SUBSET Causes, NEW m \in SUBSET Causes,
         Lose(missed, b, m)
  PROVE  account' \in Seq(Account) /\ Len(account') = Len(account)
<1> DEFINE f(q) == IF q \notin missed THEN account[q]
                   ELSE [account[q] EXCEPT !.booked = @ \cup b, !.marked = @ \cup m]
<1>1. account' = [q \in DOMAIN account |-> f(q)]
  BY Zenon DEF Lose
<1>2. ASSUME NEW q \in DOMAIN account PROVE f(q) \in Account
  <2>1. account[q] \in Account
    BY Lengths
  <2> QED BY <2>1 DEF Account
<1>3. DOMAIN account = 1..Len(account) /\ Len(account) \in Nat
  BY DomainFacts DEF Tables
<1> HIDE DEF f
<1>4. account' \in [1..Len(account) -> Account]
  BY <1>1, <1>2, <1>3
<1> QED BY <1>3, <1>4

(* One portfolio is written over. *)
LEMMA PortfolioWritten ==
  ASSUME Tables, NEW q \in DOMAIN portfolios, NEW x \in Portfolio,
         portfolios' = [portfolios EXCEPT ![q] = x]
  PROVE  portfolios' \in Seq(Portfolio) /\ Len(portfolios') = Len(portfolios)
BY ExceptFacts DEF Tables

Quiet(a) ==
  \/ \E u \in Users : enterTournament(a, u)
  \/ \E i \in DOMAIN positions : closePosition(a, i)
  \/ \E price \in Prices : StartSettlement(a, price)
  \/ NextTrade(a)
  \/ SelectOpposite(a)
  \/ SelectMarks(a)
  \/ StartActivation(a)
  \/ ReadEntries(a)
  \/ StartCompletion(a)
  \/ SelectOpen(a)
  \/ ReadBoard(a)

LEMMA QuietStep ==
  ASSUME TypeInv, NEW a \in Actors, Quiet(a)
  PROVE  TypeInv' /\ UNCHANGED <<row, clock, rows, early>>
<1>1. UNCHANGED <<row, clock, rows, account, early>>
  BY Zenon DEF Quiet, enterTournament, closePosition, StartSettlement, NextTrade, SelectOpposite,
         SelectMarks, StartActivation, ReadEntries, StartCompletion, SelectOpen, ReadBoard
<1>2. Start \/ UNCHANGED spent
  BY Zenon DEF Quiet, enterTournament, closePosition, StartSettlement, NextTrade, SelectOpposite,
         SelectMarks, StartActivation, ReadEntries, StartCompletion, SelectOpen, ReadBoard,
         MayStart
<1>3. Tables' /\ Grown
  BY <1>1, <1>2, SameTables DEF TypeInv
<1>4. NextRun(a)
  <2>1. CASE ReadEntries(a)
    BY <1>3, <2>1, MemberRun DEF ReadEntries, Entered
  <2>2. CASE \/ \E u \in Users : enterTournament(a, u)
             \/ \E i \in DOMAIN positions : closePosition(a, i)
             \/ \E price \in Prices : StartSettlement(a, price)
    BY <1>3, <2>2, EnterRun, ByHandRun, SettlementRun
  <2>3. CASE NextTrade(a) \/ SelectOpposite(a) \/ SelectMarks(a) \/ SelectOpen(a)
    BY <1>3, <2>3, TradeTaken, OppositeRun, MarksRun
  <2>4. CASE StartActivation(a) \/ StartCompletion(a) \/ ReadBoard(a)
    BY <1>3, <2>4, CronStarts, BoardRun
  <2> QED BY <2>1, <2>2, <2>3, <2>4 DEF Quiet
<1> QED BY <1>1, <1>3, <1>4, TypeStays DEF TypeInv

LEMMA TradeStep ==
  ASSUME TypeInv, NEW a \in Actors, NEW u \in Users, NEW call \in Calls \ {"close"},
         NEW direction \in Directions, NEW quantity \in Quantities, NEW price \in Prices,
         StartTrade(a, u, call, direction, quantity, price)
  PROVE  TypeInv'
<1>1. Tables
  BY DEF TypeInv
<1>2. PICK q \in DOMAIN portfolios :
        account' = [account EXCEPT ![q].booked =
                      IF \A b \in Actors : ~Entering(b, q) THEN @ ELSE @ \cup {"late"}]
  BY DEF StartTrade
<1>3. account' \in Seq(Account) /\ Len(account') = Len(account)
  <2> DEFINE b == IF \A b \in Actors : ~Entering(b, q) THEN account[q].booked
                  ELSE account[q].booked \cup {"late"}
  <2>1. b \in SUBSET Causes
    BY <1>1, AccountFields DEF Causes
  <2>2. account' = [account EXCEPT ![q].booked = b]
    BY <1>2
  <2> HIDE DEF b
  <2> QED BY <1>1, <2>1, <2>2, BookedAccount
<1>4. UNCHANGED <<row, clock, rows, early>> /\ Start
  BY DEF StartTrade, MayStart
<1>5. Tables' /\ Grown
  BY <1>1, <1>3, <1>4, BooksTables DEF rows, Tables
<1> QED BY <1>5, TradeRun, TypeStays

LEMMA InsertStep ==
  ASSUME TypeInv, NEW a \in Actors, CreatePortfolio(a)
  PROVE  TypeInv'
<1> DEFINE x == [owner |-> actor[a].user, cash |-> StartingBalance, realized |-> 0,
                 unrealized |-> 0, live |-> TRUE]
<1>1. Tables /\ actor[a].pc = "portfolio" /\ Len(portfolios) < MaxPortfolios
  BY DEF TypeInv, CreatePortfolio
<1>2. actor[a].user \in Users
  BY <1>1, RunFacts, StepOps DEF Legal, Keeps
<1>3. x \in Portfolio
  BY <1>2, Bounds DEF Portfolio
<1>4. NoAccount \in Account
  BY DEF NoAccount, Account
<1>5. /\ portfolios' = Append(portfolios, x) /\ account' = Append(account, NoAccount)
      /\ UNCHANGED <<row, clock, entry, rank, positions, trades, early, spent>>
  BY DEF CreatePortfolio
<1>6. portfolios \in Seq(Portfolio) /\ account \in Seq(Account)
      /\ Len(account) = Len(portfolios) /\ Len(portfolios) \in Nat
  BY <1>1, Lengths DEF Tables
<1> HIDE DEF x
<1>7. /\ portfolios' \in Seq(Portfolio) /\ Len(portfolios') = Len(portfolios) + 1
      /\ DOMAIN portfolios' = DOMAIN portfolios \cup {Len(portfolios) + 1}
      /\ account' \in Seq(Account) /\ Len(account') = Len(portfolios) + 1
  BY <1>3, <1>4, <1>5, <1>6, AppendFacts
<1>8. Len(portfolios') <= MaxPortfolios
  BY <1>1, <1>6, <1>7, Bounds
<1>9. entry \in [Users -> 0..Len(portfolios')]
  <2>1. entry \in [Users -> 0..Len(portfolios)]
    BY <1>1 DEF Tables
  <2> QED BY <1>6, <1>7, <2>1
<1>10. Tables' /\ Grown
  BY <1>1, <1>5, <1>7, <1>8, <1>9 DEF Tables, Grown, row
<1> QED BY <1>10, InsertedRun, TypeStays

LEMMA EntryStep ==
  ASSUME TypeInv, NEW a \in Actors, CreateEntry(a)
  PROVE  TypeInv'
<1>1. Tables /\ actor[a].pc = "entry"
  BY DEF TypeInv, CreateEntry
<1>2. actor[a].portfolio \in DOMAIN portfolios
  BY <1>1, RunFacts DEF Legal, AtStep
<1>3. actor[a].portfolio \in 0..Len(portfolios)
  BY <1>1, <1>2, Lengths
<1>4. entry' = entry \/ entry' = [entry EXCEPT ![actor[a].user] = actor[a].portfolio]
  BY DEF CreateEntry
<1>5. entry' \in [Users -> 0..Len(portfolios)]
  BY <1>1, <1>3, <1>4 DEF Tables
<1>6. UNCHANGED <<row, clock, portfolios, rank, positions, trades, account, early, spent>>
  BY DEF CreateEntry
<1>7. Tables' /\ Grown
  BY <1>1, <1>5, <1>6 DEF Tables, Grown, row
<1> QED BY <1>7, EntryRun, TypeStays

(* The clean-up, a charge: one portfolio is written, and the actor stops. *)
LEMMA CleanStep ==
  ASSUME TypeInv, NEW a \in Actors, DeletePortfolio(a)
  PROVE  TypeInv'
<1> DEFINE q == actor[a].portfolio
           used == \/ \E t \in DOMAIN trades : trades[t].portfolio = q
                   \/ \E i \in DOMAIN positions : positions[i].portfolio = q
           x == [portfolios[q] EXCEPT !.live = used]
<1>1. /\ Tables /\ actor[a].pc = "cleanup" /\ Set(a, Idle)
      /\ portfolios' = [portfolios EXCEPT ![q].live = used]
      /\ UNCHANGED <<row, clock, entry, rank, positions, trades, account, early, spent>>
  BY DEF TypeInv, DeletePortfolio
<1>2. q \in DOMAIN portfolios
  BY <1>1, RunFacts DEF Legal, AtStep
<1>3. x \in Portfolio
  <2>1. portfolios[q] \in Portfolio /\ used \in BOOLEAN
    BY <1>1, <1>2, AccountFields
  <2> HIDE DEF used
  <2> QED BY <2>1 DEF Portfolio
<1>4. portfolios' = [portfolios EXCEPT ![q] = x]
  BY <1>1
<1> HIDE DEF x, q
<1>5. portfolios' \in Seq(Portfolio) /\ Len(portfolios') = Len(portfolios)
  BY <1>1, <1>2, <1>3, <1>4, PortfolioWritten
<1>6. Tables' /\ Grown
  BY <1>1, <1>5, BooksTables DEF Tables
<1> QED BY <1>1, <1>6, ToIdle, TypeStays

LEMMA ChargeStep ==
  ASSUME TypeInv, NEW a \in Actors, Charge(a)
  PROVE  TypeInv'
<1> DEFINE p == actor[a]
           q == p.portfolio
           cost == p.left * p.price
           x == [portfolios[q] EXCEPT !.cash = @ - cost]
           y == [account[q] EXCEPT !.charged = @ + cost]
<1>1. /\ Tables /\ p.pc = "charge" /\ Set(a, Idle)
      /\ portfolios' = [portfolios EXCEPT ![q].cash = @ - cost]
      /\ account' = [account EXCEPT ![q].charged = @ + cost]
      /\ UNCHANGED <<row, clock, entry, rank, positions, trades, early, spent>>
  BY DEF TypeInv, Charge
<1>2. p.op = "destination" /\ p \in Actor /\ q \in DOMAIN portfolios
  BY <1>1, RunFacts, StepOps DEF Legal, Keeps
<1>3. cost \in Nat
  <2>1. p.left \in Nat /\ p.price \in Prices
    BY <1>2, RunFacts DEF Legal, Keeps, Actor
  <2> QED BY <2>1, Numbers
<1> HIDE DEF cost
<1>4. x \in Portfolio /\ y \in Account
  <2>1. /\ portfolios[q] \in Portfolio /\ account[q] \in Account
        /\ portfolios[q].cash - cost \in Int /\ account[q].charged + cost \in Nat
    BY <1>1, <1>2, <1>3, AccountFields
  <2> QED BY <2>1 DEF Portfolio, Account
<1>5. portfolios' = [portfolios EXCEPT ![q] = x] /\ account' = [account EXCEPT ![q] = y]
  <2>1. portfolios[q] \in Portfolio /\ account[q] \in Account
    BY <1>1, <1>2, AccountFields
  <2> QED BY <1>1, <2>1 DEF Portfolio, Account
<1> HIDE DEF x, y, q
<1>6. /\ portfolios' \in Seq(Portfolio) /\ Len(portfolios') = Len(portfolios)
      /\ account' \in Seq(Account) /\ Len(account') = Len(account)
  BY <1>1, <1>2, <1>4, <1>5, PortfolioWritten, AccountWritten
<1>7. Tables' /\ Grown
  BY <1>1, <1>6, BooksTables
<1> QED BY <1>1, <1>7, ToIdle, TypeStays

LEMMA EnqueueStep ==
  ASSUME TypeInv, NEW a \in Actors, Enqueue(a)
  PROVE  TypeInv'
<1> DEFINE p == actor[a]
           x == [portfolio |-> p.portfolio, filled |-> 0, direction |-> p.direction,
                 quantity |-> p.left, status |-> "queued"]
<1>1. /\ Tables /\ p.pc = "enqueue" /\ Set(a, Idle) /\ Len(trades) < MaxTrades
      /\ trades' = Append(trades, x) \/ trades' = trades
      /\ Blur(p.portfolio, {"late"}, {}) \/ account' = account
      /\ UNCHANGED <<row, clock, portfolios, entry, rank, positions, early, spent>>
  BY DEF TypeInv, Enqueue
<1>2. /\ p \in Actor /\ p.op = "queue" /\ p.portfolio \in DOMAIN portfolios
      /\ p.left \in Quantities /\ p.direction \in Directions
  BY <1>1, RunFacts, StepOps DEF Legal, Keeps, Actor
<1>3. p.portfolio \in 1..MaxPortfolios
  BY <1>1, <1>2, Lengths, Bounds, SMTT(30) DEF Tables
<1> HIDE DEF p
<1>4. x \in Trade /\ x.portfolio = p.portfolio
  BY <1>2, <1>3 DEF Trade
<1>5. account' \in Seq(Account) /\ Len(account') = Len(account)
  <2>1. {"late"} \in SUBSET Causes /\ {} \in SUBSET Causes
    BY DEF Causes
  <2> QED BY <1>1, <1>2, <2>1, BlurAccount DEF Tables
<1> HIDE DEF x
<1>6. /\ trades' \in Seq(Trade) /\ Len(trades') <= MaxTrades
      /\ DOMAIN trades \subseteq DOMAIN trades'
      /\ \A t \in DOMAIN trades' : trades'[t].portfolio \in DOMAIN portfolios
  <2>1. CASE trades' = trades
    BY <1>1, <2>1 DEF Tables
  <2>2. CASE trades' = Append(trades, x)
    <3>1. /\ trades' \in Seq(Trade) /\ Len(trades') = Len(trades) + 1
          /\ DOMAIN trades' = DOMAIN trades \cup {Len(trades) + 1}
          /\ trades'[Len(trades) + 1] = x
          /\ \A t \in DOMAIN trades : trades'[t] = trades[t]
      BY <1>1, <1>4, <2>2, AppendFacts DEF Tables
    <3>2. Len(trades') <= MaxTrades
      BY <1>1, <3>1, Lengths, Bounds
    <3> QED BY <1>1, <1>2, <1>4, <3>1, <3>2 DEF Tables
  <2> QED BY <1>1, <2>1, <2>2
<1>7. Tables' /\ Grown
  BY <1>1, <1>5, <1>6 DEF Tables, Grown, row
<1> QED BY <1>1, <1>7, ToIdle, TypeStays

(* What a trade has been filled with. *)
LEMMA FilledType ==
  ASSUME Tables, NEW t \in DOMAIN trades \cup {0}, NEW n \in Nat, trades' = Filled(t, n)
  PROVE  /\ trades' \in Seq(Trade) /\ Len(trades') = Len(trades)
         /\ DOMAIN trades' = DOMAIN trades
         /\ \A s \in DOMAIN trades : /\ trades'[s].portfolio = trades[s].portfolio
                                     /\ trades'[s].status = trades[s].status
                                     /\ trades'[s].quantity = trades[s].quantity
                                     /\ trades'[s].direction = trades[s].direction
                                     /\ trades'[s].filled =
                                          trades[s].filled + IF s = t THEN n ELSE 0
<1>1. CASE t = 0
  <2>1. trades' = trades
    BY <1>1 DEF Filled
  <2>2. \A s \in DOMAIN trades : s # 0 /\ trades[s].filled \in Nat
    BY Lengths DEF Trade
  <2> QED BY <1>1, <2>1, <2>2 DEF Tables
<1>2. CASE t \in DOMAIN trades /\ t # 0
  <2> DEFINE x == [trades[t] EXCEPT !.filled = @ + n]
  <2>1. trades[t] \in Trade /\ trades \in Seq(Trade)
    BY <1>2, Lengths DEF Tables
  <2>2. /\ x \in Trade /\ x.portfolio = trades[t].portfolio /\ x.status = trades[t].status
        /\ x.quantity = trades[t].quantity /\ x.direction = trades[t].direction
        /\ x.filled = trades[t].filled + n
    <3>1. trades[t].filled + n \in Nat
      BY <2>1 DEF Trade
    <3>2. ASSUME NEW m \in Nat, NEW y, y = [trades[t] EXCEPT !.filled = m]
          PROVE  /\ y \in Trade /\ y.portfolio = trades[t].portfolio
                 /\ y.status = trades[t].status /\ y.quantity = trades[t].quantity
                 /\ y.direction = trades[t].direction /\ y.filled = m
      BY <2>1, <3>2 DEF Trade
    <3> QED BY <3>1, <3>2
  <2>3. trades' = [trades EXCEPT ![t] = x]
    BY <1>2, <2>1 DEF Filled, Trade
  <2> HIDE DEF x
  <2>4. /\ trades' \in Seq(Trade) /\ Len(trades') = Len(trades)
        /\ DOMAIN trades' = DOMAIN trades /\ trades'[t] = x
        /\ \A s \in DOMAIN trades \ {t} : trades'[s] = trades[s]
    BY <1>2, <2>1, <2>2, <2>3, ExceptFacts
  <2>5. \A s \in DOMAIN trades : trades[s].filled \in Nat
    BY Lengths DEF Trade
  <2> QED BY <1>2, <2>2, <2>4, <2>5
<1> QED BY <1>1, <1>2

(* One position is written over. *)
LEMMA PositionWritten ==
  ASSUME Tables, NEW i \in DOMAIN positions, NEW x \in Position,
         positions' = [positions EXCEPT ![i] = x], x.quantity > 0,
         x.portfolio = positions[i].portfolio
  PROVE  /\ positions' \in Seq(Position) /\ Len(positions') = Len(positions)
         /\ DOMAIN positions' = DOMAIN positions /\ positions'[i] = x
         /\ \A j \in DOMAIN positions \ {i} : positions'[j] = positions[j]
         /\ \A j \in DOMAIN positions' :
              positions'[j].quantity > 0 /\ positions'[j].portfolio \in DOMAIN portfolios
<1>1. positions \in Seq(Position)
  BY DEF Tables
<1>2. /\ positions' \in Seq(Position) /\ Len(positions') = Len(positions)
      /\ DOMAIN positions' = DOMAIN positions /\ positions'[i] = x
      /\ \A j \in DOMAIN positions \ {i} : positions'[j] = positions[j]
  BY <1>1, ExceptFacts
<1> QED BY <1>2 DEF Tables

(* The row as a close leaves it. *)
LEMMA ClosedPosition ==
  ASSUME TypeInv, NEW a \in Actors, NEW r \in actor[a].selected, CloseRow(a, r)
  PROVE  LET p == actor[a]
             n == CloseQuantity(p, r.row)
             x == positions'[r.id]
             y == positions[r.id]
         IN /\ x \in Position
            /\ positions' = [positions EXCEPT ![r.id] = x]
            /\ x.quantity > 0 /\ x.portfolio = y.portfolio
            /\ x.direction = y.direction /\ x.entry = y.entry
            /\ IF n = r.row.quantity
               THEN x.status = "closed" /\ x.unrealized = 0 /\ x.quantity = y.quantity
                    /\ x.mark = y.mark
               ELSE /\ x.status = y.status /\ x.quantity = r.row.quantity - n
                    /\ x.mark = Exit(p, r.row)
                    /\ x.unrealized = r.row.unrealized - Booking(p, r).share
<1> DEFINE p == actor[a]
           n == CloseQuantity(p, r.row)
           y == positions[r.id]
           share == Booking(p, r).share
           closed == [y EXCEPT !.status = "closed", !.unrealized = 0]
           part == [y EXCEPT !.quantity = r.row.quantity - n, !.mark = Exit(p, r.row),
                             !.unrealized = r.row.unrealized - share]
<1>1. /\ p \in Actor /\ p.pc = "close" /\ Tables
      /\ Legal(p, DOMAIN portfolios, DOMAIN positions, DOMAIN trades, DOMAIN channels)
  BY RunFacts, Zenon DEF CloseRow, TypeInv
<1>2. /\ r.id \in DOMAIN positions /\ r.row.quantity \in Nat /\ r.row.unrealized \in Int
      /\ n \in Nat /\ n > 0 /\ n <= r.row.quantity /\ Exit(p, r.row) \in Prices
  BY <1>1, RowFacts, CloseQuantityType
<1>3. share \in Int
  <2>1. Booking(p, r) \in Actor
    BY <1>1, BookingTypes
  <2> QED BY <2>1 DEF Actor
<1>4. y \in Position /\ y.quantity > 0 /\ positions \in Seq(Position)
  BY <1>1, <1>2, Lengths DEF Tables
<1>5. positions' = IF n = r.row.quantity
                   THEN [positions EXCEPT ![r.id].status = "closed", ![r.id].unrealized = 0]
                   ELSE [positions EXCEPT ![r.id].quantity = r.row.quantity - n,
                                          ![r.id].mark = Exit(p, r.row),
                                          ![r.id].unrealized = r.row.unrealized - share]
  BY Zenon DEF CloseRow
<1> HIDE DEF n, share, p
<1>6. CASE n = r.row.quantity
  <2>1. /\ closed \in Position /\ closed.status = "closed" /\ closed.unrealized = 0
        /\ closed.quantity = y.quantity /\ closed.portfolio = y.portfolio
        /\ closed.direction = y.direction /\ closed.entry = y.entry /\ closed.mark = y.mark
    <3>1. ASSUME NEW m \in Int
          PROVE  LET x == [y EXCEPT !.status = "closed", !.unrealized = m]
                 IN /\ x \in Position /\ x.status = "closed" /\ x.unrealized = m
                    /\ x.quantity = y.quantity /\ x.portfolio = y.portfolio
                    /\ x.direction = y.direction /\ x.entry = y.entry /\ x.mark = y.mark
      BY <1>4 DEF Position
    <3>2. 0 \in Int
      OBVIOUS
    <3> QED BY <3>1, <3>2, Zenon
  <2>2. positions' = [positions EXCEPT ![r.id] = closed]
    BY <1>4, <1>5, <1>6 DEF Position
  <2> HIDE DEF closed
  <2>3. positions'[r.id] = closed
    BY <1>2, <2>2
  <2> QED BY <1>4, <1>6, <2>1, <2>2, <2>3 DEF n, p
<1>7. CASE n # r.row.quantity
  <2>1. r.row.quantity - n \in Nat /\ r.row.quantity - n > 0 /\ r.row.unrealized - share \in Int
    BY <1>2, <1>3, <1>7
  <2>2. /\ part \in Position /\ part.status = y.status /\ part.quantity = r.row.quantity - n
        /\ part.mark = Exit(p, r.row) /\ part.unrealized = r.row.unrealized - share
        /\ part.portfolio = y.portfolio /\ part.direction = y.direction
        /\ part.entry = y.entry
    BY <1>2, <1>4, <2>1 DEF Position
  <2>3. positions' = [positions EXCEPT ![r.id] = part]
    BY <1>4, <1>5, <1>7 DEF Position
  <2> HIDE DEF part
  <2>4. positions'[r.id] = part
    BY <1>2, <2>3
  <2> QED BY <1>7, <2>1, <2>2, <2>3, <2>4 DEF n, p, share
<1> QED BY <1>6, <1>7

(* What a close does to the account of the portfolio. *)
LEMMA ClosedAccount ==
  ASSUME TypeInv, NEW a \in Actors, NEW r \in actor[a].selected, CloseRow(a, r)
  PROVE  LET q == r.row.portfolio
             y == account'[q]
         IN /\ q \in DOMAIN portfolios /\ y \in Account
            /\ account' = [account EXCEPT ![q] = y]
            /\ y.earned = account[q].earned + Booking(actor[a], r).gain
            /\ y.charged = account[q].charged
            /\ account[q].booked \subseteq y.booked /\ account[q].marked \subseteq y.marked
            /\ y.booked \subseteq account[q].booked \cup {"stale row"}
            /\ positions[r.id] # r.row => "stale row" \in y.booked /\ "stale row" \in y.marked
            /\ (\E b \in Actors : Marking(b, q)) => "stale row" \in y.marked
            /\ actor[a].op = "close" /\ r.row.unrealized # 0 => "closed by hand" \in y.marked
            /\ /\ actor[a].op = "complete"
               /\ Booking(actor[a], r).off # Distance(Booking(actor[a], r).share)
               => "partly closed" \in y.marked
            /\ y.marked \subseteq account[q].marked \cup
                 {"stale row", "closed by hand", "partly closed"}
<1> DEFINE p == actor[a]
           q == r.row.portfolio
           gain == Booking(p, r).gain
           stale == IF positions[r.id] = r.row THEN {} ELSE {"stale row"}
           apart == {cause \in {"closed by hand", "partly closed"} :
                      IF cause = "closed by hand"
                      THEN p.op = "close" /\ r.row.unrealized # 0
                      ELSE p.op = "complete" /\ Booking(p, r).off # Distance(Booking(p, r).share)}
           marked == account[q].marked \cup apart \cup
                      IF \E b \in Actors : Marking(b, q) THEN {"stale row"} ELSE stale
           y == [account[q] EXCEPT !.earned = @ + gain, !.booked = @ \cup stale,
                                   !.marked = marked]
<1>1. /\ p \in Actor /\ p.pc = "close" /\ Tables
      /\ Legal(p, DOMAIN portfolios, DOMAIN positions, DOMAIN trades, DOMAIN channels)
  BY RunFacts DEF CloseRow, TypeInv
<1>2. q \in DOMAIN portfolios /\ q \in DOMAIN account
  BY <1>1, RowFacts, Lengths
<1>3. gain \in Int
  <2>1. Booking(p, r) \in Actor
    BY <1>1, BookingTypes
  <2> QED BY <2>1 DEF Actor
<1>4. account[q] \in Account /\ account[q].earned \in Int
      /\ account[q].booked \in SUBSET Causes /\ account[q].marked \in SUBSET Causes
  BY <1>1, <1>2, AccountFields
<1>5. stale \subseteq {"stale row"} /\ apart \subseteq {"closed by hand", "partly closed"}
  OBVIOUS
<1>6. marked \in SUBSET Causes /\ account[q].booked \cup stale \in SUBSET Causes
  BY <1>4, <1>5, Zenon DEF Causes
<1>7. account' = [account EXCEPT ![q].earned = @ + gain, ![q].booked = @ \cup stale,
                                 ![q].marked = marked]
  BY Zenon DEF CloseRow
<1>8. account' = [account EXCEPT ![q] = y]
  <2> HIDE DEF gain, stale, marked
  <2> QED BY <1>4, <1>7 DEF Account
<1>9. /\ account[q].marked \subseteq marked
      /\ positions[r.id] # r.row => "stale row" \in stale /\ "stale row" \in marked
      /\ (\E b \in Actors : Marking(b, q)) => "stale row" \in marked
      /\ p.op = "close" /\ r.row.unrealized # 0 => "closed by hand" \in marked
      /\ /\ p.op = "complete" /\ Booking(p, r).off # Distance(Booking(p, r).share)
         => "partly closed" \in marked
  BY Zenon
<1>13. marked \subseteq account[q].marked \cup
                      {"stale row", "closed by hand", "partly closed"}
  BY <1>5
<1>10. account[q].earned + gain \in Int
  BY <1>3, <1>4
<1> HIDE DEF gain, stale, apart, marked
<1>11. /\ y \in Account /\ y.earned = account[q].earned + gain
       /\ y.charged = account[q].charged /\ y.booked = account[q].booked \cup stale
       /\ y.marked = marked
  BY <1>4, <1>6, <1>10 DEF Account
<1> HIDE DEF y
<1>12. account'[q] = y
  BY <1>2, <1>8
<1> QED BY <1>2, <1>5, <1>8, <1>9, <1>11, <1>12, <1>13, Zenon DEF gain

LEMMA CloseStep ==
  ASSUME TypeInv, NEW a \in Actors, NEW r \in actor[a].selected, CloseRow(a, r)
  PROVE  TypeInv'
<1> DEFINE p == actor[a]
           x == positions'[r.id]
           y == account'[r.row.portfolio]
<1>1. /\ p \in Actor /\ p.pc = "close" /\ Tables /\ Set(a, Booking(p, r))
      /\ trades' = Filled(p.trade, CloseQuantity(p, r.row))
      /\ UNCHANGED <<row, clock, portfolios, entry, rank, early, spent>>
      /\ Legal(p, DOMAIN portfolios, DOMAIN positions, DOMAIN trades, DOMAIN channels)
  BY RunFacts, Zenon DEF CloseRow, TypeInv
<1>2. /\ x \in Position /\ positions' = [positions EXCEPT ![r.id] = x]
      /\ x.quantity > 0 /\ x.portfolio = positions[r.id].portfolio
  BY ClosedPosition
<1>3. /\ r.row.portfolio \in DOMAIN portfolios /\ y \in Account
      /\ account' = [account EXCEPT ![r.row.portfolio] = y]
  BY ClosedAccount, Zenon
<1>4. r.id \in DOMAIN positions /\ CloseQuantity(p, r.row) \in Nat
  BY <1>1, RowFacts, CloseQuantityType
<1> HIDE DEF x, y
<1>5. /\ positions' \in Seq(Position) /\ Len(positions') = Len(positions)
      /\ DOMAIN positions' = DOMAIN positions
      /\ \A j \in DOMAIN positions' :
           positions'[j].quantity > 0 /\ positions'[j].portfolio \in DOMAIN portfolios
  BY <1>1, <1>2, <1>4, PositionWritten
<1>6. account' \in Seq(Account) /\ Len(account') = Len(account)
  BY <1>1, <1>3, AccountWritten
<1>7. p.trade \in DOMAIN trades \cup {0}
  BY <1>1 DEF Legal, Keeps
<1>8. /\ trades' \in Seq(Trade) /\ Len(trades') = Len(trades) /\ DOMAIN trades' = DOMAIN trades
      /\ \A s \in DOMAIN trades : trades'[s].portfolio = trades[s].portfolio
  BY <1>1, <1>4, <1>7, FilledType
<1>9. Tables' /\ Grown
  BY <1>1, <1>5, <1>6, <1>8 DEF Tables, Grown, row
<1>10. NextRun(a)
  BY <1>1, <1>9, BookingTypes, LegalNow
<1> QED BY <1>9, <1>10, TypeStays

(* What the increments of a closed row do. *)
LEMMA CreditedRows ==
  ASSUME TypeInv, NEW a \in Actors, Credit(a)
  PROVE  LET p == actor[a]
             q == p.portfolio
             x == portfolios'[q]
             y == account'[q]
         IN /\ q \in DOMAIN portfolios /\ x \in Portfolio /\ y \in Account
            /\ portfolios' = [portfolios EXCEPT ![q] = x]
            /\ account' = [account EXCEPT ![q] = y]
            /\ x.cash = portfolios[q].cash + p.gain
            /\ x.realized = portfolios[q].realized + p.gain
            /\ x.unrealized = IF p.op = "complete"
                              THEN AtLeastZero(portfolios[q].unrealized - p.off)
                              ELSE portfolios[q].unrealized - p.off
            /\ x.owner = portfolios[q].owner /\ x.live = portfolios[q].live
            /\ y.earned = account[q].earned /\ y.charged = account[q].charged
            /\ y.booked = account[q].booked \cup IF Finalizing(a) THEN {"late"} ELSE {}
            /\ y.marked = account[q].marked \cup
                 IF p.op = "complete"
                 THEN IF x.unrealized = portfolios[q].unrealized - p.share
                      THEN {} ELSE {"clamped"}
                 ELSE IF "clamped" \in account[q].marked THEN {"late"} ELSE {}
<1> DEFINE p == actor[a]
           q == p.portfolio
           after == IF p.op = "complete" THEN AtLeastZero(portfolios[q].unrealized - p.off)
                    ELSE portfolios[q].unrealized - p.off
           more == IF Finalizing(a) THEN {"late"} ELSE {}
           blur == IF p.op = "complete"
                   THEN IF after = portfolios[q].unrealized - p.share THEN {} ELSE {"clamped"}
                   ELSE IF "clamped" \in account[q].marked THEN {"late"} ELSE {}
           x == [portfolios[q] EXCEPT !.cash = @ + p.gain, !.realized = @ + p.gain,
                                      !.unrealized = after]
           y == [account[q] EXCEPT !.booked = @ \cup more, !.marked = @ \cup blur]
<1>1. /\ p \in Actor /\ p.pc = "credit" /\ Tables
      /\ Legal(p, DOMAIN portfolios, DOMAIN positions, DOMAIN trades, DOMAIN channels)
  BY RunFacts DEF Credit, TypeInv
<1>2. q \in DOMAIN portfolios /\ q \in DOMAIN account /\ p.gain \in Int /\ p.off \in Int
  BY <1>1, Lengths DEF Legal, AtStep, Actor
<1>3. /\ account[q] \in Account /\ portfolios[q] \in Portfolio
      /\ account[q].booked \in SUBSET Causes /\ account[q].marked \in SUBSET Causes
      /\ portfolios[q].cash \in Int /\ portfolios[q].realized \in Int
      /\ portfolios[q].unrealized \in Int
  BY <1>1, <1>2, AccountFields
<1>4. after \in Int /\ more \subseteq {"late"} /\ blur \subseteq {"clamped", "late"}
  BY <1>2, <1>3 DEF AtLeastZero
<1>5. /\ portfolios' = [portfolios EXCEPT ![q].cash = @ + p.gain,
                                          ![q].realized = @ + p.gain,
                                          ![q].unrealized = after]
      /\ account' = [account EXCEPT ![q].booked = @ \cup more, ![q].marked = @ \cup blur]
  BY Zenon DEF Credit
<1>6. portfolios' = [portfolios EXCEPT ![q] = x] /\ account' = [account EXCEPT ![q] = y]
  <2> HIDE DEF p, q, after, more, blur
  <2> QED BY <1>3, <1>5 DEF Portfolio, Account
<1>8. /\ portfolios[q].cash + p.gain \in Int /\ portfolios[q].realized + p.gain \in Int
      /\ account[q].booked \cup more \in SUBSET Causes
      /\ account[q].marked \cup blur \in SUBSET Causes
  <2>1. {"late", "clamped"} \subseteq Causes
    BY DEF Causes
  <2> HIDE DEF p, q, after, more, blur
  <2>2. /\ account[q].booked \cup more \in SUBSET Causes
        /\ account[q].marked \cup blur \in SUBSET Causes
    BY <1>3, <1>4, <2>1
  <2>3. portfolios[q].cash + p.gain \in Int /\ portfolios[q].realized + p.gain \in Int
    BY <1>2, <1>3
  <2> QED BY <2>2, <2>3
<1> HIDE DEF p, q, after, more, blur
<1>9. /\ x \in Portfolio /\ x.cash = portfolios[q].cash + p.gain
      /\ x.realized = portfolios[q].realized + p.gain /\ x.unrealized = after
      /\ x.owner = portfolios[q].owner /\ x.live = portfolios[q].live
  BY <1>3, <1>4, <1>8 DEF Portfolio
<1>10. /\ y \in Account /\ y.earned = account[q].earned /\ y.charged = account[q].charged
       /\ y.booked = account[q].booked \cup more /\ y.marked = account[q].marked \cup blur
  BY <1>3, <1>8 DEF Account
<1> HIDE DEF x, y
<1>11. portfolios'[q] = x /\ account'[q] = y
  BY <1>2, <1>6
<1> QED BY <1>2, <1>6, <1>9, <1>10, <1>11 DEF p, q, more, blur, after

LEMMA CreditStep ==
  ASSUME TypeInv, NEW a \in Actors, Credit(a)
  PROVE  TypeInv'
<1> DEFINE p == actor[a]
           q == p.portfolio
<1>1. /\ Tables /\ p.pc = "credit" /\ Set(a, Continue(NextRow(p)))
      /\ UNCHANGED <<row, clock, entry, rank, positions, trades, early, spent>>
      /\ p \in Actor
      /\ Legal(p, DOMAIN portfolios, DOMAIN positions, DOMAIN trades, DOMAIN channels)
  BY RunFacts DEF TypeInv, Credit
<1>2. /\ q \in DOMAIN portfolios /\ portfolios'[q] \in Portfolio /\ account'[q] \in Account
      /\ portfolios' = [portfolios EXCEPT ![q] = portfolios'[q]]
      /\ account' = [account EXCEPT ![q] = account'[q]]
  BY CreditedRows
<1>3. /\ portfolios' \in Seq(Portfolio) /\ Len(portfolios') = Len(portfolios)
      /\ account' \in Seq(Account) /\ Len(account') = Len(account)
  BY <1>1, <1>2, PortfolioWritten, AccountWritten
<1>4. Tables' /\ Grown
  BY <1>1, <1>3, BooksTables
<1> QED BY <1>1, <1>4, NextRowLegal, LegalNow, TypeStays

(* What opening a position leaves. *)
LEMMA OpenedRows ==
  ASSUME TypeInv, NEW a \in Actors, OpenPosition(a)
  PROVE  LET p == actor[a]
             x == [portfolio |-> p.portfolio, direction |-> p.direction,
                   quantity |-> p.left, entry |-> p.price, mark |-> p.price,
                   unrealized |-> 0, status |-> "open"]
             k == Len(positions) + 1
         IN /\ p.portfolio \in DOMAIN portfolios /\ p.left \in Nat /\ p.left > 0
            /\ p.trade \in DOMAIN trades \cup {0}
            /\ x \in Position
            /\ \/ positions' = positions /\ ~portfolios[p.portfolio].live
               \/ positions' = Append(positions, x) /\ portfolios[p.portfolio].live
            /\ positions' \in Seq(Position) /\ Len(positions') <= MaxPositions
            /\ DOMAIN positions \subseteq DOMAIN positions'
            /\ DOMAIN positions' \subseteq DOMAIN positions \cup {k}
            /\ \A i \in DOMAIN positions : positions'[i] = positions[i] /\ i # k
            /\ k \in DOMAIN positions' => positions'[k] = x
            /\ \A i \in DOMAIN positions' :
                 positions'[i].quantity > 0 /\ positions'[i].portfolio \in DOMAIN portfolios
<1> DEFINE p == actor[a]
           x == [portfolio |-> p.portfolio, direction |-> p.direction,
                 quantity |-> p.left, entry |-> p.price, mark |-> p.price,
                 unrealized |-> 0, status |-> "open"]
           k == Len(positions) + 1
<1>1. /\ p \in Actor /\ p.pc = "open" /\ Tables /\ p.op \in {"destination", "settle"}
      /\ Legal(p, DOMAIN portfolios, DOMAIN positions, DOMAIN trades, DOMAIN channels)
      /\ Len(positions) < MaxPositions
      /\ positions' = IF portfolios[p.portfolio].live THEN Append(positions, x) ELSE positions
  BY RunFacts, StepOps DEF OpenPosition, TypeInv
<1>2. /\ p.left \in Nat /\ p.left > 0 /\ p.price \in Prices /\ p.direction \in Directions
      /\ p.trade \in DOMAIN trades \cup {0}
  BY <1>1 DEF Legal, Keeps, AtStep, Actor
<1>3. p.portfolio \in DOMAIN portfolios
  BY <1>1 DEF Legal, Keeps, AtStep
<1>4. p.portfolio \in 1..MaxPortfolios
  BY <1>1, <1>3, Ids
<1> HIDE DEF p
<1>5. /\ x \in Position /\ x.quantity > 0 /\ x.portfolio = p.portfolio
  <2>1. ASSUME NEW z \in Int
        PROVE  [portfolio |-> p.portfolio, direction |-> p.direction,
                 quantity |-> p.left, entry |-> p.price, mark |-> p.price,
                 unrealized |-> z, status |-> "open"] \in Position
    BY <1>2, <1>4 DEF Position
  <2> QED BY <1>2, <2>1
<1> HIDE DEF x
<1>6. /\ positions \in Seq(Position) /\ Len(positions) \in Nat
      /\ DOMAIN positions = 1..Len(positions)
      /\ \A i \in DOMAIN positions :
           positions[i].quantity > 0 /\ positions[i].portfolio \in DOMAIN portfolios
  BY <1>1, Lengths DEF Tables
<1>7. CASE positions' = Append(positions, x) /\ portfolios[p.portfolio].live
  <2>1. /\ positions' \in Seq(Position) /\ Len(positions') = k
        /\ DOMAIN positions' = DOMAIN positions \cup {k} /\ positions'[k] = x
        /\ k \notin DOMAIN positions
        /\ \A i \in DOMAIN positions : positions'[i] = positions[i]
    BY <1>5, <1>6, <1>7, AppendFacts
  <2>2. Len(positions') <= MaxPositions
    BY <1>1, <1>6, <2>1, Bounds
  <2> HIDE DEF k
  <2>3. \A i \in DOMAIN positions' :
           positions'[i].quantity > 0 /\ positions'[i].portfolio \in DOMAIN portfolios
    BY <1>3, <1>5, <1>6, <2>1
  <2> QED BY <1>2, <1>3, <1>5, <1>7, <2>1, <2>2, <2>3 DEF p, k, x
<1>8. CASE positions' = positions /\ ~portfolios[p.portfolio].live
  <2>1. k \notin DOMAIN positions /\ \A i \in DOMAIN positions : i # k
    BY <1>6
  <2>2. Len(positions) <= MaxPositions
    BY <1>1, <1>6, Bounds
  <2> HIDE DEF k
  <2> QED BY <1>2, <1>3, <1>5, <1>6, <1>8, <2>1, <2>2, Zenon DEF p, k, x
<1> QED BY <1>1, <1>7, <1>8

LEMMA OpenStep ==
  ASSUME TypeInv, NEW a \in Actors, OpenPosition(a)
  PROVE  TypeInv'
<1> DEFINE p == actor[a]
<1>1. /\ Tables /\ trades' = Filled(p.trade, p.left)
      /\ Blur(p.portfolio, {"late"}, {}) \/ account' = account
      /\ UNCHANGED <<row, clock, portfolios, entry, rank, early, spent>>
  BY DEF TypeInv, OpenPosition
<1>2. /\ p.portfolio \in DOMAIN portfolios /\ p.left \in Nat
      /\ p.trade \in DOMAIN trades \cup {0}
      /\ positions' \in Seq(Position) /\ Len(positions') <= MaxPositions
      /\ DOMAIN positions \subseteq DOMAIN positions'
      /\ \A i \in DOMAIN positions' :
           positions'[i].quantity > 0 /\ positions'[i].portfolio \in DOMAIN portfolios
  BY OpenedRows
<1> HIDE DEF p
<1>3. account' \in Seq(Account) /\ Len(account') = Len(account)
  <2>1. {"late"} \in SUBSET Causes /\ {} \in SUBSET Causes
    BY DEF Causes
  <2> QED BY <1>1, <1>2, <2>1, BlurAccount DEF Tables
<1>4. /\ trades' \in Seq(Trade) /\ Len(trades') = Len(trades) /\ DOMAIN trades' = DOMAIN trades
      /\ \A s \in DOMAIN trades : trades'[s].portfolio = trades[s].portfolio
  BY <1>1, <1>2, FilledType
<1>5. Tables' /\ Grown
  BY <1>1, <1>2, <1>3, <1>4 DEF Tables, Grown, row
<1> QED BY <1>5, OpenedRun, TypeStays

LEMMA ExecutedRows ==
  ASSUME TypeInv, NEW a \in Actors, MarkExecuted(a)
  PROVE  LET t == actor[a].trade
         IN /\ t \in DOMAIN trades
            /\ trades' \in Seq(Trade) /\ Len(trades') = Len(trades)
            /\ DOMAIN trades' = DOMAIN trades
            /\ trades'[t] = [trades[t] EXCEPT !.status = "executed"]
            /\ trades'[t].portfolio = trades[t].portfolio
            /\ trades'[t].filled = trades[t].filled
            /\ trades'[t].quantity = trades[t].quantity
            /\ trades'[t].status = "executed"
            /\ \A s \in DOMAIN trades \ {t} : trades'[s] = trades[s]
<1> DEFINE t == actor[a].trade
           x == [trades[t] EXCEPT !.status = "executed"]
<1>1. /\ Tables /\ actor[a].pc = "executed" /\ actor[a].op = "settle"
      /\ trades' = [trades EXCEPT ![t].status = "executed"]
  BY RunFacts, StepOps DEF TypeInv, MarkExecuted
<1>2. t \in DOMAIN trades
  BY <1>1, RunFacts DEF Legal, Keeps, AtStep
<1>3. trades[t] \in Trade /\ trades \in Seq(Trade)
  BY <1>1, <1>2, Lengths DEF Tables
<1> HIDE DEF t
<1>4. /\ x \in Trade /\ x.portfolio = trades[t].portfolio /\ x.filled = trades[t].filled
      /\ x.quantity = trades[t].quantity /\ x.status = "executed"
  BY <1>3 DEF Trade
<1>5. trades' = [trades EXCEPT ![t] = x]
  BY <1>1
<1>6. /\ trades' \in Seq(Trade) /\ Len(trades') = Len(trades)
      /\ DOMAIN trades' = DOMAIN trades /\ trades'[t] = x
      /\ \A s \in DOMAIN trades \ {t} : trades'[s] = trades[s]
  <2> HIDE DEF x
  <2> QED BY <1>2, <1>3, <1>4, <1>5, ExceptFacts
<1> QED BY <1>2, <1>4, <1>6 DEF t

LEMMA ExecutedStep ==
  ASSUME TypeInv, NEW a \in Actors, MarkExecuted(a)
  PROVE  TypeInv'
<1> DEFINE p == actor[a]
<1>1. /\ Tables /\ p.pc = "executed" /\ p.op = "settle" /\ Set(a, TradeOver(p))
      /\ p \in Actor
      /\ Legal(p, DOMAIN portfolios, DOMAIN positions, DOMAIN trades, DOMAIN channels)
      /\ UNCHANGED <<row, clock, portfolios, entry, rank, positions, account, early, spent>>
  BY RunFacts, StepOps DEF TypeInv, MarkExecuted
<1>2. /\ trades' \in Seq(Trade) /\ Len(trades') = Len(trades) /\ DOMAIN trades' = DOMAIN trades
      /\ \A s \in DOMAIN trades : trades'[s].portfolio = trades[s].portfolio
  BY ExecutedRows
<1> HIDE DEF p
<1>3. Tables' /\ Grown
  BY <1>1, <1>2 DEF Tables, Grown, row
<1> QED BY <1>1, <1>3, TradeOverLegal, LegalNow, TypeStays

(* The row as a marking leaves it. *)
LEMMA MarkedPosition ==
  ASSUME TypeInv, NEW a \in Actors, NEW r \in actor[a].selected, MarkPosition(a, r)
  PROVE  LET p == actor[a]
             x == positions'[r.id]
             y == positions[r.id]
         IN /\ r.id \in DOMAIN positions /\ x \in Position
            /\ positions' = [positions EXCEPT ![r.id] = x]
            /\ x.quantity = y.quantity /\ x.portfolio = y.portfolio /\ x.status = y.status
            /\ x.direction = y.direction /\ x.entry = y.entry /\ x.mark = p.price
            /\ x.unrealized = Gain(r.row.direction, r.row.entry, p.price) * r.row.quantity
            /\ x.quantity > 0
<1> DEFINE p == actor[a]
           y == positions[r.id]
           gain == Gain(r.row.direction, r.row.entry, p.price) * r.row.quantity
           x == [y EXCEPT !.mark = p.price, !.unrealized = gain]
<1>1. /\ p \in Actor /\ p.pc = "mark" /\ p.op = "mark" /\ Tables
      /\ Legal(p, DOMAIN portfolios, DOMAIN positions, DOMAIN trades, DOMAIN channels)
  <2>1. actor[a].pc = "mark" /\ Tables
    BY Zenon DEF MarkPosition, TypeInv
  <2> QED BY <2>1, RunFacts, StepOps
<1>2. /\ r.id \in DOMAIN positions /\ r.row.quantity \in Nat /\ r.row.entry \in Nat
      /\ p.price \in Prices /\ p.price \in Nat
  BY <1>1, RowFacts, Numbers DEF Legal, Keeps
<1>3. gain \in Int
  <2>1. Gain(r.row.direction, r.row.entry, p.price) \in Int
    BY <1>2, GainType
  <2> QED BY <1>2, <2>1
<1>4. y \in Position /\ y.quantity > 0 /\ positions \in Seq(Position)
  BY <1>1, <1>2, Lengths DEF Tables
<1>5. positions' = [positions EXCEPT ![r.id].mark = p.price, ![r.id].unrealized = gain]
  BY Zenon DEF MarkPosition
<1> HIDE DEF gain, p
<1>6. /\ x \in Position /\ x.quantity = y.quantity /\ x.portfolio = y.portfolio
      /\ x.status = y.status /\ x.direction = y.direction /\ x.entry = y.entry
      /\ x.mark = p.price /\ x.unrealized = gain
  BY <1>2, <1>3, <1>4 DEF Position
<1>7. positions' = [positions EXCEPT ![r.id] = x]
  BY <1>4, <1>5 DEF Position
<1> HIDE DEF x
<1>8. positions'[r.id] = x
  BY <1>2, <1>7
<1> QED BY <1>2, <1>4, <1>6, <1>7, <1>8 DEF gain, p

LEMMA MarkStep ==
  ASSUME TypeInv, NEW a \in Actors, NEW r \in actor[a].selected, MarkPosition(a, r)
  PROVE  TypeInv'
<1> DEFINE p == actor[a]
           x == positions'[r.id]
           q == r.row.portfolio
           late == {cause \in {"stale row", "late"} :
                     IF cause = "late" THEN Finalizing(a)
                     ELSE \/ r.row.quantity # positions[r.id].quantity
                          \/ r.row.status # positions[r.id].status
                          \/ \E b \in Actors \ {a} : Marking(b, q)}
<1>1. /\ p \in Actor /\ p.pc = "mark" /\ Tables /\ Set(a, NextMark(p, r))
      /\ Legal(p, DOMAIN portfolios, DOMAIN positions, DOMAIN trades, DOMAIN channels)
      /\ UNCHANGED <<row, clock, portfolios, entry, rank, trades, early, spent>>
      /\ Blur(q, {}, late)
  BY RunFacts, Zenon DEF MarkPosition, TypeInv
<1>2. /\ r.id \in DOMAIN positions /\ x \in Position
      /\ positions' = [positions EXCEPT ![r.id] = x]
      /\ x.portfolio = positions[r.id].portfolio /\ x.quantity > 0
  BY MarkedPosition
<1>3. q \in DOMAIN portfolios /\ {} \in SUBSET Causes /\ late \in SUBSET Causes
  BY <1>1, RowFacts, Zenon DEF Causes
<1> HIDE DEF p, x, q, late
<1>4. account' \in Seq(Account) /\ Len(account') = Len(account)
  BY <1>1, <1>3, BlurAccount
<1>5. /\ positions' \in Seq(Position) /\ Len(positions') = Len(positions)
      /\ DOMAIN positions' = DOMAIN positions
      /\ \A j \in DOMAIN positions' :
           positions'[j].quantity > 0 /\ positions'[j].portfolio \in DOMAIN portfolios
  BY <1>1, <1>2, PositionWritten
<1>6. Tables' /\ Grown
  BY <1>1, <1>4, <1>5 DEF Tables, Grown, row
<1> QED BY <1>1, <1>6, NextMarkLegal, LegalNow, TypeStays DEF p

LEMMA TotalStep ==
  ASSUME TypeInv, NEW a \in Actors, NEW q \in actor[a].todo, WriteTotal(a, q)
  PROVE  TypeInv'
<1> DEFINE p == actor[a]
           total == p.totals[q]
           x == [portfolios[q] EXCEPT !.unrealized = total]
           marked == (account[q].marked \ Mended) \cup IF Booked(q) = {} THEN {} ELSE {"stale row"}
<1>1. /\ p \in Actor /\ p.pc = "total" /\ p.op = "mark" /\ Tables /\ Set(a, NextTotal(p, q))
      /\ Legal(p, DOMAIN portfolios, DOMAIN positions, DOMAIN trades, DOMAIN channels)
      /\ UNCHANGED <<row, clock, entry, rank, positions, trades, early, spent>>
      /\ portfolios' = [portfolios EXCEPT ![q].unrealized = total]
      /\ account' = [account EXCEPT ![q].marked = marked]
  <2>1. /\ p.pc = "total" /\ Tables /\ Set(a, NextTotal(p, q))
        /\ UNCHANGED <<row, clock, entry, rank, positions, trades, early, spent>>
        /\ portfolios' = [portfolios EXCEPT ![q].unrealized = total]
    BY DEF WriteTotal, TypeInv
  <2>2. account' = [account EXCEPT ![q].marked = marked]
    BY DEF WriteTotal
  <2>3. p \in Actor /\ p.op = "mark"
    BY <2>1, RunFacts, StepOps
  <2> QED BY <2>1, <2>2, <2>3, RunFacts
<1>2. q \in DOMAIN portfolios
  BY <1>1 DEF Legal, Keeps, TodoLegal
<1>3. q \in 1..MaxPortfolios
  <2> HIDE DEF p, total, x, marked
  <2> QED BY <1>1, <1>2, Lengths, Bounds, SMTT(30) DEF Tables
<1>4. total \in Int
  BY <1>1, <1>3 DEF Actor
<1>5. marked \in SUBSET Causes
  BY <1>1, <1>2, AccountFields DEF Causes
<1> HIDE DEF total, marked
<1>6. x \in Portfolio /\ portfolios' = [portfolios EXCEPT ![q] = x]
  <2>1. portfolios[q] \in Portfolio
    BY <1>1, <1>2, AccountFields
  <2> QED BY <1>1, <1>4, <2>1 DEF Portfolio
<1> HIDE DEF x
<1>7. /\ portfolios' \in Seq(Portfolio) /\ Len(portfolios') = Len(portfolios)
      /\ account' \in Seq(Account) /\ Len(account') = Len(account)
  BY <1>1, <1>2, <1>5, <1>6, PortfolioWritten, MarkedAccount
<1>8. Tables' /\ Grown
  BY <1>1, <1>7, BooksTables
<1> QED BY <1>1, <1>8, TotalRun, TypeStays

(* The tournament's row and its channels. *)
LEMMA RowStep ==
  ASSUME TypeInv, NEW a \in Actors,
         Activate(a) \/ AttachChannel(a) \/ SetCompleted(a)
  PROVE  TypeInv'
<1>1. CASE Activate(a)
  <2>1. /\ Tables /\ status' = "active" /\ early' \in {Entered, early}
        /\ UNCHANGED <<channel, channels, clock, rows, account, spent>>
        /\ actor[a].pc = "activate" /\ Set(a, [actor[a] EXCEPT !.pc = "channel"])
    BY <1>1 DEF Activate, TypeInv
  <2>2. Tables' /\ Grown
    BY <2>1 DEF Tables, Grown, rows, Entered
  <2> QED BY <2>1, <2>2, LifecycleRun, TypeStays
<1>2. CASE AttachChannel(a)
  <2>1. /\ Tables /\ channel' = actor[a].channel
        /\ UNCHANGED <<status, channels, clock, rows, account, early, spent>>
        /\ actor[a].pc = "attach" /\ Set(a, [actor[a] EXCEPT !.pc = "entries"])
    BY <1>2 DEF AttachChannel, TypeInv
  <2>2. actor[a].channel \in DOMAIN channels
    BY <2>1, RunFacts DEF Legal, AtStep
  <2>3. actor[a].channel \in 0..Len(channels)
    BY <2>1, <2>2, Lengths
  <2>4. Tables' /\ Grown
    BY <2>1, <2>3 DEF Tables, Grown, rows
  <2> QED BY <2>1, <2>4, LifecycleRun, TypeStays
<1>3. CASE SetCompleted(a)
  <2>1. /\ Tables /\ status' = "completed" /\ actor[a].pc = "completed"
        /\ UNCHANGED <<channel, channels, clock, rows, account, early, spent>>
        /\ Set(a, IF actor[a].channel = 0 THEN Idle ELSE [actor[a] EXCEPT !.pc = "archive"])
    BY <1>3 DEF SetCompleted, TypeInv
  <2>2. Tables' /\ Grown
    BY <2>1 DEF Tables, Grown, rows
  <2> QED BY <2>1, <2>2, LifecycleRun, TypeStays
<1> QED BY <1>1, <1>2, <1>3

LEMMA ChannelStep ==
  ASSUME TypeInv, NEW a \in Actors, CreateChannel(a)
  PROVE  TypeInv'
<1> DEFINE x == [members |-> {}, archived |-> FALSE]
<1>1. /\ Tables /\ channels' = Append(channels, x)
      /\ UNCHANGED <<status, channel, clock, rows, account, early, spent>>
  BY DEF CreateChannel, TypeInv
<1>2. x \in Room /\ channels \in Seq(Room)
  BY <1>1 DEF Room, Tables
<1> HIDE DEF x
<1>3. /\ channels' \in Seq(Room) /\ Len(channels') = Len(channels) + 1
      /\ DOMAIN channels' = DOMAIN channels \cup {Len(channels) + 1}
  BY <1>1, <1>2, AppendFacts
<1>4. channel \in 0..Len(channels')
  BY <1>1, <1>3, Lengths DEF Tables
<1>5. Tables' /\ Grown
  BY <1>1, <1>3, <1>4 DEF Tables, Grown, rows
<1> QED BY <1>5, ChannelRun, TypeStays

(* One channel is written over. *)
LEMMA RoomWritten ==
  ASSUME Tables, NEW c \in DOMAIN channels, NEW x \in Room,
         channels' = [channels EXCEPT ![c] = x],
         UNCHANGED <<status, channel, clock, rows, account, early, spent>>
  PROVE  Tables' /\ Grown
<1>1. channels' \in Seq(Room) /\ Len(channels') = Len(channels)
      /\ DOMAIN channels' = DOMAIN channels
  BY ExceptFacts DEF Tables
<1> QED BY <1>1 DEF Tables, Grown, rows

LEMMA RoomSteps ==
  ASSUME TypeInv, NEW a \in Actors,
         ArchiveChannel(a) \/ \E u \in actor[a].todo : AddMember(a, u)
  PROVE  TypeInv'
<1> DEFINE p == actor[a]
           c == p.channel
<1>1. /\ p \in Actor /\ p.pc \in {"archive", "members"} /\ Tables
      /\ Legal(p, DOMAIN portfolios, DOMAIN positions, DOMAIN trades, DOMAIN channels)
      /\ p.pc = "members" => p.op = "activate"
  <2>1. actor[a].pc \in {"archive", "members"} /\ Tables
    BY DEF ArchiveChannel, AddMember, TypeInv
  <2> QED BY <2>1, RunFacts, StepOps
<1>2. c \in DOMAIN channels /\ channels[c] \in Room
  BY <1>1, Lengths DEF Legal, AtStep
<1>3. CASE ArchiveChannel(a)
  <2> DEFINE x == [channels[c] EXCEPT !.archived = TRUE]
  <2>1. /\ channels' = [channels EXCEPT ![c] = x] /\ Set(a, Idle)
        /\ UNCHANGED <<status, channel, clock, rows, account, early, spent>>
    BY <1>3 DEF ArchiveChannel
  <2>2. x \in Room
    BY <1>2 DEF Room
  <2> HIDE DEF x
  <2> QED BY <1>1, <1>2, <2>1, <2>2, RoomWritten, ToIdle, TypeStays
<1>4. ASSUME NEW u \in p.todo, AddMember(a, u) PROVE TypeInv'
  <2> DEFINE x == [channels[c] EXCEPT !.members = @ \cup {u}]
  <2>1. /\ channels' = [channels EXCEPT ![c].members = @ \cup {u}] /\ p.pc = "members"
        /\ Set(a, NextMember(p, p.todo \ {u}))
        /\ UNCHANGED <<status, channel, clock, rows, account, early, spent>>
    BY <1>4 DEF AddMember
  <2>2. p.todo \subseteq Users
    BY <1>1, <2>1 DEF Legal, Keeps, TodoLegal
  <2>3. x \in Room /\ channels' = [channels EXCEPT ![c] = x]
    BY <1>2, <2>1, <2>2 DEF Room
  <2> HIDE DEF x
  <2>4. Tables' /\ Grown
    BY <1>1, <1>2, <2>1, <2>3, RoomWritten
  <2>5. p.todo \ {u} \subseteq Users
    BY <2>2
  <2> QED BY <2>1, <2>4, <2>5, MemberRun, TypeStays
<1> QED BY <1>3, <1>4

LEMMA CancelStep ==
  ASSUME TypeInv, NEW a \in Actors, CancelQueued(a)
  PROVE  TypeInv'
<1> DEFINE f(t) == [trades[t] EXCEPT !.status = IF @ = "queued" THEN "cancelled" ELSE @]
<1>1. /\ Tables /\ trades' = [t \in DOMAIN trades |-> f(t)] /\ actor[a].pc = "cancel"
      /\ UNCHANGED <<row, clock, portfolios, entry, rank, positions, account, early, spent>>
      /\ Set(a, [actor[a] EXCEPT !.pc = "board"])
  BY DEF TypeInv, CancelQueued
<1>2. \A t \in DOMAIN trades : /\ f(t) \in Trade /\ f(t).portfolio = trades[t].portfolio
  <2>1. \A t \in DOMAIN trades : trades[t] \in Trade
    BY <1>1, Lengths
  <2> QED BY <2>1 DEF Trade
<1> HIDE DEF f
<1>3. DOMAIN trades = 1..Len(trades) /\ Len(trades) \in Nat
  BY <1>1, Lengths
<1>4. /\ trades' \in Seq(Trade) /\ DOMAIN trades' = DOMAIN trades /\ Len(trades') = Len(trades)
      /\ \A t \in DOMAIN trades : trades'[t].portfolio = trades[t].portfolio
  <2>1. trades' \in [1..Len(trades) -> Trade]
    BY <1>1, <1>2, <1>3
  <2> QED BY <1>1, <1>2, <1>3, <2>1
<1>5. Tables' /\ Grown
  BY <1>1, <1>4 DEF Tables, Grown, row
<1> QED BY <1>1, <1>5, LifecycleRun, TypeStays

LEMMA RankStep ==
  ASSUME TypeInv, NEW a \in Actors, NEW u \in actor[a].todo, WriteRank(a, u)
  PROVE  TypeInv'
<1> DEFINE p == actor[a]
<1>1. /\ p \in Actor /\ p.pc = "rank" /\ p.op = "complete" /\ Tables
      /\ Legal(p, DOMAIN portfolios, DOMAIN positions, DOMAIN trades, DOMAIN channels)
      /\ rank' = [rank EXCEPT ![u] = p.places[u]] /\ Set(a, NextRank(p, p.todo \ {u}))
      /\ UNCHANGED <<row, clock, portfolios, entry, positions, trades, account, early, spent>>
  BY RunFacts, StepOps DEF WriteRank, TypeInv
<1>2. u \in Users
  BY <1>1 DEF Legal, Keeps, TodoLegal
<1>3. p.places[u] \in 0..N
  BY <1>1, <1>2 DEF Actor
<1>4. rank' \in [Users -> 0..N]
  BY <1>1, <1>3 DEF Tables
<1>5. Tables' /\ Grown
  BY <1>1, <1>4 DEF Tables, Grown, row
<1> QED BY <1>1, <1>5, RankedRun, TypeStays

LEMMA FailStep ==
  ASSUME TypeInv, NEW a \in Actors, Failing(a)
  PROVE  TypeInv' /\ UNCHANGED <<row, clock, rows, early>>
<1>1. Tables /\ UNCHANGED <<row, clock, rows, early>> /\ Failure
  BY Zenon DEF Failing, StatementThrows, StatementIgnored, RowIgnored, TotalIgnored, RankIgnored,
         TypeInv
<1>2. account' \in Seq(Account) /\ Len(account') = Len(account)
  <2>1. {"lost update"} \in SUBSET Causes /\ {} \in SUBSET Causes
    BY DEF Causes
  <2>2. CASE account' = account
    BY <1>1, <2>2 DEF Tables
  <2>3. ASSUME NEW missed, NEW b \in {{}, {"lost update"}}, Lose(missed, b, {"lost update"})
        PROVE  account' \in Seq(Account) /\ Len(account') = Len(account)
    BY <1>1, <2>1, <2>3, LostAccount
  <2>4. CASE StatementThrows(a)
    <3>1. CASE actor[a].pc \in {"entry", "credit"}
      <4>1. actor[a].portfolio \in DOMAIN portfolios
        BY <3>1, RunFacts DEF Legal, AtStep
      <4>2. \/ Blur(actor[a].portfolio, {"lost update"}, {"lost update"})
            \/ Blur(actor[a].portfolio, {"lost update"}, {})
        BY <2>4, <3>1 DEF StatementThrows
      <4> QED BY <1>1, <2>1, <4>1, <4>2, BlurAccount
    <3>2. CASE actor[a].pc \notin {"entry", "credit"}
      BY <2>2, <2>4, <3>2 DEF StatementThrows
    <3> QED BY <3>1, <3>2
  <2>5. CASE StatementIgnored(a)
    <3>1. Lose(Missed(actor[a]), {"lost update"}, {"lost update"})
      BY <2>5 DEF StatementIgnored
    <3> QED BY <2>3, <3>1
  <2>6. ASSUME NEW r \in actor[a].selected, RowIgnored(a, r)
        PROVE  account' \in Seq(Account) /\ Len(account') = Len(account)
    <3>1. \/ Lose({r.row.portfolio}, {}, {"lost update"})
          \/ Lose({r.row.portfolio}, {"lost update"}, {"lost update"})
      BY <2>6 DEF RowIgnored
    <3> QED BY <2>3, <3>1
  <2>7. ASSUME NEW q \in actor[a].todo, TotalIgnored(a, q)
        PROVE  account' \in Seq(Account) /\ Len(account') = Len(account)
    <3>1. Lose({q}, {}, {"lost update"})
      BY <2>7 DEF TotalIgnored
    <3> QED BY <2>3, <3>1
  <2>8. ASSUME NEW u \in actor[a].todo, RankIgnored(a, u)
        PROVE  account' \in Seq(Account) /\ Len(account') = Len(account)
    <3>1. Lose({entry[u]}, {"lost update"}, {"lost update"})
      BY <2>8 DEF RankIgnored
    <3> QED BY <2>3, <3>1
  <2> QED BY <2>4, <2>5, <2>6, <2>7, <2>8 DEF Failing
<1>3. Tables' /\ Grown
  BY <1>1, <1>2, BooksTables DEF rows, Tables
<1> QED BY <1>1, <1>3, FailedRun, TypeStays

LEMMA OtherSteps ==
  ASSUME TypeInv, archiveTournament \/ Tick \/ UNCHANGED vars
  PROVE  TypeInv' /\ UNCHANGED <<actor, rows, account, early, spent, channel, channels>>
<1>1. /\ Tables
      /\ UNCHANGED <<rows, channel, channels, actor, account, early, spent>>
      /\ status' \in {status, "archived"}
      /\ clock' \in {clock, "running", "over"}
  BY DEF archiveTournament, Tick, vars, TypeInv, row, rows
<1>2. Tables'
  BY <1>1 DEF Tables, rows
<1>3. RunsLegal' /\ actor' \in [Actors -> Actor]
  BY <1>1 DEF TypeInv, RunsLegal, rows
<1> QED BY <1>1, <1>2, <1>3 DEF TypeInv

LEMMA CrashStep ==
  ASSUME TypeInv, Crash
  PROVE  TypeInv'
<1> DEFINE held(q) == {a \in Actors : actor[a].portfolio = q /\
                         actor[a].pc \in {"entry", "cleanup", "credit", "charge"}}
           marking(q) == {a \in Actors : Marking(a, q)}
           f(q) == [account[q] EXCEPT
             !.booked = IF held(q) = {} THEN @ ELSE @ \cup {"lost update"},
             !.marked = IF held(q) \cup marking(q) = {} THEN @
                        ELSE @ \cup {"lost update"}]
<1>1. /\ Tables /\ Failure /\ actor' = [a \in Actors |-> Idle]
      /\ account' = [q \in DOMAIN account |-> f(q)]
      /\ UNCHANGED <<row, clock, rows, early>>
  BY Zenon DEF Crash, TypeInv
<1>2. \A q \in DOMAIN account : f(q) \in Account
  <2>1. \A q \in DOMAIN account : account[q] \in Account
    BY <1>1, Lengths, Zenon
  <2>2. "lost update" \in Causes
    BY DEF Causes
  <2> HIDE DEF held, marking
  <2> QED BY <2>1, <2>2, Zenon DEF Account
<1> HIDE DEF f
<1>3. DOMAIN account = 1..Len(account) /\ Len(account) \in Nat
  BY <1>1, DomainFacts DEF Tables
<1>4. account' \in Seq(Account) /\ Len(account') = Len(account)
  <2>1. account' \in [1..Len(account) -> Account]
    BY <1>1, <1>2, <1>3
  <2> QED BY <1>3, <2>1
<1>5. Tables'
  BY <1>1, <1>4, BooksTables DEF rows, Tables
<1>6. actor' \in [Actors -> Actor] /\ RunsLegal'
  BY <1>1, IdleLegal DEF RunsLegal
<1> QED BY <1>5, <1>6 DEF TypeInv

LEMMA InitTypes == Init => TypeInv
<1> SUFFICES ASSUME Init PROVE TypeInv
  OBVIOUS
<1>1. /\ MaxPortfolios \in Nat /\ MaxPositions \in Nat /\ MaxTrades \in Nat
      /\ MaxStarts \in Nat /\ MaxFailures \in Nat /\ N \in Nat
  BY Bounds
<1>2. /\ channels \in Seq(Room) /\ Len(channels) = 0
      /\ portfolios \in Seq(Portfolio) /\ Len(portfolios) = 0
      /\ account \in Seq(Account) /\ Len(account) = 0
      /\ positions \in Seq(Position) /\ Len(positions) = 0 /\ DOMAIN positions = {}
      /\ trades \in Seq(Trade) /\ Len(trades) = 0 /\ DOMAIN trades = {}
  BY DEF Init
<1>3. Tables
  BY <1>1, <1>2 DEF Init, Tables
<1>4. actor \in [Actors -> Actor] /\ RunsLegal
  BY IdleLegal DEF Init, RunsLegal
<1> QED BY <1>3, <1>4 DEF TypeInv

-----------------------------------------------------------------------------
(* The actions one by one *)

Trading(a) == \E u \in Users, call \in Calls \ {"close"}, direction \in Directions,
                 quantity \in Quantities, price \in Prices :
                StartTrade(a, u, call, direction, quantity, price)

LEMMA Cases ==
  ASSUME Next
  PROVE  \/ \E a \in Actors : Quiet(a)
         \/ \E a \in Actors : Trading(a)
         \/ \E a \in Actors : CreatePortfolio(a)
         \/ \E a \in Actors : CreateEntry(a)
         \/ \E a \in Actors : DeletePortfolio(a)
         \/ \E a \in Actors : Enqueue(a)
         \/ \E a \in Actors : Charge(a)
         \/ \E a \in Actors : \E r \in actor[a].selected : CloseRow(a, r)
         \/ \E a \in Actors : Credit(a)
         \/ \E a \in Actors : OpenPosition(a)
         \/ \E a \in Actors : MarkExecuted(a)
         \/ \E a \in Actors : \E r \in actor[a].selected : MarkPosition(a, r)
         \/ \E a \in Actors : \E q \in actor[a].todo : WriteTotal(a, q)
         \/ \E a \in Actors : Activate(a) \/ AttachChannel(a) \/ SetCompleted(a)
         \/ \E a \in Actors : CreateChannel(a)
         \/ \E a \in Actors : ArchiveChannel(a) \/ \E u \in actor[a].todo : AddMember(a, u)
         \/ \E a \in Actors : CancelQueued(a)
         \/ \E a \in Actors : \E u \in actor[a].todo : WriteRank(a, u)
         \/ \E a \in Actors : Failing(a)
         \/ Crash
         \/ archiveTournament \/ Tick
<1>1. CASE \E a \in Requests : Request(a)
  <2>1. PICK a \in Actors : Request(a)
    BY <1>1 DEF Actors
  <2> QED BY <2>1 DEF Request, Quiet, Trading
<1>2. CASE \E a \in Settlements : Settlement(a)
  <2>1. PICK a \in Actors : Settlement(a)
    BY <1>2 DEF Actors
  <2> QED BY <2>1 DEF Settlement, Quiet
<1>3. CASE \E a \in Crons : Lifecycle(a)
  <2>1. PICK a \in Actors : Lifecycle(a)
    BY <1>3 DEF Actors
  <2> QED BY <2>1 DEF Lifecycle, Quiet
<1>4. CASE \E a \in Actors : Filling(a) \/ Failing(a)
  BY <1>4 DEF Filling
<1> QED BY <1>1, <1>2, <1>3, <1>4 DEF Next

LEMMA TypeStep ==
  ASSUME TypeInv, [Next]_vars
  PROVE  TypeInv'
<1>1. CASE UNCHANGED vars
  BY <1>1, OtherSteps
<1>2. CASE Next
  <2>1. ASSUME NEW a \in Actors,
               \/ Quiet(a) \/ CreatePortfolio(a) \/ CreateEntry(a) \/ DeletePortfolio(a)
               \/ Enqueue(a) \/ Charge(a)
        PROVE  TypeInv'
    BY <2>1, QuietStep, InsertStep, EntryStep, CleanStep, EnqueueStep, ChargeStep
  <2>2. ASSUME NEW a \in Actors,
               \/ Credit(a) \/ OpenPosition(a) \/ MarkExecuted(a) \/ CreateChannel(a)
               \/ CancelQueued(a) \/ Failing(a)
               \/ Activate(a) \/ AttachChannel(a) \/ SetCompleted(a)
        PROVE  TypeInv'
    BY <2>2, CreditStep, OpenStep, ExecutedStep, ChannelStep, CancelStep, FailStep, RowStep
  <2>3. ASSUME NEW a \in Actors, NEW r \in actor[a].selected,
               CloseRow(a, r) \/ MarkPosition(a, r)
        PROVE  TypeInv'
    BY <2>3, CloseStep, MarkStep
  <2>4. ASSUME NEW a \in Actors, NEW q \in actor[a].todo, WriteTotal(a, q) \/ WriteRank(a, q)
        PROVE  TypeInv'
    BY <2>4, TotalStep, RankStep
  <2>5. ASSUME NEW a \in Actors, ArchiveChannel(a) \/ \E u \in actor[a].todo : AddMember(a, u)
        PROVE  TypeInv'
    BY <2>5, RoomSteps
  <2>6. ASSUME NEW a \in Actors, Trading(a)
        PROVE  TypeInv'
    BY <2>6, TradeStep DEF Trading
  <2> QED BY <1>2, <2>1, <2>2, <2>3, <2>4, <2>5, <2>6, Cases, CrashStep, OtherSteps
<1> QED BY <1>1, <1>2

LEMMA TypesHold == Spec => []TypeInv
<1>1. Init => TypeInv
  BY InitTypes
<1>2. TypeInv /\ [Next]_vars => TypeInv'
  BY TypeStep
<1> QED BY <1>1, <1>2, PTL DEF Spec

-----------------------------------------------------------------------------
(* What no step takes back *)

KeptBooks == \A q \in DOMAIN portfolios :
  /\ q \in DOMAIN portfolios'
  /\ portfolios'[q].owner = portfolios[q].owner
  /\ account[q].booked \subseteq account'[q].booked

KeptEntries == \A u \in Users : entry[u] # 0 => entry'[u] = entry[u]

KeptTrades == \A t \in DOMAIN trades :
  /\ t \in DOMAIN trades'
  /\ trades'[t].portfolio = trades[t].portfolio
  /\ trades'[t].quantity = trades[t].quantity
  /\ trades[t].filled <= trades'[t].filled

KeptPositions == \A i \in DOMAIN positions :
  /\ i \in DOMAIN positions'
  /\ positions'[i].portfolio = positions[i].portfolio
  /\ positions'[i].direction = positions[i].direction
  /\ positions'[i].entry = positions[i].entry
  /\ positions[i].status = "closed" => positions'[i].status = "closed"

Kept == KeptBooks /\ KeptEntries /\ KeptTrades /\ KeptPositions

LEMMA SameEntries ==
  ASSUME entry' = entry
  PROVE  KeptEntries
BY DEF KeptEntries

LEMMA SameTrades ==
  ASSUME TypeInv, trades' = trades
  PROVE  KeptTrades
<1>1. \A t \in DOMAIN trades : trades[t].filled \in Nat
  BY Lengths DEF TypeInv, Trade
<1> QED BY <1>1 DEF KeptTrades

LEMMA SamePositions ==
  ASSUME positions' = positions
  PROVE  KeptPositions
BY DEF KeptPositions

LEMMA SameBooks ==
  ASSUME portfolios' = portfolios, account' = account
  PROVE  KeptBooks
BY DEF KeptBooks

(* The account of one portfolio, or of some, is blurred further. *)
LEMMA BlurKeeps ==
  ASSUME TypeInv, portfolios' = portfolios, NEW q \in DOMAIN portfolios, NEW b, NEW m, Blur(q, b, m)
  PROVE  /\ KeptBooks
         /\ account'[q].booked = account[q].booked \cup b
         /\ account'[q].marked = account[q].marked \cup m
         /\ \A p \in DOMAIN portfolios \ {q} : account'[p] = account[p]
         /\ \A p \in DOMAIN portfolios : account'[p].earned = account[p].earned
                                         /\ account'[p].charged = account[p].charged
<1>1. DOMAIN account = DOMAIN portfolios /\ account[q] \in Account
  BY Lengths DEF TypeInv
<1>2. account' = [account EXCEPT ![q] = account'[q]]
      /\ account'[q] = [account[q] EXCEPT !.booked = @ \cup b, !.marked = @ \cup m]
  BY <1>1 DEF Blur, Account
<1>3. /\ account'[q].booked = account[q].booked \cup b
      /\ account'[q].marked = account[q].marked \cup m
      /\ account'[q].earned = account[q].earned /\ account'[q].charged = account[q].charged
  BY <1>1, <1>2 DEF Account
<1>4. \A p \in DOMAIN portfolios \ {q} : account'[p] = account[p]
  BY <1>1, <1>2
<1> QED BY <1>3, <1>4 DEF KeptBooks

LEMMA LoseKeeps ==
  ASSUME TypeInv, portfolios' = portfolios, NEW missed, NEW b, NEW m, Lose(missed, b, m)
  PROVE  /\ KeptBooks
         /\ \A q \in DOMAIN portfolios :
              /\ account'[q].earned = account[q].earned
              /\ account'[q].charged = account[q].charged
              /\ q \in missed => /\ account'[q].booked = account[q].booked \cup b
                                 /\ account'[q].marked = account[q].marked \cup m
              /\ q \notin missed => account'[q] = account[q]
<1>1. DOMAIN account = DOMAIN portfolios /\ \A q \in DOMAIN portfolios : account[q] \in Account
  BY Lengths DEF TypeInv
<1>2. \A q \in DOMAIN portfolios :
         account'[q] = IF q \notin missed THEN account[q]
                       ELSE [account[q] EXCEPT !.booked = @ \cup b, !.marked = @ \cup m]
  BY <1>1, Zenon DEF Lose
<1>3. \A q \in DOMAIN portfolios :
              /\ account'[q].earned = account[q].earned
              /\ account'[q].charged = account[q].charged
              /\ q \in missed => /\ account'[q].booked = account[q].booked \cup b
                                 /\ account'[q].marked = account[q].marked \cup m
              /\ q \notin missed => account'[q] = account[q]
  BY <1>1, <1>2, Zenon DEF Account
<1> QED BY <1>3 DEF KeptBooks

(* What a failed statement leaves of the books. *)
LEMMA FailedBooks ==
  ASSUME TypeInv, NEW a \in Actors, Failing(a)
  PROVE  /\ UNCHANGED <<row, clock, rows, early>> /\ Failure
         /\ KeptBooks
         /\ \A q \in DOMAIN portfolios :
              /\ account'[q].earned = account[q].earned
              /\ account'[q].charged = account[q].charged
              /\ account[q].marked \subseteq account'[q].marked
              /\ account'[q].marked \subseteq account[q].marked \cup {"lost update"}
<1>1. UNCHANGED <<row, clock, rows, early>> /\ Failure /\ portfolios' = portfolios
  BY Zenon DEF Failing, StatementThrows, StatementIgnored, RowIgnored, TotalIgnored, RankIgnored, rows
<1>2. CASE account' = account
  BY <1>1, <1>2, SameBooks
<1>3. ASSUME NEW q \in DOMAIN portfolios, NEW b, NEW m \in SUBSET {"lost update"},
             Blur(q, b, m)
      PROVE  /\ KeptBooks
             /\ \A p \in DOMAIN portfolios :
                  /\ account'[p].earned = account[p].earned
                  /\ account'[p].charged = account[p].charged
                  /\ account[p].marked \subseteq account'[p].marked
                  /\ account'[p].marked \subseteq account[p].marked \cup {"lost update"}
  <2>1. /\ KeptBooks
        /\ account'[q].marked = account[q].marked \cup m
        /\ \A p \in DOMAIN portfolios \ {q} : account'[p] = account[p]
        /\ \A p \in DOMAIN portfolios : account'[p].earned = account[p].earned
                                         /\ account'[p].charged = account[p].charged
    BY <1>1, <1>3, BlurKeeps
  <2> QED BY <2>1
<1>4. ASSUME NEW missed, NEW b, Lose(missed, b, {"lost update"})
      PROVE  /\ KeptBooks
             /\ \A q \in DOMAIN portfolios :
                  /\ account'[q].earned = account[q].earned
                  /\ account'[q].charged = account[q].charged
                  /\ account[q].marked \subseteq account'[q].marked
                  /\ account'[q].marked \subseteq account[q].marked \cup {"lost update"}
  <2>1. /\ KeptBooks
        /\ \A q \in DOMAIN portfolios :
              /\ account'[q].earned = account[q].earned
              /\ account'[q].charged = account[q].charged
              /\ q \in missed => /\ account'[q].booked = account[q].booked \cup b
                                 /\ account'[q].marked = account[q].marked \cup {"lost update"}
              /\ q \notin missed => account'[q] = account[q]
    BY <1>1, <1>4, LoseKeeps
  <2> QED BY <2>1
<1>5. CASE StatementThrows(a)
  <2>1. actor[a].pc \in {"entry", "credit"} => actor[a].portfolio \in DOMAIN portfolios
    BY RunFacts DEF Legal, AtStep
  <2>2. \/ account' = account
        \/ /\ actor[a].pc \in {"entry", "credit"}
           /\ \/ Blur(actor[a].portfolio, {"lost update"}, {"lost update"})
              \/ Blur(actor[a].portfolio, {"lost update"}, {})
    BY <1>5 DEF StatementThrows
  <2> DEFINE q == actor[a].portfolio
  <2> HIDE DEF q
  <2>3. \/ account' = account
        \/ q \in DOMAIN portfolios /\ \E m \in SUBSET {"lost update"} : Blur(q, {"lost update"}, m)
    BY <2>1, <2>2 DEF q
  <2> QED BY <1>1, <1>2, <1>3, <2>3
<1>6. CASE StatementIgnored(a)
  <2>1. Lose(Missed(actor[a]), {"lost update"}, {"lost update"})
    BY <1>6 DEF StatementIgnored
  <2> QED BY <1>1, <1>4, <2>1
<1>7. ASSUME NEW r \in actor[a].selected, RowIgnored(a, r)
      PROVE  \E missed, b : Lose(missed, b, {"lost update"})
  BY <1>7 DEF RowIgnored
<1>8. ASSUME NEW q \in actor[a].todo, TotalIgnored(a, q) \/ RankIgnored(a, q)
      PROVE  \E missed, b : Lose(missed, b, {"lost update"})
  BY <1>8 DEF TotalIgnored, RankIgnored
<1> QED BY <1>1, <1>4, <1>5, <1>6, <1>7, <1>8, Zenon DEF Failing

LEMMA CrashBooks ==
  ASSUME TypeInv, Crash
  PROVE  /\ UNCHANGED <<row, clock, rows, early>> /\ Failure
         /\ actor' = [a \in Actors |-> Idle]
         /\ KeptBooks
         /\ \A q \in DOMAIN portfolios :
              /\ account'[q].earned = account[q].earned
              /\ account'[q].charged = account[q].charged
              /\ account[q].marked \subseteq account'[q].marked
              /\ account'[q].marked \subseteq account[q].marked \cup {"lost update"}
              /\ \A a \in Actors :
                   /\ actor[a].portfolio = q
                   /\ actor[a].pc \in {"entry", "cleanup", "credit", "charge"}
                   => "lost update" \in account'[q].booked
                      /\ "lost update" \in account'[q].marked
              /\ \A a \in Actors : Marking(a, q) => "lost update" \in account'[q].marked
<1> DEFINE held(q) == {a \in Actors : actor[a].portfolio = q /\
                         actor[a].pc \in {"entry", "cleanup", "credit", "charge"}}
           marking(q) == {a \in Actors : Marking(a, q)}
           f(q) == [account[q] EXCEPT
             !.booked = IF held(q) = {} THEN @ ELSE @ \cup {"lost update"},
             !.marked = IF held(q) \cup marking(q) = {} THEN @
                        ELSE @ \cup {"lost update"}]
<1>1. /\ Failure /\ actor' = [a \in Actors |-> Idle]
      /\ account' = [q \in DOMAIN account |-> f(q)]
      /\ UNCHANGED <<row, clock, rows, early>> /\ portfolios' = portfolios
  BY Zenon DEF Crash, rows
<1>2. DOMAIN account = DOMAIN portfolios /\ \A q \in DOMAIN portfolios : account[q] \in Account
  BY Lengths DEF TypeInv
<1>3. \A q \in DOMAIN portfolios : account'[q] = f(q)
  BY <1>1, <1>2, Zenon
<1> HIDE DEF held, marking
<1>4. \A q \in DOMAIN portfolios :
        /\ account'[q].earned = account[q].earned
        /\ account'[q].charged = account[q].charged
        /\ account'[q].booked = IF held(q) = {} THEN account[q].booked
                                ELSE account[q].booked \cup {"lost update"}
        /\ account'[q].marked = IF held(q) \cup marking(q) = {} THEN account[q].marked
                                ELSE account[q].marked \cup {"lost update"}
  BY <1>2, <1>3, ZenonT(40) DEF Account
<1> HIDE DEF f
<1>5. KeptBooks
  <2>1. \A q \in DOMAIN portfolios : account[q].booked \subseteq account'[q].booked
    BY <1>4
  <2> QED BY <1>1, <2>1 DEF KeptBooks
<1>7. \A q \in DOMAIN portfolios :
        /\ account[q].marked \subseteq account'[q].marked
        /\ account'[q].marked \subseteq account[q].marked \cup {"lost update"}
  BY <1>4
<1>6. ASSUME NEW q \in DOMAIN portfolios, NEW a \in Actors
      PROVE  /\ /\ actor[a].portfolio = q
                /\ actor[a].pc \in {"entry", "cleanup", "credit", "charge"}
                => "lost update" \in account'[q].booked
                   /\ "lost update" \in account'[q].marked
             /\ Marking(a, q) => "lost update" \in account'[q].marked
  <2>1. actor[a].portfolio = q /\ actor[a].pc \in {"entry", "cleanup", "credit", "charge"}
        => a \in held(q)
    BY DEF held
  <2>2. Marking(a, q) => a \in marking(q)
    BY DEF marking
  <2> QED BY <1>4, <2>1, <2>2
<1>8. \A q \in DOMAIN portfolios : account'[q].earned = account[q].earned
                                   /\ account'[q].charged = account[q].charged
  BY <1>4
<1> HIDE DEF Marking
<1> QED BY <1>1, <1>5, <1>6, <1>7, <1>8

-----------------------------------------------------------------------------
(* Who does what *)

RoleOps(a) ==
  {"idle"} \cup (IF a \in Requests THEN {"enter", "queue", "destination", "close"}
                 ELSE IF a \in Settlements THEN {"settle", "mark"}
                 ELSE {"activate", "complete"})

Roles == \A a \in Actors : actor[a].op \in RoleOps(a)

LEMMA OpsKept ==
  ASSUME NEW p \in Actor
  PROVE  /\ Continue(p).op \in {p.op, "idle"}
         /\ NextRow(p) \in Actor /\ NextRow(p).op = p.op
         /\ TradeOver(p).op = "settle"
         /\ \A t : Taken(p, t).op = p.op
         /\ \A r : Booking(p, r).op = p.op /\ NextMark(p, r).op = p.op
         /\ \A q : NextTotal(p, q).op \in {p.op, "idle"}
         /\ \A users : /\ NextMember(p, users).op \in {p.op, "idle"}
                       /\ NextRank(p, users).op = p.op
<1>1. Continue(p).op \in {p.op, "idle"}
  BY IdleFacts DEF Continue, Actor
<1>2. NextRow(p) \in Actor /\ NextRow(p).op = p.op
  <2>1. ASSUME NEW x \in Int
        PROVE  LET y == [p EXCEPT !.gain = x, !.share = x, !.off = x]
               IN y \in Actor /\ y.op = p.op
    BY DEF Actor
  <2>2. 0 \in Int
    OBVIOUS
  <2> QED BY <2>1, <2>2, Zenon DEF NextRow
<1>3. TradeOver(p).op = "settle"
  BY DEF TradeOver, Idle
<1>4. \A t : Taken(p, t).op = p.op
  BY DEF Taken, Actor
<1>5. \A r : Booking(p, r).op = p.op /\ NextMark(p, r).op = p.op
  BY DEF Booking, NextMark, Actor
<1>6. \A q : NextTotal(p, q).op \in {p.op, "idle"}
  BY IdleFacts DEF NextTotal, Actor
<1>7. \A users : NextMember(p, users).op \in {p.op, "idle"} /\ NextRank(p, users).op = p.op
  BY IdleFacts DEF NextMember, NextRank, Actor
<1> QED BY <1>1, <1>2, <1>3, <1>4, <1>5, <1>6, <1>7

LEMMA SetFacts ==
  ASSUME TypeInv, NEW a \in Actors, NEW x, Set(a, x)
  PROVE  actor'[a] = x /\ \A b \in Actors \ {a} : actor'[b] = actor[b]
BY DEF Set, TypeInv

LEMMA RequestShape ==
  ASSUME TypeInv, NEW a \in Actors, Request(a)
  PROVE  /\ actor'[a].op \in {"idle", "enter", "queue", "destination", "close"}
         /\ \A b \in Actors \ {a} : actor'[b] = actor[b]
<1> DEFINE p == actor[a]
<1>1. p \in Actor
  BY RunFacts
<1>2. ASSUME NEW u \in Users, enterTournament(a, u)
      PROVE  \E x : Set(a, x) /\ x.op = "enter"
  <2> DEFINE x == [Idle EXCEPT !.op = "enter", !.pc = "portfolio", !.user = u]
  <2>1. Set(a, x) /\ x.op = "enter"
    BY <1>2 DEF enterTournament, Idle
  <2> QED BY <2>1
<1>3. CASE CreatePortfolio(a)
  <2> DEFINE x == [p EXCEPT !.pc = "entry", !.portfolio = Len(portfolios) + 1]
  <2>1. Set(a, x)
    BY <1>3 DEF CreatePortfolio
  <2>2. p.pc = "portfolio"
    BY <1>3 DEF CreatePortfolio
  <2>3. x.op = "enter"
    BY <1>1, <2>2, RunFacts, StepOps DEF Actor
  <2> QED BY <2>1, <2>3, SetFacts
<1>4. CASE CreateEntry(a)
  <2> DEFINE x == [p EXCEPT !.pc = "cleanup"]
  <2>1. (Set(a, Idle) \/ Set(a, x)) /\ p.pc = "entry"
    BY <1>4 DEF CreateEntry
  <2>2. x.op = "enter"
    BY <1>1, <2>1, RunFacts, StepOps DEF Actor
  <2> QED BY <2>1, <2>2, SetFacts, IdleFacts
<1>5. CASE DeletePortfolio(a) \/ Enqueue(a) \/ Charge(a)
  <2>1. Set(a, Idle)
    BY <1>5 DEF DeletePortfolio, Enqueue, Charge
  <2> QED BY <2>1, SetFacts, IdleFacts
<1>6. CASE Trading(a)
  <2>1. PICK u \in Users, call \in Calls \ {"close"}, direction \in Directions,
             quantity \in Quantities, price \in Prices :
               StartTrade(a, u, call, direction, quantity, price)
    BY <1>6 DEF Trading
  <2> DEFINE x(q) == [Idle EXCEPT !.op = call, !.user = u, !.portfolio = q,
                              !.pc = IF call = "queue" THEN "enqueue" ELSE "open",
                              !.direction = direction, !.left = quantity,
                              !.price = IF call = "queue" THEN 0 ELSE price]
  <2>2. PICK q \in DOMAIN portfolios : Set(a, x(q))
    BY <2>1, Zenon DEF StartTrade
  <2>3. call \in {"queue", "destination"}
    BY ConstantsAssumption
  <2>4. x(q).op = call
    BY DEF Idle
  <2> HIDE DEF x
  <2> QED BY <2>2, <2>3, <2>4, SetFacts
<1>7. ASSUME NEW i \in DOMAIN positions, closePosition(a, i)
      PROVE  \E x : Set(a, x) /\ x.op = "close"
  <2> DEFINE x == [Idle EXCEPT !.op = "close", !.pc = "close",
                     !.portfolio = positions[i].portfolio,
                     !.left = positions[i].quantity, !.selected = Select({i})]
  <2>1. Set(a, x) /\ x.op = "close"
    BY <1>7 DEF closePosition, Idle
  <2> QED BY <2>1
<1> QED BY <1>2, <1>3, <1>4, <1>5, <1>6, <1>7, SetFacts DEF Request, Trading

LEMMA SettlementShape ==
  ASSUME TypeInv, NEW a \in Actors, Settlement(a)
  PROVE  /\ actor'[a].op \in {"idle", "settle", "mark"}
         /\ \A b \in Actors \ {a} : actor'[b] = actor[b]
<1> DEFINE p == actor[a]
<1>1. p \in Actor
  BY RunFacts
<1>2. ASSUME NEW price \in Prices, StartSettlement(a, price)
      PROVE  \E x : Set(a, x) /\ x.op = "settle"
  <2> DEFINE x == [Idle EXCEPT !.op = "settle", !.pc = "next", !.price = price,
                     !.todo = {t \in DOMAIN trades : trades[t].status = "queued"}]
  <2>1. Set(a, x) /\ x.op = "settle"
    BY <1>2 DEF StartSettlement, Idle
  <2> QED BY <2>1
<1>3. CASE NextTrade(a)
  <2>1. p.pc = "next"
    BY <1>3 DEF NextTrade
  <2>2. p.op = "settle"
    BY <2>1, RunFacts, StepOps
  <2>3. Set(a, [p EXCEPT !.op = "mark", !.pc = "positions"]) \/ \E t : Set(a, Taken(p, t))
    BY <1>3 DEF NextTrade
  <2>4. [p EXCEPT !.op = "mark", !.pc = "positions"].op = "mark"
    <3> HIDE DEF p
    <3> QED BY <1>1, Fields
  <2>5. \A t : Taken(p, t).op = "settle"
    BY <1>1, <2>2, OpsKept
  <2>6. \/ actor'[a] = [p EXCEPT !.op = "mark", !.pc = "positions"]
        \/ \E t : actor'[a] = Taken(p, t)
    BY <2>3, SetFacts
  <2>7. \A b \in Actors \ {a} : actor'[b] = actor[b]
    BY <2>3, SetFacts
  <2> QED BY <2>4, <2>5, <2>6, <2>7
<1>4. CASE SelectOpposite(a)
  <2>1. PICK s : Set(a, Continue([p EXCEPT !.selected = s]))
                 /\ s = Select({i \in OpenOf(p.portfolio) :
                                  positions[i].direction = Opposite(p.direction)})
    BY <1>4 DEF SelectOpposite
  <2>2. p.op = "settle"
    BY <1>4, RunFacts, StepOps DEF SelectOpposite
  <2> DEFINE y == [p EXCEPT !.selected = s]
  <2>3. y.op = "settle"
    BY <1>1, <2>2 DEF Actor
  <2>4. Continue(y).op \in {"settle", "idle"}
    <3>1. Continue(y) \in {Idle, [y EXCEPT !.pc = "executed", !.selected = {}],
                           [y EXCEPT !.pc = "open"], [y EXCEPT !.pc = "cancel"],
                           [y EXCEPT !.pc = "close"]}
      BY DEF Continue
    <3> QED BY <1>1, <2>2, <3>1, IdleFacts, ZenonT(40) DEF Actor
  <2>5. actor'[a] = Continue(y) /\ \A b \in Actors \ {a} : actor'[b] = actor[b]
    BY <2>1, SetFacts
  <2> QED BY <2>4, <2>5
<1>5. CASE MarkExecuted(a)
  <2>1. Set(a, TradeOver(p))
    BY <1>5 DEF MarkExecuted
  <2> QED BY <1>1, <2>1, OpsKept, SetFacts
<1>6. CASE SelectMarks(a)
  <2>1. p.pc = "positions"
    BY <1>6 DEF SelectMarks
  <2>2. p.op = "mark"
    BY <2>1, RunFacts, StepOps
  <2>3. PICK s, o, f : Set(a, Idle)
          \/ Set(a, [p EXCEPT !.pc = "mark", !.selected = s, !.todo = o, !.totals = f])
    BY <1>6, Zenon DEF SelectMarks
  <2>4. [p EXCEPT !.pc = "mark", !.selected = s, !.todo = o, !.totals = f].op = "mark"
    BY <1>1, <2>2 DEF Actor
  <2> QED BY <2>3, <2>4, IdleFacts, SetFacts
<1>7. ASSUME NEW r, MarkPosition(a, r)
      PROVE  \E x : Set(a, x) /\ x.op = "mark"
  <2>1. p.pc = "mark" /\ Set(a, NextMark(p, r))
    BY <1>7 DEF MarkPosition
  <2>2. p.op = "mark"
    BY <2>1, RunFacts, StepOps
  <2>3. NextMark(p, r).op = "mark"
    BY <1>1, <2>2, OpsKept
  <2> QED BY <2>1, <2>3
<1>8. ASSUME NEW q, WriteTotal(a, q)
      PROVE  \E x : Set(a, x) /\ x.op \in {"idle", "mark"}
  <2>1. p.pc = "total" /\ Set(a, NextTotal(p, q))
    BY <1>8 DEF WriteTotal
  <2>2. p.op = "mark"
    BY <2>1, RunFacts, StepOps
  <2> QED BY <1>1, <2>1, <2>2, OpsKept
<1> QED BY <1>2, <1>3, <1>4, <1>5, <1>6, <1>7, <1>8, SetFacts DEF Settlement

LEMMA FillingShape ==
  ASSUME TypeInv, NEW a \in Actors, Filling(a)
  PROVE  /\ actor'[a].op \in {"idle", actor[a].op}
         /\ \A b \in Actors \ {a} : actor'[b] = actor[b]
<1> DEFINE p == actor[a]
<1>1. p \in Actor
  BY RunFacts
<1>2. ASSUME NEW r, CloseRow(a, r)
      PROVE  Set(a, Booking(p, r))
  BY <1>2, Zenon DEF CloseRow
<1>3. CASE Credit(a)
  <2>1. Set(a, Continue(NextRow(p)))
    BY <1>3, Zenon DEF Credit
  <2>2. Continue(NextRow(p)).op \in {"idle", p.op}
    BY <1>1, OpsKept
  <2> QED BY <2>1, <2>2, SetFacts, ZenonT(40)
<1>4. CASE OpenPosition(a)
  <2> DEFINE x == [p EXCEPT !.pc = "executed", !.left = 0]
             y == [p EXCEPT !.pc = "charge"]
  <2>1. Set(a, x) \/ Set(a, y) \/ Set(a, Idle)
    BY <1>4 DEF OpenPosition
  <2>2. x.op = p.op /\ y.op = p.op
    BY <1>1 DEF Actor
  <2> QED BY <2>1, <2>2, IdleFacts, SetFacts
<1> QED BY <1>1, <1>2, <1>3, <1>4, OpsKept, SetFacts DEF Filling

LEMMA FailingShape ==
  ASSUME TypeInv, NEW a \in Actors, Failing(a)
  PROVE  /\ actor'[a].op \in {"idle", actor[a].op}
         /\ \A b \in Actors \ {a} : actor'[b] = actor[b]
<1> DEFINE p == actor[a]
<1>1. p \in Actor
  BY RunFacts
<1>2. CASE StatementThrows(a)
  <2>1. Set(a, IF p.op = "settle" THEN TradeOver(p) ELSE Idle)
    BY <1>2 DEF StatementThrows
  <2> QED BY <1>1, <2>1, OpsKept, IdleFacts, SetFacts
<1>3. CASE StatementIgnored(a)
  <2> DEFINE c == [p EXCEPT !.pc = "channel"]
             e == [p EXCEPT !.pc = "entries"]
             b == [p EXCEPT !.pc = "board"]
             h == [p EXCEPT !.pc = "archive"]
  <2>1. Set(a, Ignored(p))
        /\ p.pc \in {"cleanup", "charge", "executed", "activate", "attach", "cancel",
                     "completed", "archive", "credit"}
    BY <1>3 DEF StatementIgnored
  <2>2. CASE p.pc = "executed"
    <3>1. p.op = "settle"
      BY <1>1, <2>2, RunFacts, StepOps
    <3>2. Ignored(p) = TradeOver(p)
      BY <2>2 DEF Ignored
    <3> QED BY <1>1, <2>1, <3>1, <3>2, OpsKept, SetFacts
  <2>3. CASE p.pc # "executed"
    <3>1. Ignored(p) \in {Idle, Continue(NextRow(p)), c, e, b, h}
      BY <2>1, <2>3 DEF Ignored
    <3>2. c.op = p.op /\ e.op = p.op /\ b.op = p.op /\ h.op = p.op
      BY <1>1 DEF Actor
    <3>3. Continue(NextRow(p)).op \in {"idle", p.op}
      BY <1>1, OpsKept
    <3>4. Ignored(p).op \in {"idle", p.op}
      <4> HIDE DEF c, e, b, h
      <4> QED BY <3>1, <3>2, <3>3, IdleFacts
    <3> QED BY <2>1, <3>4, SetFacts
  <2> QED BY <2>2, <2>3
<1>4. ASSUME NEW r, RowIgnored(a, r)
      PROVE  \E x : Set(a, x) /\ x.op = p.op
  <2>1. Set(a, NextMark(p, r)) \/ Set(a, Booking(p, r))
    BY <1>4 DEF RowIgnored
  <2> QED BY <1>1, <2>1, OpsKept
<1>5. ASSUME NEW q, TotalIgnored(a, q)
      PROVE  \E x : Set(a, x) /\ x.op \in {"idle", p.op}
  <2>1. Set(a, NextTotal(p, q))
    BY <1>5 DEF TotalIgnored
  <2> QED BY <1>1, <2>1, OpsKept
<1>6. ASSUME NEW u, RankIgnored(a, u)
      PROVE  \E x : Set(a, x) /\ x.op = p.op
  <2>1. Set(a, NextRank(p, p.todo \ {u}))
    BY <1>6 DEF RankIgnored
  <2> QED BY <1>1, <2>1, OpsKept
<1> QED BY <1>2, <1>3, <1>4, <1>5, <1>6, SetFacts DEF Failing

(* The steps of a lifecycle run, with what it holds afterwards. *)
LEMMA LifecycleShape ==
  ASSUME TypeInv, NEW a \in Actors, Lifecycle(a)
  PROVE  /\ actor'[a].op \in {"idle", "activate", "complete"}
         /\ \A b \in Actors \ {a} : actor'[b] = actor[b]
<1> DEFINE p == actor[a]
<1>1. p \in Actor
  BY RunFacts
<1>2. CASE StartActivation(a) \/ StartCompletion(a)
  <2> DEFINE x == [Idle EXCEPT !.op = "activate", !.pc = "activate"]
             y == [Idle EXCEPT !.op = "complete", !.pc = "select", !.channel = channel]
  <2>1. Set(a, x) \/ Set(a, y)
    BY <1>2 DEF StartActivation, StartCompletion
  <2>2. x.op = "activate" /\ y.op = "complete"
    BY DEF Idle
  <2> HIDE DEF x, y
  <2> QED BY <2>1, <2>2, SetFacts
<1>3. CASE Activate(a) \/ CreateChannel(a) \/ AttachChannel(a)
  <2> DEFINE x == [p EXCEPT !.pc = "channel"]
             y == [p EXCEPT !.pc = "attach", !.channel = Len(channels) + 1]
             z == [p EXCEPT !.pc = "entries"]
  <2>1. Set(a, x) \/ Set(a, y) \/ Set(a, z)
    BY <1>3 DEF Activate, CreateChannel, AttachChannel
  <2>2. x.op = p.op /\ y.op = p.op /\ z.op = p.op
    BY <1>1 DEF Actor
  <2>3. p.pc \in {"activate", "channel", "attach"}
    BY <1>3 DEF Activate, CreateChannel, AttachChannel
  <2>4. p.op = "activate"
    BY <1>1, <2>3, RunFacts, StepOps
  <2> HIDE DEF x, y, z
  <2> QED BY <2>1, <2>2, <2>4, SetFacts
<1>4. CASE ReadEntries(a) \/ \E u \in p.todo : AddMember(a, u)
  <2>1. \E users : Set(a, NextMember(p, users))
    BY <1>4 DEF ReadEntries, AddMember
  <2>2. p.pc \in {"entries", "members"}
    BY <1>4 DEF ReadEntries, AddMember
  <2>3. p.op = "activate"
    BY <1>1, <2>2, RunFacts, StepOps
  <2> QED BY <1>1, <2>1, <2>3, OpsKept, SetFacts
<1>5. CASE SelectOpen(a)
  <2> DEFINE y == [p EXCEPT !.selected = Select(OpenPositions)]
  <2>1. Set(a, Continue(y)) /\ p.pc = "select"
    BY <1>5 DEF SelectOpen
  <2>2. p.op = "complete"
    BY <1>1, <2>1, RunFacts, StepOps
  <2>3. y.op = "complete"
    BY <1>1, <2>2 DEF Actor
  <2>4. Continue(y) \in {[y EXCEPT !.pc = "cancel"], [y EXCEPT !.pc = "close"]}
    BY <2>3 DEF Continue
  <2>5. Continue(y).op = "complete"
    BY <1>1, <2>2, <2>4 DEF Actor
  <2> QED BY <2>1, <2>5, SetFacts
<1>6. CASE CancelQueued(a) \/ SetCompleted(a) \/ ArchiveChannel(a)
  <2> DEFINE x == [p EXCEPT !.pc = "board"]
             y == [p EXCEPT !.pc = "archive"]
  <2>1. Set(a, x) \/ Set(a, y) \/ Set(a, Idle)
    BY <1>6 DEF CancelQueued, SetCompleted, ArchiveChannel
  <2>2. x.op = p.op /\ y.op = p.op
    BY <1>1 DEF Actor
  <2>3. p.pc \in {"cancel", "completed", "archive"}
    BY <1>6 DEF CancelQueued, SetCompleted, ArchiveChannel
  <2>4. p.op = "complete"
    BY <1>1, <2>3, RunFacts, StepOps
  <2> HIDE DEF x, y
  <2> QED BY <2>1, <2>2, <2>4, IdleFacts, SetFacts
<1>7. CASE ReadBoard(a)
  <2> DEFINE f == [u \in Users |-> IF u \in Entered THEN Place(u) ELSE 0]
             y == [p EXCEPT !.places = f]
  <2>1. Set(a, NextRank(y, Entered)) /\ p.pc = "board"
    BY <1>7 DEF ReadBoard
  <2>2. p.op = "complete"
    BY <1>1, <2>1, RunFacts, StepOps
  <2> HIDE DEF f
  <2>3. NextRank(y, Entered).op = "complete"
    BY <1>1, <2>2 DEF NextRank, Actor
  <2> QED BY <2>1, <2>3, SetFacts
<1>8. CASE \E u \in p.todo : WriteRank(a, u)
  <2>1. \E users : Set(a, NextRank(p, users))
    BY <1>8 DEF WriteRank
  <2>2. p.pc = "rank"
    BY <1>8 DEF WriteRank
  <2>3. p.op = "complete"
    BY <1>1, <2>2, RunFacts, StepOps
  <2> QED BY <1>1, <2>1, <2>3, OpsKept, SetFacts
<1> QED BY <1>2, <1>3, <1>4, <1>5, <1>6, <1>7, <1>8 DEF Lifecycle

LEMMA RolesStep ==
  ASSUME TypeInv, Roles, [Next]_vars
  PROVE  Roles'
<1>1. ASSUME NEW a \in Actors, actor'[a].op \in RoleOps(a),
             \A b \in Actors \ {a} : actor'[b] = actor[b]
      PROVE  Roles'
  BY <1>1 DEF Roles
<1>2. \A a \in Actors : actor[a].op \in RoleOps(a) /\ "idle" \in RoleOps(a)
  BY DEF Roles, RoleOps
<1>3. CASE \E a \in Requests : Request(a)
  <2>1. PICK a \in Requests : Request(a)
    BY <1>3
  <2>2. a \in Actors
    BY DEF Actors
  <2>3. actor'[a].op \in RoleOps(a)
    BY <2>1, <2>2, RequestShape DEF RoleOps
  <2> QED BY <1>1, <2>1, <2>2, <2>3, RequestShape
<1>4. CASE \E a \in Settlements : Settlement(a)
  <2>1. PICK a \in Settlements : Settlement(a)
    BY <1>4
  <2>2. a \in Actors /\ a \notin Requests
    BY ConstantsAssumption DEF Actors
  <2>3. actor'[a].op \in RoleOps(a)
    BY <2>1, <2>2, SettlementShape DEF RoleOps
  <2> QED BY <1>1, <2>1, <2>2, <2>3, SettlementShape
<1>5. CASE \E a \in Crons : Lifecycle(a)
  <2>1. PICK a \in Crons : Lifecycle(a)
    BY <1>5
  <2>2. a \in Actors /\ a \notin Requests /\ a \notin Settlements
    BY ConstantsAssumption DEF Actors
  <2>3. actor'[a].op \in RoleOps(a)
    BY <2>1, <2>2, LifecycleShape DEF RoleOps
  <2> QED BY <1>1, <2>1, <2>2, <2>3, LifecycleShape
<1>6. CASE \E a \in Actors : Filling(a) \/ Failing(a)
  BY <1>1, <1>2, <1>6, FillingShape, FailingShape
<1>7. CASE Crash
  <2>1. actor' = [a \in Actors |-> Idle]
    BY <1>7, Zenon DEF Crash
  <2> QED BY <2>1, IdleFacts DEF Roles, RoleOps
<1>8. CASE archiveTournament \/ Tick \/ UNCHANGED vars
  <2>1. actor' = actor
    BY <1>8 DEF archiveTournament, Tick, vars
  <2> QED BY <2>1 DEF Roles
<1> QED BY <1>3, <1>4, <1>5, <1>6, <1>7, <1>8 DEF Next

LEMMA RolesHold == Spec => [](TypeInv /\ Roles)
<1>1. Init => TypeInv /\ Roles
  BY InitTypes, IdleFacts DEF Init, Roles, RoleOps
<1>2. TypeInv /\ Roles /\ [Next]_vars => TypeInv' /\ Roles'
  BY TypeStep, RolesStep
<1> QED BY <1>1, <1>2, PTL DEF Spec

-----------------------------------------------------------------------------
(* The channel: one lifecycle run at a time *)

OneCron == \A a, b \in Crons : a = b

LEMMA SameEntry ==
  ASSUME TypeInv, [Next]_vars, \A a \in Actors : ~CreateEntry(a)
  PROVE  entry' = entry
<1>1. ASSUME NEW a \in Actors, Request(a)
      PROVE  entry' = entry
  BY <1>1, Zenon DEF Request, enterTournament, CreatePortfolio, DeletePortfolio, StartTrade, Enqueue,
              Charge, closePosition, rows
<1>2. ASSUME NEW a \in Actors, Settlement(a) \/ Filling(a)
      PROVE  entry' = entry
  BY <1>2, Zenon DEF Settlement, StartSettlement, NextTrade, SelectOpposite, MarkExecuted, SelectMarks,
              MarkPosition, WriteTotal, Filling, CloseRow, Credit, OpenPosition, rows
<1>3. ASSUME NEW a \in Actors, Lifecycle(a)
      PROVE  entry' = entry
  BY <1>3 DEF Lifecycle, StartActivation, Activate, CreateChannel, AttachChannel, ReadEntries,
              AddMember, StartCompletion, SelectOpen, CancelQueued, ReadBoard, WriteRank,
              SetCompleted, ArchiveChannel, rows
<1>4. ASSUME NEW a \in Actors, Failing(a)
      PROVE  entry' = entry
  BY <1>4, FailedBooks DEF rows
<1>5. CASE Crash \/ archiveTournament \/ Tick \/ UNCHANGED vars
  BY <1>5, Zenon DEF Crash, archiveTournament, Tick, vars, rows
<1> QED BY <1>1, <1>2, <1>3, <1>4, <1>5 DEF Next, Actors

LEMMA EntriesKept ==
  ASSUME TypeInv, [Next]_vars
  PROVE  KeptEntries
<1>1. ASSUME NEW a \in Actors, CreateEntry(a)
      PROVE  KeptEntries
  <2>1. entry' = entry \/ (entry[actor[a].user] = 0 /\
          entry' = [entry EXCEPT ![actor[a].user] = actor[a].portfolio])
    BY <1>1 DEF CreateEntry
  <2> QED BY <2>1 DEF KeptEntries, TypeInv, Tables
<1> QED BY <1>1, SameEntry, SameEntries

(* Requests and settlements leave the tournament's row and its channel alone. *)
LEMMA OthersRow ==
  ASSUME TypeInv, NEW a \in Actors, Request(a) \/ Settlement(a) \/ Filling(a)
  PROVE  /\ UNCHANGED <<status, channel, channels, clock, early>>
         /\ spent.failures' = spent.failures
<1>1. CASE Request(a)
  <2>1. UNCHANGED <<row, clock, early>> /\ (Start \/ UNCHANGED spent)
    BY <1>1, ZenonT(40) DEF Request, enterTournament, CreatePortfolio, CreateEntry, DeletePortfolio,
                StartTrade, Enqueue, Charge, closePosition, MayStart
  <2> QED BY <2>1 DEF Start, row, TypeInv, Tables
<1>2. CASE Settlement(a) \/ Filling(a)
  <2>1. UNCHANGED <<row, clock, early>> /\ (Start \/ UNCHANGED spent)
    BY <1>2, Zenon DEF Settlement, StartSettlement, NextTrade, SelectOpposite, MarkExecuted,
                SelectMarks, MarkPosition, WriteTotal, Filling, CloseRow, Credit,
                OpenPosition, MayStart
  <2> QED BY <2>1 DEF Start, row, TypeInv, Tables
<1> QED BY <1>1, <1>2

LEMMA LifecycleSpends ==
  ASSUME NEW a \in Actors, Lifecycle(a)
  PROVE  spent' = spent
BY DEF Lifecycle, StartActivation, Activate, CreateChannel, AttachChannel, ReadEntries,
       AddMember, StartCompletion, SelectOpen, CancelQueued, ReadBoard, WriteRank,
       SetCompleted, ArchiveChannel

LEMMA FailureCounts ==
  ASSUME TypeInv, Failure
  PROVE  spent.failures' # 0
BY DEF Failure, TypeInv, Tables

(* A finalization on its way to the ranks. *)
Finishing(p) == p.op = "complete" /\ p.pc \notin {"completed", "archive"}

FinalStep(a) ==
  \/ SelectOpen(a) \/ CancelQueued(a) \/ ReadBoard(a)
  \/ \E u \in actor[a].todo : WriteRank(a, u)
  \/ \E r \in actor[a].selected : CloseRow(a, r)
  \/ Credit(a)

LEMMA FinishingShape ==
  ASSUME TypeInv, NEW a \in Actors, FinalStep(a), actor[a].op = "complete"
  PROVE  /\ UNCHANGED <<status, channel, channels, early, entry, spent>>
         /\ Finishing(actor[a])
         /\ actor'[a].op = "complete" /\ actor'[a].channel = actor[a].channel
         /\ actor'[a].pc \notin {"activate", "entries", "members", "archive"}
         /\ \A b \in Actors \ {a} : actor'[b] = actor[b]
<1> DEFINE p == actor[a]
           Good(x) == /\ x.op = "complete" /\ x.channel = p.channel
                      /\ x.pc \notin {"activate", "entries", "members", "archive"}
<1>1. p \in Actor /\ p.op = "complete"
  BY RunFacts
<1>2. UNCHANGED <<status, channel, channels, early, entry, spent>>
  BY Zenon DEF FinalStep, SelectOpen, CancelQueued, ReadBoard, WriteRank, CloseRow, Credit, row, rows
<1>3. p.pc \in {"select", "cancel", "board", "rank", "close", "credit"}
  BY Zenon DEF FinalStep, SelectOpen, CancelQueued, ReadBoard, WriteRank, CloseRow, Credit
<1>5. \A y : y.op = "complete" =>
         Continue(y) \in {[y EXCEPT !.pc = "cancel"], [y EXCEPT !.pc = "close"]}
  BY DEF Continue
<1>6. CASE SelectOpen(a)
  <2> DEFINE s == Select(OpenPositions)
             y == [p EXCEPT !.selected = s]
  <2>1. Set(a, Continue(y))
    BY <1>6 DEF SelectOpen
  <2> HIDE DEF s
  <2>2. y.op = "complete"
    BY <1>1 DEF Actor
  <2>3. Continue(y) \in {[y EXCEPT !.pc = "cancel"], [y EXCEPT !.pc = "close"]}
    BY <1>5, <2>2
  <2>4. Good(Continue(y))
    BY <1>1, <2>3 DEF Actor
  <2> QED BY <1>2, <1>3, <1>1, <2>1, <2>4, SetFacts DEF Finishing
<1>7. CASE CancelQueued(a)
  <2> DEFINE y == [p EXCEPT !.pc = "board"]
  <2>1. Set(a, y)
    BY <1>7 DEF CancelQueued
  <2>2. Good(y)
    BY <1>1 DEF Actor
  <2> QED BY <1>2, <1>3, <1>1, <2>1, <2>2, SetFacts DEF Finishing
<1>8. CASE ReadBoard(a)
  <2> DEFINE f == [u \in Users |-> IF u \in Entered THEN Place(u) ELSE 0]
             y == [p EXCEPT !.places = f]
  <2>1. Set(a, NextRank(y, Entered))
    BY <1>8 DEF ReadBoard
  <2> HIDE DEF f
  <2>2. Good(NextRank(y, Entered))
    BY <1>1 DEF Actor, NextRank
  <2> QED BY <1>2, <1>3, <1>1, <2>1, <2>2, SetFacts DEF Finishing
<1>9. CASE \E u \in p.todo : WriteRank(a, u)
  <2>1. PICK users : Set(a, NextRank(p, users))
    BY <1>9 DEF WriteRank
  <2>2. Good(NextRank(p, users))
    BY <1>1 DEF Actor, NextRank
  <2> QED BY <1>2, <1>3, <1>1, <2>1, <2>2, SetFacts DEF Finishing
<1>10. CASE \E r \in p.selected : CloseRow(a, r)
  <2>1. PICK r : Set(a, Booking(p, r))
    BY <1>10, Zenon DEF CloseRow
  <2>2. Good(Booking(p, r))
    BY <1>1 DEF Actor, Booking
  <2> QED BY <1>2, <1>3, <1>1, <2>1, <2>2, SetFacts DEF Finishing
<1>11. CASE Credit(a)
  <2> DEFINE y == NextRow(p)
  <2>1. Set(a, Continue(y))
    BY <1>11, Zenon DEF Credit
  <2>2. y \in Actor /\ y.op = "complete" /\ y.channel = p.channel
    <3>1. y.channel = p.channel
      BY <1>1 DEF NextRow, Actor
    <3> QED BY <1>1, <3>1, OpsKept
  <2> HIDE DEF y
  <2>3. Continue(y) \in {[y EXCEPT !.pc = "cancel"], [y EXCEPT !.pc = "close"]}
    BY <1>5, <2>2
  <2>4. Good(Continue(y))
    BY <1>1, <2>2, <2>3 DEF Actor
  <2> QED BY <1>2, <1>3, <1>1, <2>1, <2>4, SetFacts, Zenon DEF Finishing
<1> QED BY <1>6, <1>7, <1>8, <1>9, <1>10, <1>11 DEF FinalStep

(* What a run that starts the tournament, or completes it, knows. *)
ChannelHeld(p) ==
  /\ p.pc = "activate" => status = "upcoming"
  /\ p.op = "activate" /\ p.pc # "activate" => status = "active"
  /\ p.pc \in {"entries", "members"} => channel = p.channel
  /\ p.pc = "members" => early \subseteq channels[channel].members \cup p.todo
  /\ p.op = "complete" => p.channel = channel /\ (p.pc = "archive" \/ status = "active")

ChannelRoom ==
  /\ early \subseteq Entered
  /\ status # "upcoming" /\ (\A c \in Crons : actor[c].op # "activate") =>
       channel # 0 /\ early \subseteq channels[channel].members
  /\ status \in {"completed", "archived"} /\ (\A c \in Crons : actor[c].pc # "archive") =>
       channels[channel].archived

ChannelInv == spent.failures = 0 =>
  (\A c \in Crons : ChannelHeld(actor[c])) /\ ChannelRoom

(* Nothing the invariant is about changes. *)
LEMMA ChannelStays ==
  ASSUME ChannelInv, UNCHANGED <<status, channel, channels, early>>,
         spent.failures' = 0 => spent.failures = 0, KeptEntries, early \subseteq Users,
         \A c \in Crons :
           \/ actor'[c] = actor[c]
           \/ /\ actor[c].op = "complete" /\ actor[c].pc # "archive"
              /\ actor'[c].op = "complete" /\ actor'[c].pc # "archive"
              /\ actor'[c].channel = actor[c].channel
              /\ actor'[c].pc \notin {"activate", "entries", "members"}
  PROVE  ChannelInv'
<1> SUFFICES ASSUME spent.failures' = 0
             PROVE  (\A c \in Crons : ChannelHeld(actor[c]))' /\ ChannelRoom'
  BY DEF ChannelInv
<1>1. (\A c \in Crons : ChannelHeld(actor[c])) /\ ChannelRoom
  BY DEF ChannelInv
<1>2. \A c \in Crons : ChannelHeld(actor[c])'
  BY <1>1 DEF ChannelHeld
<1>3. \A c \in Crons : /\ actor'[c].op = "activate" => actor[c].op = "activate"
                       /\ actor[c].op = "activate" => actor'[c].op = "activate"
                       /\ actor[c].pc = "archive" => actor'[c].pc = "archive"
  OBVIOUS
<1>4. early \subseteq Entered'
  BY <1>1 DEF ChannelRoom, KeptEntries, Entered
<1> QED BY <1>1, <1>2, <1>3, <1>4 DEF ChannelRoom

(* The actor's op tells at which statements it may be. *)
LEMMA OpSteps ==
  ASSUME TypeInv, NEW a \in Actors
  PROVE  /\ actor[a].op = "complete" => actor[a].pc \notin {"activate", "entries", "members"}
         /\ actor[a].pc \in {"activate", "entries", "members"} => actor[a].op = "activate"
         /\ actor[a].pc = "archive" => actor[a].op = "complete"
         /\ actor[a].op = "idle" => actor[a] = Idle
         /\ actor[a].pc \in {"attach", "entries", "members", "archive"} =>
              actor[a].channel \in DOMAIN channels
<1>1. /\ actor[a] \in Actor /\ actor[a].pc \in StepsOf(actor[a].op)
      /\ actor[a].op = "idle" => actor[a] = Idle
      /\ actor[a].pc \in {"attach", "entries", "members", "archive"} =>
           actor[a].channel \in DOMAIN channels
  BY RunFacts DEF Legal, AtStep
<1>2. /\ actor[a].pc \in {"activate", "entries", "members"} => actor[a].op = "activate"
      /\ actor[a].pc = "archive" => actor[a].op = "complete"
  BY RunFacts, StepOps
<1> QED BY <1>1, <1>2

LEMMA OthersChannel ==
  ASSUME TypeInv, Roles, ChannelInv, NEW a \in Actors,
         \/ a \in Requests /\ Request(a)
         \/ a \in Settlements /\ Settlement(a)
         \/ Filling(a)
         \/ FinalStep(a),
         [Next]_vars, TypeInv'
  PROVE  ChannelInv'
<1>1. early \subseteq Users /\ KeptEntries
  BY EntriesKept DEF TypeInv, Tables
<1>2. CASE actor[a].op = "complete" /\ FinalStep(a)
  <2> QED BY <1>1, <1>2, FinishingShape, ChannelStays DEF Finishing, Actors
<1>3. CASE a \notin Crons /\ (Request(a) \/ Settlement(a) \/ Filling(a))
  <2>1. UNCHANGED <<status, channel, channels, early>> /\ spent.failures' = spent.failures
    BY <1>3, OthersRow
  <2>2. \A c \in Crons : actor'[c] = actor[c]
    BY <1>3, RequestShape, SettlementShape, FillingShape DEF Actors
  <2> QED BY <1>1, <2>1, <2>2, ChannelStays
<1>4. CASE a \in Crons /\ Filling(a)
  <2>1. actor[a].pc \in {"close", "credit", "open"}
    BY <1>4, Zenon DEF Filling, CloseRow, Credit, OpenPosition
  <2>2. actor[a].op \in {"idle", "activate", "complete"}
    BY <1>4, ConstantsAssumption DEF Roles, RoleOps
  <2>3. actor[a].op \notin {"idle", "activate"} /\ actor[a].pc # "open"
    BY <2>1, <2>2, RunFacts, StepOps
  <2>4. actor[a].op = "complete" /\ FinalStep(a)
    BY <1>4, <2>2, <2>3 DEF Filling, OpenPosition, FinalStep
  <2> QED BY <1>2, <2>4
<1>5. CASE FinalStep(a) /\ ~Filling(a)
  <2>1. actor[a].pc \in {"select", "cancel", "board", "rank"}
    BY <1>5 DEF FinalStep, Filling, SelectOpen, CancelQueued, ReadBoard, WriteRank
  <2>2. actor[a].op = "complete"
    BY <2>1, RunFacts, StepOps
  <2> QED BY <1>2, <1>5, <2>2
<1> QED BY <1>3, <1>4, <1>5, ConstantsAssumption

(* The steps of the one run that write the row, or the channel. *)
LEMMA StartingChannel ==
  ASSUME TypeInv, TypeInv', Roles, ChannelInv, OneCron, NEW a \in Crons, KeptEntries,
         \/ StartActivation(a) \/ Activate(a) \/ CreateChannel(a) \/ AttachChannel(a)
         \/ ReadEntries(a) \/ \E u \in actor[a].todo : AddMember(a, u)
  PROVE  ChannelInv'
<1> DEFINE p == actor[a]
<1> SUFFICES ASSUME spent.failures' = 0
             PROVE  (\A c \in Crons : ChannelHeld(actor[c]))' /\ ChannelRoom'
  BY DEF ChannelInv
<1>1. /\ a \in Actors /\ p \in Actor /\ (\A c \in Crons : c = a)
      /\ channels \in Seq(Room) /\ early \subseteq Users
  BY RunFacts DEF OneCron, Actors, TypeInv, Tables
<1>2. spent' = spent
  BY <1>1, LifecycleSpends DEF Lifecycle
<1>3. ChannelHeld(p) /\ ChannelRoom
  BY <1>2 DEF ChannelInv
<1>4. Entered \subseteq Entered'
  BY DEF KeptEntries, Entered
<1>5. CASE StartActivation(a)
  <2> DEFINE x == [Idle EXCEPT !.op = "activate", !.pc = "activate"]
  <2>1. /\ Set(a, x) /\ status = "upcoming"
        /\ UNCHANGED <<status, channel, channels, early>>
    BY <1>5 DEF StartActivation, row
  <2>2. x.op = "activate" /\ x.pc = "activate"
    BY DEF Idle
  <2>3. actor'[a] = x
    BY <1>1, <2>1, SetFacts
  <2> HIDE DEF x
  <2> QED BY <1>1, <1>3, <1>4, <2>1, <2>2, <2>3 DEF ChannelHeld, ChannelRoom
<1>6. CASE Activate(a)
  <2> DEFINE x == [p EXCEPT !.pc = "channel"]
  <2>1. /\ Set(a, x) /\ p.pc = "activate" /\ status' = "active" /\ early' = Entered
        /\ UNCHANGED <<channel, channels, rows>>
    BY <1>3, <1>6 DEF Activate, ChannelHeld
  <2>2. p.op = "activate"
    BY <1>1, <2>1, OpSteps
  <2>3. x.op = "activate" /\ x.pc = "channel"
    BY <1>1, <2>2 DEF Actor
  <2>4. actor'[a] = x
    BY <1>1, <2>1, SetFacts
  <2> HIDE DEF x
  <2> QED BY <1>1, <1>3, <1>4, <2>1, <2>3, <2>4 DEF ChannelHeld, ChannelRoom
<1>7. CASE CreateChannel(a)
  <2> DEFINE x == [p EXCEPT !.pc = "attach", !.channel = Len(channels) + 1]
  <2>1. /\ Set(a, x) /\ p.pc = "channel"
        /\ UNCHANGED <<status, channel, early>>
    BY <1>7 DEF CreateChannel
  <2>2. p.op = "activate"
    BY <1>1, <2>1, RunFacts, StepOps
  <2>3. x.op = "activate" /\ x.pc = "attach"
    BY <1>1, <2>2 DEF Actor
  <2>4. actor'[a] = x
    BY <1>1, <2>1, SetFacts
  <2> HIDE DEF x
  <2> QED BY <1>1, <1>3, <1>4, <2>1, <2>2, <2>3, <2>4 DEF ChannelHeld, ChannelRoom
<1>8. CASE AttachChannel(a)
  <2> DEFINE x == [p EXCEPT !.pc = "entries"]
  <2>1. /\ Set(a, x) /\ p.pc = "attach" /\ channel' = p.channel
        /\ UNCHANGED <<status, channels, early>>
    BY <1>8 DEF AttachChannel
  <2>2. p.op = "activate"
    BY <1>1, <2>1, RunFacts, StepOps
  <2>3. x.op = "activate" /\ x.pc = "entries" /\ x.channel = p.channel
    BY <1>1, <2>2 DEF Actor
  <2>4. actor'[a] = x
    BY <1>1, <2>1, SetFacts
  <2> HIDE DEF x
  <2> QED BY <1>1, <1>3, <1>4, <2>1, <2>2, <2>3, <2>4 DEF ChannelHeld, ChannelRoom
<1>9. CASE ReadEntries(a)
  <2> DEFINE x == NextMember(p, Entered)
  <2>1. /\ Set(a, x) /\ p.pc = "entries"
        /\ UNCHANGED <<status, channel, channels, early>>
    BY <1>9 DEF ReadEntries, row
  <2>2. p.op = "activate" /\ p.channel \in DOMAIN channels
    BY <1>1, <2>1, OpSteps
  <2>3. \/ x = Idle /\ Entered = {}
        \/ /\ x.op = "activate" /\ x.pc = "members" /\ x.channel = p.channel
           /\ x.todo = Entered
    BY <1>1, <2>2 DEF Actor, NextMember
  <2>4. actor'[a] = x
    BY <1>1, <2>1, SetFacts
  <2>5. channel # 0 /\ status = "active" /\ channel = p.channel /\ early \subseteq Entered
    BY <1>1, <1>3, <2>1, <2>2, DomainFacts DEF ChannelHeld, ChannelRoom
  <2> HIDE DEF x
  <2> QED BY <1>1, <1>4, <2>1, <2>2, <2>3, <2>4, <2>5, IdleFacts DEF ChannelHeld, ChannelRoom
<1>10. CASE \E u \in p.todo : AddMember(a, u)
  <2>1. PICK u \in p.todo : AddMember(a, u)
    BY <1>10
  <2> DEFINE x == NextMember(p, p.todo \ {u})
  <2>2. /\ Set(a, x) /\ p.pc = "members"
        /\ channels' = [channels EXCEPT ![p.channel].members = @ \cup {u}]
        /\ UNCHANGED <<status, channel, early>>
    BY <2>1 DEF AddMember
  <2>3. p.op = "activate" /\ p.channel \in DOMAIN channels
    BY <1>1, <2>2, OpSteps
  <2>4. \/ x = Idle /\ p.todo \ {u} = {}
        \/ /\ x.op = "activate" /\ x.pc = "members" /\ x.channel = p.channel
           /\ x.todo = p.todo \ {u}
    BY <1>1, <2>2, <2>3 DEF Actor, NextMember
  <2>5. actor'[a] = x
    BY <1>1, <2>2, SetFacts
  <2>6. /\ channel # 0 /\ status = "active" /\ channel = p.channel /\ early \subseteq Entered
        /\ early \subseteq channels[channel].members \cup p.todo
    BY <1>1, <1>3, <2>2, <2>3, DomainFacts DEF ChannelHeld, ChannelRoom
  <2>7. channels'[channel].members = channels[channel].members \cup {u}
    <3>1. channels[channel] \in Room /\ channel \in DOMAIN channels
      BY <1>1, <2>3, <2>6, DomainFacts
    <3>2. channels'[channel] = [channels[channel] EXCEPT !.members = @ \cup {u}]
      BY <2>2, <2>6, <3>1
    <3> QED BY <3>1, <3>2 DEF Room
  <2>8. early \subseteq channels'[channel].members \cup (p.todo \ {u})
    BY <2>6, <2>7
  <2> HIDE DEF x
  <2> QED BY <1>1, <1>4, <2>2, <2>4, <2>5, <2>6, <2>8, IdleFacts DEF ChannelHeld, ChannelRoom
<1> QED BY <1>5, <1>6, <1>7, <1>8, <1>9, <1>10

LEMMA CompletingChannel ==
  ASSUME TypeInv, TypeInv', Roles, ChannelInv, OneCron, NEW a \in Crons, KeptEntries,
         StartCompletion(a) \/ SetCompleted(a) \/ ArchiveChannel(a)
  PROVE  ChannelInv'
<1> DEFINE p == actor[a]
<1> SUFFICES ASSUME spent.failures' = 0
             PROVE  (\A c \in Crons : ChannelHeld(actor[c]))' /\ ChannelRoom'
  BY DEF ChannelInv
<1>1. /\ a \in Actors /\ p \in Actor /\ (\A c \in Crons : c = a)
      /\ channels \in Seq(Room) /\ early \subseteq Users
  BY RunFacts DEF OneCron, Actors, TypeInv, Tables
<1>2. spent' = spent
  BY <1>1, LifecycleSpends DEF Lifecycle
<1>3. ChannelHeld(p) /\ ChannelRoom
  BY <1>2 DEF ChannelInv
<1>4. Entered \subseteq Entered'
  BY DEF KeptEntries, Entered
<1>5. CASE StartCompletion(a)
  <2> DEFINE x == [Idle EXCEPT !.op = "complete", !.pc = "select", !.channel = channel]
  <2>1. /\ Set(a, x) /\ status = "active" /\ p = Idle
        /\ UNCHANGED <<status, channel, channels, early>>
    BY <1>5 DEF StartCompletion, row
  <2>2. x.op = "complete" /\ x.pc = "select" /\ x.channel = channel
    BY DEF Idle
  <2>3. actor'[a] = x
    BY <1>1, <2>1, SetFacts
  <2>4. p.op # "activate" /\ p.pc # "archive"
    BY <2>1, IdleFacts
  <2> HIDE DEF x
  <2> QED BY <1>1, <1>3, <1>4, <2>1, <2>2, <2>3, <2>4 DEF ChannelHeld, ChannelRoom
<1>6. CASE SetCompleted(a)
  <2> DEFINE x == [p EXCEPT !.pc = "archive"]
  <2>1. /\ Set(a, IF p.channel = 0 THEN Idle ELSE x) /\ p.pc = "completed"
        /\ status' = "completed"
        /\ UNCHANGED <<channel, channels, early>>
    BY <1>6 DEF SetCompleted
  <2>2. p.op = "complete"
    BY <1>1, <2>1, RunFacts, StepOps
  <2>3. x.op = "complete" /\ x.pc = "archive" /\ x.channel = p.channel
    BY <1>1, <2>2 DEF Actor
  <2>4. /\ status = "active" /\ p.channel = channel /\ channel # 0
        /\ early \subseteq channels[channel].members
    BY <1>1, <1>3, <2>1, <2>2 DEF ChannelHeld, ChannelRoom
  <2>5. actor'[a] = x
    BY <1>1, <2>1, <2>4, SetFacts
  <2> HIDE DEF x
  <2> QED BY <1>1, <1>3, <1>4, <2>1, <2>3, <2>4, <2>5 DEF ChannelHeld, ChannelRoom
<1>7. CASE ArchiveChannel(a)
  <2>1. /\ Set(a, Idle) /\ p.pc = "archive"
        /\ channels' = [channels EXCEPT ![p.channel].archived = TRUE]
        /\ UNCHANGED <<status, channel, early>>
    BY <1>7 DEF ArchiveChannel
  <2>2. p.op = "complete" /\ p.channel \in DOMAIN channels
    BY <1>1, <2>1, OpSteps
  <2>3. p.channel = channel
    BY <1>3, <2>2 DEF ChannelHeld
  <2>4. /\ channels'[channel].members = channels[channel].members
        /\ channels'[channel].archived = TRUE
    <3>1. channels[channel] \in Room /\ channel \in DOMAIN channels
      BY <1>1, <2>2, <2>3, DomainFacts
    <3>2. channels'[channel] = [channels[channel] EXCEPT !.archived = TRUE]
      BY <2>1, <2>3, <3>1
    <3> QED BY <3>1, <3>2 DEF Room
  <2>5. actor'[a] = Idle
    BY <1>1, <2>1, SetFacts
  <2>6. p.op # "activate"
    BY <2>2
  <2> QED BY <1>1, <1>3, <1>4, <2>1, <2>4, <2>5, <2>6, IdleFacts DEF ChannelHeld, ChannelRoom
<1> QED BY <1>5, <1>6, <1>7

LEMMA ChannelNext ==
  ASSUME TypeInv, TypeInv', Roles, ChannelInv, OneCron, [Next]_vars
  PROVE  ChannelInv'
<1>1. KeptEntries /\ early \subseteq Users
  BY EntriesKept DEF TypeInv, Tables
<1>2. CASE \E a \in Requests : Request(a)
  BY <1>2, OthersChannel DEF Actors
<1>3. CASE \E a \in Settlements : Settlement(a)
  BY <1>3, OthersChannel DEF Actors
<1>4. CASE \E a \in Actors : Filling(a)
  BY <1>4, OthersChannel
<1>5. CASE \E a \in Crons : Lifecycle(a)
  <2>1. PICK a \in Crons : Lifecycle(a)
    BY <1>5
  <2>2. a \in Actors
    BY DEF Actors
  <2>3. \/ StartActivation(a) \/ Activate(a) \/ CreateChannel(a) \/ AttachChannel(a)
        \/ ReadEntries(a) \/ \E u \in actor[a].todo : AddMember(a, u)
        \/ StartCompletion(a) \/ SetCompleted(a) \/ ArchiveChannel(a) \/ FinalStep(a)
    BY <2>1 DEF Lifecycle, FinalStep
  <2> QED BY <1>1, <2>2, <2>3, StartingChannel, CompletingChannel, OthersChannel
<1>6. CASE (\E a \in Actors : Failing(a)) \/ Crash
  <2>1. Failure
    BY <1>6, FailedBooks, Zenon DEF Crash
  <2> QED BY <2>1, FailureCounts DEF ChannelInv
<1>7. CASE archiveTournament
  <2>1. /\ status = "completed" /\ status' = "archived"
        /\ UNCHANGED <<channel, channels, actor, early, spent>> /\ entry' = entry
    BY <1>7 DEF archiveTournament, rows
  <2> SUFFICES ASSUME spent.failures = 0
               PROVE  (\A c \in Crons : ChannelHeld(actor[c]))' /\ ChannelRoom'
    BY <2>1 DEF ChannelInv
  <2>2. (\A c \in Crons : ChannelHeld(actor[c])) /\ ChannelRoom
    BY DEF ChannelInv
  <2>3. \A c \in Crons : ChannelHeld(actor[c])'
    BY <2>1, <2>2 DEF ChannelHeld
  <2> QED BY <2>1, <2>2, <2>3 DEF ChannelRoom, Entered
<1>8. CASE Tick \/ UNCHANGED vars
  <2>1. UNCHANGED <<status, channel, channels, early, actor, spent>>
    BY <1>8 DEF Tick, vars, row
  <2> QED BY <1>1, <2>1, ChannelStays
<1> QED BY <1>2, <1>3, <1>4, <1>5, <1>6, <1>7, <1>8 DEF Next

(* With one lifecycle run at a time, the channel of a tournament that has been
   started has everyone who had entered by then, and it is archived with the
   tournament, unless a statement failed or the process died.             *)
THEOREM ChannelFills ==
  ASSUME OneCron
  PROVE  Spec => []ChannelHasEntrants
<1>1. Init => ChannelInv
  <2> SUFFICES ASSUME Init PROVE ChannelInv
    OBVIOUS
  <2>1. /\ status = "upcoming" /\ early = {} /\ channel = 0
        /\ \A c \in Crons : actor[c] = Idle
    BY DEF Init, Actors
  <2> QED BY <2>1, IdleFacts DEF ChannelInv, ChannelHeld, ChannelRoom
<1>2. TypeInv /\ TypeInv' /\ Roles /\ ChannelInv /\ [Next]_vars => ChannelInv'
  BY ChannelNext
<1>3. TypeInv /\ ChannelInv => ChannelHasEntrants
  <2> SUFFICES ASSUME TypeInv, ChannelInv, spent.failures = 0, status # "upcoming",
                      \A c \in Crons : actor[c] = Idle
               PROVE  /\ channel # 0 /\ early \subseteq channels[channel].members
                      /\ status # "active" => channels[channel].archived
    BY DEF ChannelHasEntrants
  <2>1. \A c \in Crons : actor[c].op # "activate" /\ actor[c].pc # "archive"
    BY IdleFacts
  <2>2. ChannelRoom /\ status \in {"active", "completed", "archived"}
    BY DEF ChannelInv, TypeInv, Tables
  <2> QED BY <2>1, <2>2 DEF ChannelRoom
<1> QED BY <1>1, <1>2, <1>3, RolesHold, PTL DEF Spec

-----------------------------------------------------------------------------
(* Which steps write which table, and what they write *)

LEMMA WhichStep ==
  ASSUME TypeInv, [Next]_vars
  PROVE  /\ \/ portfolios' = portfolios
            \/ \E a \in Actors : CreatePortfolio(a) \/ DeletePortfolio(a) \/ Charge(a) \/ Credit(a)
            \/ \E a \in Actors : \E q \in actor[a].todo : WriteTotal(a, q)
         /\ \/ positions' = positions
            \/ \E a \in Actors : OpenPosition(a)
            \/ \E a \in Actors : \E r \in actor[a].selected : CloseRow(a, r) \/ MarkPosition(a, r)
         /\ \/ trades' = trades
            \/ \E a \in Actors : Enqueue(a) \/ OpenPosition(a) \/ MarkExecuted(a)
                                 \/ CancelQueued(a)
            \/ \E a \in Actors : \E r \in actor[a].selected : CloseRow(a, r)
<1> DEFINE P == \/ portfolios' = portfolios
                \/ \E a \in Actors : CreatePortfolio(a) \/ DeletePortfolio(a) \/ Charge(a)
                                     \/ Credit(a)
                \/ \E a \in Actors : \E q \in actor[a].todo : WriteTotal(a, q)
           R == \/ positions' = positions
                \/ \E a \in Actors : OpenPosition(a)
                \/ \E a \in Actors : \E r \in actor[a].selected :
                     CloseRow(a, r) \/ MarkPosition(a, r)
           T == \/ trades' = trades
                \/ \E a \in Actors : Enqueue(a) \/ OpenPosition(a) \/ MarkExecuted(a)
                                     \/ CancelQueued(a)
                \/ \E a \in Actors : \E r \in actor[a].selected : CloseRow(a, r)
<1>1. ASSUME NEW a \in Actors, Request(a)
      PROVE  P /\ R /\ T
  BY <1>1, Zenon DEF Request, enterTournament, CreatePortfolio, CreateEntry, DeletePortfolio,
              StartTrade, Enqueue, Charge, closePosition, rows
<1>2. ASSUME NEW a \in Actors, Settlement(a)
      PROVE  P /\ R /\ T
  BY <1>2, Zenon DEF Settlement, StartSettlement, NextTrade, SelectOpposite, MarkExecuted, SelectMarks,
              MarkPosition, WriteTotal, rows
<1>3. ASSUME NEW a \in Actors, Lifecycle(a)
      PROVE  P /\ R /\ T
  BY <1>3 DEF Lifecycle, StartActivation, Activate, CreateChannel, AttachChannel, ReadEntries,
              AddMember, StartCompletion, SelectOpen, CancelQueued, ReadBoard, WriteRank,
              SetCompleted, ArchiveChannel, rows
<1>4. ASSUME NEW a \in Actors, Filling(a)
      PROVE  P /\ R /\ T
  BY <1>4, Zenon DEF Filling, CloseRow, Credit, OpenPosition
<1>5. ASSUME NEW a \in Actors, Failing(a)
      PROVE  P /\ R /\ T
  BY <1>5, FailedBooks DEF rows
<1>6. CASE Crash \/ archiveTournament \/ Tick \/ UNCHANGED vars
  <2>1. UNCHANGED <<portfolios, positions, trades>>
    BY <1>6, Zenon DEF Crash, archiveTournament, Tick, vars, rows
  <2> QED BY <2>1
<1> QED BY <1>1, <1>2, <1>3, <1>4, <1>5, <1>6 DEF Next, Actors

LEMMA InsertedRows ==
  ASSUME TypeInv, NEW a \in Actors, CreatePortfolio(a)
  PROVE  LET k == Len(portfolios) + 1
             x == portfolios'[k]
         IN /\ DOMAIN portfolios' = DOMAIN portfolios \cup {k} /\ k \notin DOMAIN portfolios
            /\ \A q \in DOMAIN portfolios : portfolios'[q] = portfolios[q]
                                            /\ account'[q] = account[q]
            /\ x.owner = actor[a].user /\ x.cash = StartingBalance /\ x.realized = 0
            /\ x.unrealized = 0 /\ x.live = TRUE /\ account'[k] = NoAccount
            /\ actor'[a] = [actor[a] EXCEPT !.pc = "entry", !.portfolio = k]
            /\ actor[a].pc = "portfolio"
<1> DEFINE k == Len(portfolios) + 1
           y == [owner |-> actor[a].user, cash |-> StartingBalance, realized |-> 0,
                 unrealized |-> 0, live |-> TRUE]
<1>1. /\ actor[a].pc = "portfolio" /\ portfolios' = Append(portfolios, y)
      /\ account' = Append(account, NoAccount)
      /\ Set(a, [actor[a] EXCEPT !.pc = "entry", !.portfolio = k])
  BY DEF CreatePortfolio
<1>2. actor[a].user \in Users
  BY <1>1, RunFacts, StepOps DEF Legal, Keeps
<1>3. y \in Portfolio /\ NoAccount \in Account
  BY <1>2, Bounds DEF Portfolio, NoAccount, Account
<1>4. portfolios \in Seq(Portfolio) /\ account \in Seq(Account) /\ Len(account) = Len(portfolios)
      /\ DOMAIN account = DOMAIN portfolios
  BY Lengths DEF TypeInv, Tables
<1> HIDE DEF y
<1>5. /\ DOMAIN portfolios' = DOMAIN portfolios \cup {k} /\ k \notin DOMAIN portfolios
      /\ \A q \in DOMAIN portfolios : portfolios'[q] = portfolios[q]
      /\ portfolios'[k] = y
  BY <1>1, <1>3, <1>4, AppendFacts
<1>6. (\A q \in DOMAIN portfolios : account'[q] = account[q]) /\ account'[k] = NoAccount
  BY <1>1, <1>3, <1>4, AppendFacts
<1>7. actor'[a] = [actor[a] EXCEPT !.pc = "entry", !.portfolio = k]
  BY <1>1, SetFacts
<1>8. /\ y.owner = actor[a].user /\ y.cash = StartingBalance /\ y.realized = 0
      /\ y.unrealized = 0 /\ y.live = TRUE
  BY DEF y
<1> QED BY <1>1, <1>5, <1>6, <1>7, <1>8

LEMMA CleanedRows ==
  ASSUME TypeInv, NEW a \in Actors, DeletePortfolio(a)
  PROVE  LET q == actor[a].portfolio
             x == portfolios'[q]
         IN /\ q \in DOMAIN portfolios /\ DOMAIN portfolios' = DOMAIN portfolios
            /\ \A b \in DOMAIN portfolios \ {q} : portfolios'[b] = portfolios[b]
            /\ x.owner = portfolios[q].owner /\ x.cash = portfolios[q].cash
            /\ x.realized = portfolios[q].realized /\ x.unrealized = portfolios[q].unrealized
            /\ x.live = (\/ \E t \in DOMAIN trades : trades[t].portfolio = q
                         \/ \E i \in DOMAIN positions : positions[i].portfolio = q)
            /\ actor[a].pc = "cleanup" /\ actor'[a] = Idle
            /\ UNCHANGED <<account, entry, positions, trades>>
<1> DEFINE q == actor[a].portfolio
           used == \/ \E t \in DOMAIN trades : trades[t].portfolio = q
                   \/ \E i \in DOMAIN positions : positions[i].portfolio = q
           x == [portfolios[q] EXCEPT !.live = used]
<1>1. /\ actor[a].pc = "cleanup" /\ portfolios' = [portfolios EXCEPT ![q].live = used]
      /\ Set(a, Idle) /\ UNCHANGED <<account, entry, positions, trades>>
  BY DEF DeletePortfolio
<1>2. q \in DOMAIN portfolios
  BY <1>1, RunFacts DEF Legal, AtStep
<1>3. portfolios[q] \in Portfolio /\ used \in BOOLEAN
  BY <1>2, AccountFields DEF TypeInv
<1>4. portfolios' = [portfolios EXCEPT ![q] = x]
  BY <1>1, <1>3 DEF Portfolio
<1> HIDE DEF q, used
<1>5. /\ x.owner = portfolios[q].owner /\ x.cash = portfolios[q].cash
      /\ x.realized = portfolios[q].realized /\ x.unrealized = portfolios[q].unrealized
      /\ x.live = used
  BY <1>3 DEF Portfolio
<1>6. /\ DOMAIN portfolios' = DOMAIN portfolios /\ portfolios'[q] = x
      /\ \A b \in DOMAIN portfolios \ {q} : portfolios'[b] = portfolios[b]
  BY <1>2, <1>4
<1> HIDE DEF x
<1>7. actor'[a] = Idle
  BY <1>1, SetFacts, SMTT(30)
<1> QED BY <1>1, <1>2, <1>5, <1>6, <1>7 DEF q, used

LEMMA ChargedRows ==
  ASSUME TypeInv, NEW a \in Actors, Charge(a)
  PROVE  LET q == actor[a].portfolio
             x == portfolios'[q]
             y == account'[q]
         IN /\ q \in DOMAIN portfolios /\ DOMAIN portfolios' = DOMAIN portfolios
            /\ \A b \in DOMAIN portfolios \ {q} : portfolios'[b] = portfolios[b]
                                                  /\ account'[b] = account[b]
            /\ x.owner = portfolios[q].owner /\ x.live = portfolios[q].live
            /\ x.realized = portfolios[q].realized /\ x.unrealized = portfolios[q].unrealized
            /\ y.earned = account[q].earned
            /\ y.booked = account[q].booked /\ y.marked = account[q].marked
            /\ x.cash + y.charged = portfolios[q].cash + account[q].charged
            /\ actor'[a] = Idle /\ actor[a].pc = "charge"
<1> DEFINE p == actor[a]
           q == p.portfolio
           cost == p.left * p.price
           x == [portfolios[q] EXCEPT !.cash = @ - cost]
           y == [account[q] EXCEPT !.charged = @ + cost]
<1>1. /\ p.pc = "charge" /\ Set(a, Idle)
      /\ portfolios' = [portfolios EXCEPT ![q].cash = @ - cost]
      /\ account' = [account EXCEPT ![q].charged = @ + cost]
  BY DEF Charge
<1>2. p.op = "destination" /\ p \in Actor /\ q \in DOMAIN portfolios /\ q \in DOMAIN account
  BY <1>1, RunFacts, StepOps, Lengths DEF Legal, Keeps, TypeInv
<1>3. cost \in Nat
  <2>1. p.left \in Nat /\ p.price \in Prices
    BY <1>2, RunFacts DEF Legal, Keeps, Actor
  <2> QED BY <2>1, Numbers
<1> HIDE DEF cost
<1>4. /\ portfolios[q] \in Portfolio /\ account[q] \in Account
      /\ portfolios[q].cash \in Int /\ account[q].charged \in Nat
  BY <1>2, AccountFields DEF TypeInv
<1>5. portfolios' = [portfolios EXCEPT ![q] = x] /\ account' = [account EXCEPT ![q] = y]
  BY <1>1, <1>4 DEF Portfolio, Account
<1> HIDE DEF q
<1>6. /\ x.owner = portfolios[q].owner /\ x.live = portfolios[q].live
      /\ x.realized = portfolios[q].realized /\ x.unrealized = portfolios[q].unrealized
      /\ x.cash = portfolios[q].cash - cost
  BY <1>4 DEF Portfolio
<1>7. /\ y.earned = account[q].earned /\ y.booked = account[q].booked
      /\ y.marked = account[q].marked /\ y.charged = account[q].charged + cost
  BY <1>4 DEF Account
<1>8. /\ DOMAIN portfolios' = DOMAIN portfolios /\ portfolios'[q] = x /\ account'[q] = y
      /\ \A b \in DOMAIN portfolios \ {q} : portfolios'[b] = portfolios[b]
                                            /\ account'[b] = account[b]
  <2>1. DOMAIN account = DOMAIN portfolios
    BY Lengths DEF TypeInv
  <2> HIDE DEF x, y
  <2> QED BY <1>2, <1>5, <2>1
<1> HIDE DEF x, y
<1>9. x.cash + y.charged = portfolios[q].cash + account[q].charged
  BY <1>3, <1>4, <1>6, <1>7
<1>10. actor'[a] = Idle
  BY <1>1, SetFacts
<1> QED BY <1>1, <1>2, <1>6, <1>7, <1>8, <1>9, <1>10 DEF q

LEMMA TotalledRows ==
  ASSUME TypeInv, NEW a \in Actors, NEW q \in actor[a].todo, WriteTotal(a, q)
  PROVE  LET x == portfolios'[q]
             y == account'[q]
         IN /\ q \in DOMAIN portfolios /\ DOMAIN portfolios' = DOMAIN portfolios
            /\ \A b \in DOMAIN portfolios \ {q} : portfolios'[b] = portfolios[b]
                                                  /\ account'[b] = account[b]
            /\ x.owner = portfolios[q].owner /\ x.live = portfolios[q].live
            /\ x.cash = portfolios[q].cash /\ x.realized = portfolios[q].realized
            /\ x.unrealized = actor[a].totals[q]
            /\ y.earned = account[q].earned /\ y.charged = account[q].charged
            /\ y.booked = account[q].booked
            /\ y.marked = (account[q].marked \ Mended) \cup
                            IF Booked(q) = {} THEN {} ELSE {"stale row"}
            /\ actor[a].pc = "total" /\ actor[a].op = "mark"
            /\ actor'[a] = NextTotal(actor[a], q)
<1> DEFINE p == actor[a]
           total == p.totals[q]
           x == [portfolios[q] EXCEPT !.unrealized = total]
           marked == (account[q].marked \ Mended) \cup IF Booked(q) = {} THEN {} ELSE {"stale row"}
           y == [account[q] EXCEPT !.marked = marked]
<1>1. /\ p.pc = "total" /\ Set(a, NextTotal(p, q))
      /\ portfolios' = [portfolios EXCEPT ![q].unrealized = total]
  BY DEF WriteTotal
<1>2. account' = [account EXCEPT ![q].marked = marked]
  BY DEF WriteTotal
<1>3. p \in Actor /\ p.op = "mark"
  BY <1>1, RunFacts, StepOps
<1>4. q \in DOMAIN portfolios
  BY <1>3, RunFacts DEF Legal, Keeps, TodoLegal
<1>5. DOMAIN account = DOMAIN portfolios
  BY Lengths DEF TypeInv
<1>6. portfolios[q] \in Portfolio /\ account[q] \in Account
  BY <1>4, AccountFields DEF TypeInv
<1> HIDE DEF total, marked
<1>7. portfolios' = [portfolios EXCEPT ![q] = x] /\ account' = [account EXCEPT ![q] = y]
  BY <1>1, <1>2, <1>4, <1>5, <1>6 DEF Portfolio, Account
<1>8. /\ x.owner = portfolios[q].owner /\ x.live = portfolios[q].live
      /\ x.cash = portfolios[q].cash /\ x.realized = portfolios[q].realized
      /\ x.unrealized = total
  BY <1>6 DEF Portfolio
<1>9. /\ y.earned = account[q].earned /\ y.charged = account[q].charged
      /\ y.booked = account[q].booked /\ y.marked = marked
  BY <1>6 DEF Account
<1> HIDE DEF x, y
<1>10. /\ DOMAIN portfolios' = DOMAIN portfolios /\ portfolios'[q] = x /\ account'[q] = y
       /\ \A b \in DOMAIN portfolios \ {q} : portfolios'[b] = portfolios[b]
                                             /\ account'[b] = account[b]
  BY <1>4, <1>5, <1>7
<1>11. actor'[a] = NextTotal(p, q)
  BY <1>1, SetFacts
<1> QED BY <1>1, <1>3, <1>4, <1>8, <1>9, <1>10, <1>11 DEF total, marked

LEMMA EnqueuedRows ==
  ASSUME TypeInv, NEW a \in Actors, Enqueue(a)
  PROVE  LET p == actor[a]
             k == Len(trades) + 1
             x == [portfolio |-> p.portfolio, filled |-> 0, direction |-> p.direction,
                   quantity |-> p.left, status |-> "queued"]
         IN /\ p.pc = "enqueue" /\ p.portfolio \in DOMAIN portfolios /\ actor'[a] = Idle
            /\ \/ trades' = trades
               \/ /\ portfolios[p.portfolio].live /\ trades'[k] = x
                  /\ DOMAIN trades' = DOMAIN trades \cup {k} /\ k \notin DOMAIN trades
            /\ \A t \in DOMAIN trades : trades'[t] = trades[t]
            /\ p.left \in Quantities
<1> DEFINE p == actor[a]
           x == [portfolio |-> p.portfolio, filled |-> 0, direction |-> p.direction,
                 quantity |-> p.left, status |-> "queued"]
<1>1. /\ p.pc = "enqueue" /\ Set(a, Idle)
      /\ \/ trades' = Append(trades, x) /\ portfolios[p.portfolio].live
         \/ trades' = trades
  BY DEF Enqueue
<1>2. /\ p \in Actor /\ p.op = "queue" /\ p.portfolio \in DOMAIN portfolios
      /\ p.left \in Quantities /\ p.direction \in Directions
  BY <1>1, RunFacts, StepOps DEF Legal, Keeps, Actor
<1>3. p.portfolio \in 1..MaxPortfolios /\ trades \in Seq(Trade)
  BY <1>2, Lengths, Bounds, SMTT(30) DEF TypeInv, Tables
<1>4. x \in Trade
  <2> HIDE DEF p
  <2> QED BY <1>2, <1>3 DEF Trade
<1> HIDE DEF x
<1>5. trades' = Append(trades, x) =>
        /\ trades'[Len(trades) + 1] = x
        /\ DOMAIN trades' = DOMAIN trades \cup {Len(trades) + 1}
        /\ Len(trades) + 1 \notin DOMAIN trades
        /\ \A t \in DOMAIN trades : trades'[t] = trades[t]
  BY <1>3, <1>4, AppendFacts
<1>6. actor'[a] = Idle
  BY <1>1, SetFacts
<1> QED BY <1>1, <1>2, <1>5, <1>6 DEF x

LEMMA CancelledRows ==
  ASSUME TypeInv, NEW a \in Actors, CancelQueued(a)
  PROVE  /\ DOMAIN trades' = DOMAIN trades
         /\ \A t \in DOMAIN trades :
              /\ trades'[t].portfolio = trades[t].portfolio
              /\ trades'[t].quantity = trades[t].quantity
              /\ trades'[t].filled = trades[t].filled
              /\ trades'[t].direction = trades[t].direction
              /\ trades'[t].status = IF trades[t].status = "queued" THEN "cancelled"
                                     ELSE trades[t].status
<1>1. trades' = [t \in DOMAIN trades |->
                   [trades[t] EXCEPT !.status = IF @ = "queued" THEN "cancelled" ELSE @]]
  BY DEF CancelQueued
<1>2. \A t \in DOMAIN trades : trades[t] \in Trade
  BY Lengths DEF TypeInv
<1>3. \A t \in DOMAIN trades :
        trades'[t] = [trades[t] EXCEPT !.status = IF @ = "queued" THEN "cancelled" ELSE @]
  BY <1>1
<1>4. DOMAIN trades' = DOMAIN trades
  BY <1>1
<1> QED BY <1>2, <1>3, <1>4 DEF Trade

LEMMA OwnersKept ==
  ASSUME TypeInv, [Next]_vars
  PROVE  \A q \in DOMAIN portfolios :
           /\ q \in DOMAIN portfolios'
           /\ portfolios'[q].owner = portfolios[q].owner
           /\ \/ portfolios'[q].live = portfolios[q].live
              \/ \E a \in Actors : DeletePortfolio(a) /\ actor[a].portfolio = q
<1> DEFINE Kept1(q) == /\ q \in DOMAIN portfolios'
                       /\ portfolios'[q].owner = portfolios[q].owner
                       /\ \/ portfolios'[q].live = portfolios[q].live
                          \/ \E a \in Actors : DeletePortfolio(a) /\ actor[a].portfolio = q
<1>1. CASE portfolios' = portfolios
  BY <1>1
<1>2. ASSUME NEW a \in Actors, CreatePortfolio(a), NEW q \in DOMAIN portfolios
      PROVE  Kept1(q)
  BY <1>2, InsertedRows
<1>3. ASSUME NEW a \in Actors, DeletePortfolio(a), NEW q \in DOMAIN portfolios
      PROVE  Kept1(q)
  BY <1>3, CleanedRows
<1>4. ASSUME NEW a \in Actors, Charge(a), NEW q \in DOMAIN portfolios
      PROVE  Kept1(q)
  BY <1>4, ChargedRows
<1>5. ASSUME NEW a \in Actors, Credit(a), NEW q \in DOMAIN portfolios
      PROVE  Kept1(q)
  <2> DEFINE p == actor[a].portfolio
  <2>1. /\ p \in DOMAIN portfolios
        /\ portfolios' = [portfolios EXCEPT ![p] = portfolios'[p]]
        /\ portfolios'[p].owner = portfolios[p].owner
        /\ portfolios'[p].live = portfolios[p].live
    BY <1>5, CreditedRows
  <2> QED BY <2>1
<1>6. ASSUME NEW a \in Actors, NEW p \in actor[a].todo, WriteTotal(a, p),
             NEW q \in DOMAIN portfolios
      PROVE  Kept1(q)
  BY <1>6, TotalledRows
<1> QED BY <1>1, <1>2, <1>3, <1>4, <1>5, <1>6, WhichStep

LEMMA PositionsKept ==
  ASSUME TypeInv, [Next]_vars
  PROVE  /\ KeptPositions
         /\ \A i \in DOMAIN positions' \ DOMAIN positions :
              \E a \in Actors : /\ OpenPosition(a)
                                /\ positions'[i].portfolio = actor[a].portfolio
                                /\ portfolios[actor[a].portfolio].live
<1> DEFINE New(i) == \E a \in Actors : /\ OpenPosition(a)
                                       /\ positions'[i].portfolio = actor[a].portfolio
                                       /\ portfolios[actor[a].portfolio].live
<1>1. CASE positions' = positions
  BY <1>1, SamePositions
<1>2. ASSUME NEW a \in Actors, OpenPosition(a)
      PROVE  KeptPositions /\ \A i \in DOMAIN positions' \ DOMAIN positions : New(i)
  <2> DEFINE p == actor[a]
             x == [portfolio |-> p.portfolio, direction |-> p.direction,
                   quantity |-> p.left, entry |-> p.price, mark |-> p.price,
                   unrealized |-> 0, status |-> "open"]
             k == Len(positions) + 1
  <2>1. /\ \/ positions' = positions
           \/ positions' = Append(positions, x) /\ portfolios[p.portfolio].live
        /\ DOMAIN positions \subseteq DOMAIN positions'
        /\ DOMAIN positions' \subseteq DOMAIN positions \cup {k}
        /\ \A i \in DOMAIN positions : positions'[i] = positions[i]
        /\ k \in DOMAIN positions' => positions'[k] = x
    BY <1>2, OpenedRows
  <2>2. x.portfolio = p.portfolio
    OBVIOUS
  <2> HIDE DEF x
  <2>3. KeptPositions
    BY <2>1 DEF KeptPositions
  <2>4. ASSUME NEW i \in DOMAIN positions' \ DOMAIN positions
        PROVE  New(i)
    BY <1>2, <2>1, <2>2, <2>4
  <2> QED BY <2>3, <2>4
<1>3. ASSUME NEW a \in Actors, NEW r \in actor[a].selected, CloseRow(a, r)
      PROVE  KeptPositions /\ DOMAIN positions' = DOMAIN positions
  <2> DEFINE y == positions[r.id]
             x == positions'[r.id]
  <2>1. /\ positions' = [positions EXCEPT ![r.id] = x]
        /\ x.portfolio = y.portfolio /\ x.direction = y.direction /\ x.entry = y.entry
        /\ x.status = "closed" \/ x.status = y.status
    BY <1>3, ClosedPosition
  <2> HIDE DEF x
  <2>2. \A i \in DOMAIN positions : i # r.id => positions'[i] = positions[i]
    BY <2>1
  <2> QED BY <2>1, <2>2 DEF x, KeptPositions
<1>4. ASSUME NEW a \in Actors, NEW r \in actor[a].selected, MarkPosition(a, r)
      PROVE  KeptPositions /\ DOMAIN positions' = DOMAIN positions
  <2> DEFINE y == positions[r.id]
             x == positions'[r.id]
  <2>1. /\ positions' = [positions EXCEPT ![r.id] = x]
        /\ x.portfolio = y.portfolio /\ x.direction = y.direction /\ x.entry = y.entry
        /\ x.status = y.status
    BY <1>4, MarkedPosition
  <2> HIDE DEF x
  <2>2. \A i \in DOMAIN positions : i # r.id => positions'[i] = positions[i]
    BY <2>1
  <2> QED BY <2>1, <2>2 DEF x, KeptPositions
<1> QED BY <1>1, <1>2, <1>3, <1>4, WhichStep

LEMMA TradesKept ==
  ASSUME TypeInv, [Next]_vars
  PROVE  /\ KeptTrades
         /\ \A t \in DOMAIN trades' \ DOMAIN trades :
              \E a \in Actors : /\ Enqueue(a)
                                /\ trades'[t].portfolio = actor[a].portfolio
                                /\ portfolios[actor[a].portfolio].live
<1> DEFINE New(t) == \E a \in Actors : /\ Enqueue(a)
                                       /\ trades'[t].portfolio = actor[a].portfolio
                                       /\ portfolios[actor[a].portfolio].live
<1>1. CASE trades' = trades
  BY <1>1, SameTrades
<1>2. \A t \in DOMAIN trades : trades[t] \in Trade /\ trades[t].filled \in Nat
  BY Lengths DEF TypeInv, Trade
<1>3. ASSUME NEW a \in Actors, Enqueue(a)
      PROVE  KeptTrades /\ \A t \in DOMAIN trades' \ DOMAIN trades : New(t)
  <2> DEFINE p == actor[a]
             k == Len(trades) + 1
             x == [portfolio |-> p.portfolio, filled |-> 0, direction |-> p.direction,
                   quantity |-> p.left, status |-> "queued"]
  <2>1. /\ \/ trades' = trades
           \/ /\ portfolios[p.portfolio].live /\ trades'[k] = x
              /\ DOMAIN trades' = DOMAIN trades \cup {k}
        /\ \A t \in DOMAIN trades : trades'[t] = trades[t]
    BY <1>3, EnqueuedRows
  <2>2. x.portfolio = p.portfolio
    OBVIOUS
  <2> HIDE DEF x
  <2>3. KeptTrades
    BY <1>2, <2>1 DEF KeptTrades
  <2>4. ASSUME NEW t \in DOMAIN trades' \ DOMAIN trades
        PROVE  New(t)
    BY <1>3, <2>1, <2>2, <2>4
  <2> QED BY <2>3, <2>4
<1>4. ASSUME NEW t \in DOMAIN trades \cup {0}, NEW n \in Nat, trades' = Filled(t, n)
      PROVE  KeptTrades /\ DOMAIN trades' = DOMAIN trades
  <2>1. /\ DOMAIN trades' = DOMAIN trades
        /\ \A s \in DOMAIN trades : /\ trades'[s].portfolio = trades[s].portfolio
                                    /\ trades'[s].quantity = trades[s].quantity
                                    /\ trades'[s].filled = trades[s].filled
                                                             + IF s = t THEN n ELSE 0
    BY <1>4, FilledType DEF TypeInv
  <2>2. \A s \in DOMAIN trades : trades[s].filled <= trades'[s].filled
    BY <1>2, <2>1
  <2> QED BY <2>1, <2>2 DEF KeptTrades
<1>5. ASSUME NEW a \in Actors, OpenPosition(a)
      PROVE  KeptTrades /\ DOMAIN trades' = DOMAIN trades
  <2>1. /\ actor[a].left \in Nat /\ actor[a].trade \in DOMAIN trades \cup {0}
        /\ trades' = Filled(actor[a].trade, actor[a].left)
    BY <1>5, OpenedRows, Zenon DEF OpenPosition
  <2> QED BY <1>4, <2>1
<1>6. ASSUME NEW a \in Actors, NEW r \in actor[a].selected, CloseRow(a, r)
      PROVE  KeptTrades /\ DOMAIN trades' = DOMAIN trades
  <2>1. actor[a].pc = "close" /\ trades' = Filled(actor[a].trade, CloseQuantity(actor[a], r.row))
    BY <1>6, Zenon DEF CloseRow
  <2>2. CloseQuantity(actor[a], r.row) \in Nat /\ actor[a].trade \in DOMAIN trades \cup {0}
    BY <2>1, RunFacts, CloseQuantityType DEF Legal, Keeps
  <2> QED BY <1>4, <2>1, <2>2
<1>7. ASSUME NEW a \in Actors, MarkExecuted(a)
      PROVE  KeptTrades /\ DOMAIN trades' = DOMAIN trades
  <2> DEFINE t == actor[a].trade
  <2>1. /\ t \in DOMAIN trades /\ DOMAIN trades' = DOMAIN trades
        /\ trades'[t].portfolio = trades[t].portfolio
        /\ trades'[t].filled = trades[t].filled /\ trades'[t].quantity = trades[t].quantity
        /\ \A s \in DOMAIN trades \ {t} : trades'[s] = trades[s]
    BY <1>7, ExecutedRows
  <2> QED BY <1>2, <2>1 DEF KeptTrades
<1>8. ASSUME NEW a \in Actors, CancelQueued(a)
      PROVE  KeptTrades /\ DOMAIN trades' = DOMAIN trades
  <2>1. /\ DOMAIN trades' = DOMAIN trades
        /\ \A t \in DOMAIN trades : /\ trades'[t].portfolio = trades[t].portfolio
                                    /\ trades'[t].quantity = trades[t].quantity
                                    /\ trades'[t].filled = trades[t].filled
    BY <1>8, CancelledRows
  <2> QED BY <1>2, <2>1 DEF KeptTrades
<1> QED BY <1>1, <1>3, <1>5, <1>6, <1>7, <1>8, WhichStep

(* Only a request that enters is ever at the statements of entering. *)
LEMMA Entrants ==
  ASSUME TypeInv, TypeInv', [Next]_vars, NEW b \in Actors, actor'[b].op = "enter"
  PROVE  \/ actor'[b] = actor[b]
         \/ actor'[b].pc = "portfolio"
         \/ CreatePortfolio(b) \/ CreateEntry(b)
<1>1. ASSUME NEW a \in Actors, Request(a)
      PROVE  \/ actor'[b] = actor[b]
             \/ actor'[b].pc = "portfolio"
             \/ CreatePortfolio(b) \/ CreateEntry(b)
  <2>1. CASE b # a
    BY <1>1, <2>1, RequestShape
  <2>2. CASE b = a /\ \E u \in Users : enterTournament(a, u)
    <3>1. PICK u \in Users : enterTournament(a, u)
      BY <2>2
    <3> DEFINE x == [Idle EXCEPT !.op = "enter", !.pc = "portfolio", !.user = u]
    <3>2. Set(a, x) /\ x.pc = "portfolio"
      BY <3>1 DEF enterTournament, Idle
    <3> QED BY <2>2, <3>2, SetFacts
  <2>3. CASE DeletePortfolio(a) \/ Enqueue(a) \/ Charge(a)
    <3>1. Set(a, Idle)
      BY <2>3 DEF DeletePortfolio, Enqueue, Charge
    <3> QED BY <2>1, <3>1, SetFacts, IdleFacts
  <2>4. ASSUME NEW i \in DOMAIN positions, closePosition(a, i)
        PROVE  actor'[a].op = "close"
    <3> DEFINE x == [Idle EXCEPT !.op = "close", !.pc = "close",
                       !.portfolio = positions[i].portfolio,
                       !.left = positions[i].quantity, !.selected = Select({i})]
    <3>1. Set(a, x) /\ x.op = "close"
      BY <2>4 DEF closePosition, Idle
    <3> QED BY <3>1, SetFacts
  <2>5. CASE Trading(a)
    <3>1. PICK u \in Users, call \in Calls \ {"close"}, direction \in Directions,
             quantity \in Quantities, price \in Prices :
               StartTrade(a, u, call, direction, quantity, price)
      BY <2>5 DEF Trading
    <3> DEFINE x(q) == [Idle EXCEPT !.op = call, !.user = u, !.portfolio = q,
                                    !.pc = IF call = "queue" THEN "enqueue" ELSE "open",
                                    !.direction = direction, !.left = quantity,
                                    !.price = IF call = "queue" THEN 0 ELSE price]
    <3>2. PICK q \in DOMAIN portfolios : Set(a, x(q))
      BY <3>1, Zenon DEF StartTrade
    <3>3. call \in {"queue", "destination"} /\ x(q).op = call
      BY ConstantsAssumption DEF Idle
    <3> HIDE DEF x
    <3>4. actor'[a].op # "enter"
      BY <3>2, <3>3, SetFacts
    <3> QED BY <2>1, <3>4
  <2> QED BY <1>1, <2>1, <2>2, <2>3, <2>4, <2>5 DEF Request, Trading
<1>2. ASSUME NEW a \in Actors, Settlement(a) \/ Lifecycle(a)
      PROVE  actor'[b] = actor[b]
  BY <1>2, SettlementShape, LifecycleShape
<1>3. ASSUME NEW a \in Actors, Filling(a)
      PROVE  actor'[b] = actor[b]
  <2>1. actor[a].pc \in {"close", "credit", "open"}
    BY <1>3, Zenon DEF Filling, CloseRow, Credit, OpenPosition
  <2>2. actor[a].op # "enter"
    BY <2>1, RunFacts, StepOps
  <2> QED BY <1>3, <2>2, FillingShape
<1>4. ASSUME NEW a \in Actors, Failing(a)
      PROVE  actor'[b] = actor[b]
  <2>1. CASE b # a
    BY <1>4, <2>1, FailingShape
  <2>2. CASE b = a
    <3>1. actor[a].op = "enter"
      BY <1>4, <2>2, FailingShape
    <3>2. actor[a].pc \in {"portfolio", "entry", "cleanup"}
      BY <3>1, RunFacts DEF Legal, StepsOf
    <3>3. StatementThrows(a) \/ StatementIgnored(a)
      BY <1>4, <3>2 DEF Failing, RowIgnored, TotalIgnored, RankIgnored
    <3>4. Set(a, Idle)
      BY <3>1, <3>2, <3>3, Zenon DEF StatementThrows, StatementIgnored, Ignored
    <3> QED BY <2>2, <3>4, SetFacts, IdleFacts
  <2> QED BY <2>1, <2>2
<1>5. CASE Crash
  <2>1. actor'[b] = Idle
    BY <1>5, Zenon DEF Crash
  <2> QED BY <2>1, IdleFacts
<1>6. CASE archiveTournament \/ Tick \/ UNCHANGED vars
  BY <1>6 DEF archiveTournament, Tick, vars
<1> QED BY <1>1, <1>2, <1>3, <1>4, <1>5, <1>6 DEF Next, Actors

-----------------------------------------------------------------------------
(* References *)

Inserted(a) == actor[a].pc \in {"entry", "cleanup"}

EntriesRefer == \A u \in Users : entry[u] # 0 =>
  /\ entry[u] \in DOMAIN portfolios
  /\ portfolios[entry[u]].owner = u
  /\ portfolios[entry[u]].live

RowsRefer ==
  /\ \A i \in DOMAIN positions : portfolios[positions[i].portfolio].live
  /\ \A t \in DOMAIN trades : portfolios[trades[t].portfolio].live

(* The portfolio of a user who is entering is the user's and nobody else's. *)
InsertedRefer == \A a \in Actors : Inserted(a) =>
  /\ actor[a].portfolio \in DOMAIN portfolios
  /\ portfolios[actor[a].portfolio].owner = actor[a].user
  /\ portfolios[actor[a].portfolio].live
  /\ \A u \in Users : entry[u] # actor[a].portfolio
  /\ \A b \in Actors : Inserted(b) /\ actor[b].portfolio = actor[a].portfolio => b = a

References == EntriesRefer /\ RowsRefer /\ InsertedRefer

(* What stays to enter after a step. *)
LEMMA InsertedKept ==
  ASSUME TypeInv, TypeInv', [Next]_vars, NEW b \in Actors, Inserted(b)'
  PROVE  \/ actor'[b] = actor[b] /\ Inserted(b)
         \/ CreatePortfolio(b)
         \/ CreateEntry(b) /\ actor'[b] = [actor[b] EXCEPT !.pc = "cleanup"]
<1>1. actor'[b].pc \in {"entry", "cleanup"}
  BY DEF Inserted
<1>2. actor'[b] \in Actor /\ Legal(actor'[b], DOMAIN portfolios', DOMAIN positions',
                                  DOMAIN trades', DOMAIN channels')
  BY DEF TypeInv, RunsLegal
<1>3. actor'[b].op = "enter"
  BY <1>1, <1>2, StepOps
<1>4. CASE CreateEntry(b)
  <2>1. Set(b, Idle) \/ Set(b, [actor[b] EXCEPT !.pc = "cleanup"])
    BY <1>4 DEF CreateEntry
  <2> QED BY <1>3, <1>4, <2>1, SetFacts, IdleFacts
<1> QED BY <1>1, <1>3, <1>4, Entrants DEF Inserted

(* A step of which no portfolio is inserted, deleted, or entered. *)
LEMMA OthersRefer ==
  ASSUME TypeInv, TypeInv', References, [Next]_vars, entry' = entry,
         \A a \in Actors : ~CreatePortfolio(a) /\ ~DeletePortfolio(a) /\ ~CreateEntry(a)
  PROVE  References'
<1>1. \A q \in DOMAIN portfolios :
        /\ q \in DOMAIN portfolios'
        /\ portfolios'[q].owner = portfolios[q].owner
        /\ portfolios'[q].live = portfolios[q].live
  BY OwnersKept
<1>2. \A b \in Actors : Inserted(b)' => actor'[b] = actor[b] /\ Inserted(b)
  BY InsertedKept
<1>3. EntriesRefer'
  BY <1>1 DEF References, EntriesRefer
<1>4. InsertedRefer'
  <2> SUFFICES ASSUME NEW a \in Actors, Inserted(a)'
               PROVE  /\ actor'[a].portfolio \in DOMAIN portfolios'
                      /\ portfolios'[actor'[a].portfolio].owner = actor'[a].user
                      /\ portfolios'[actor'[a].portfolio].live
                      /\ \A u \in Users : entry'[u] # actor'[a].portfolio
                      /\ \A b \in Actors :
                           Inserted(b)' /\ actor'[b].portfolio = actor'[a].portfolio => b = a
    BY DEF InsertedRefer
  <2>1. /\ actor'[a] = actor[a] /\ actor[a].portfolio \in DOMAIN portfolios
        /\ portfolios[actor[a].portfolio].owner = actor[a].user
        /\ portfolios[actor[a].portfolio].live
        /\ \A u \in Users : entry[u] # actor[a].portfolio
        /\ \A b \in Actors : Inserted(b) /\ actor[b].portfolio = actor[a].portfolio => b = a
    BY <1>2 DEF References, InsertedRefer
  <2> QED BY <1>1, <1>2, <2>1
<1>5. RowsRefer'
  <2>1. ASSUME NEW i \in DOMAIN positions'
        PROVE  portfolios'[positions'[i].portfolio].live
    <3>1. CASE i \in DOMAIN positions
      <4>1. positions'[i].portfolio = positions[i].portfolio
        BY <3>1, PositionsKept DEF KeptPositions
      <4>2. positions[i].portfolio \in DOMAIN portfolios /\ portfolios[positions[i].portfolio].live
        BY <3>1 DEF References, RowsRefer, TypeInv, Tables
      <4> QED BY <1>1, <4>1, <4>2
    <3>2. CASE i \notin DOMAIN positions
      <4>1. PICK a \in Actors : /\ OpenPosition(a) /\ portfolios[actor[a].portfolio].live
                                /\ positions'[i].portfolio = actor[a].portfolio
        BY <3>2, PositionsKept
      <4>2. actor[a].portfolio \in DOMAIN portfolios
        BY <4>1, OpenedRows
      <4> QED BY <1>1, <4>1, <4>2
    <3> QED BY <3>1, <3>2
  <2>2. ASSUME NEW t \in DOMAIN trades'
        PROVE  portfolios'[trades'[t].portfolio].live
    <3>1. CASE t \in DOMAIN trades
      <4>1. trades'[t].portfolio = trades[t].portfolio
        BY <3>1, TradesKept DEF KeptTrades
      <4>2. trades[t].portfolio \in DOMAIN portfolios /\ portfolios[trades[t].portfolio].live
        BY <3>1 DEF References, RowsRefer, TypeInv, Tables
      <4> QED BY <1>1, <4>1, <4>2
    <3>2. CASE t \notin DOMAIN trades
      <4>1. PICK a \in Actors : /\ Enqueue(a) /\ portfolios[actor[a].portfolio].live
                                /\ trades'[t].portfolio = actor[a].portfolio
        BY <3>2, TradesKept
      <4>2. actor[a].portfolio \in DOMAIN portfolios
        BY <4>1, EnqueuedRows
      <4> QED BY <1>1, <4>1, <4>2
    <3> QED BY <3>1, <3>2
  <2> QED BY <2>1, <2>2 DEF RowsRefer
<1> QED BY <1>3, <1>4, <1>5 DEF References

LEMMA InsertedReferences ==
  ASSUME TypeInv, TypeInv', References, [Next]_vars, NEW a \in Actors, CreatePortfolio(a)
  PROVE  References'
<1> DEFINE k == Len(portfolios) + 1
<1>1. /\ DOMAIN portfolios' = DOMAIN portfolios \cup {k} /\ k \notin DOMAIN portfolios
      /\ \A q \in DOMAIN portfolios : portfolios'[q] = portfolios[q]
      /\ portfolios'[k].owner = actor[a].user /\ portfolios'[k].live = TRUE
      /\ actor'[a] = [actor[a] EXCEPT !.pc = "entry", !.portfolio = k]
  BY InsertedRows
<1>2. UNCHANGED <<entry, positions, trades>>
  BY DEF CreatePortfolio
<1>3. actor'[a].portfolio = k /\ actor'[a].user = actor[a].user
  <2>1. actor[a] \in Actor
    BY RunFacts
  <2> QED BY <1>1, <2>1 DEF Actor
<1>4. \A b \in Actors \ {a} : actor'[b] = actor[b]
  BY SetFacts DEF CreatePortfolio
<1>5. \A u \in Users : entry[u] # k
  <2>1. \A u \in Users : entry[u] \in DOMAIN portfolios \/ entry[u] = 0
    BY DEF References, EntriesRefer
  <2>2. k # 0
    BY Lengths DEF TypeInv
  <2> QED BY <1>1, <2>1, <2>2
<1> HIDE DEF k
<1>6. EntriesRefer'
  BY <1>1, <1>2 DEF References, EntriesRefer
<1>7. RowsRefer'
  BY <1>1, <1>2 DEF References, RowsRefer, TypeInv, Tables
<1>8. InsertedRefer'
  <2> SUFFICES ASSUME NEW b \in Actors, Inserted(b)'
               PROVE  /\ actor'[b].portfolio \in DOMAIN portfolios'
                      /\ portfolios'[actor'[b].portfolio].owner = actor'[b].user
                      /\ portfolios'[actor'[b].portfolio].live
                      /\ \A u \in Users : entry'[u] # actor'[b].portfolio
                      /\ \A c \in Actors :
                           Inserted(c)' /\ actor'[c].portfolio = actor'[b].portfolio => c = b
    BY DEF InsertedRefer
  <2>1. \A c \in Actors \ {a} : Inserted(c)' <=> Inserted(c)
    BY <1>4 DEF Inserted
  <2>2. \A c \in Actors \ {a} : Inserted(c)' => actor'[c].portfolio \in DOMAIN portfolios
    BY <1>4, <2>1 DEF References, InsertedRefer
  <2>3. CASE b = a
    BY <1>1, <1>2, <1>3, <1>5, <2>2, <2>3
  <2>4. CASE b # a
    <3>1. /\ Inserted(b) /\ actor'[b] = actor[b] /\ actor[b].portfolio \in DOMAIN portfolios
          /\ portfolios[actor[b].portfolio].owner = actor[b].user
          /\ portfolios[actor[b].portfolio].live
          /\ \A u \in Users : entry[u] # actor[b].portfolio
          /\ \A c \in Actors : Inserted(c) /\ actor[c].portfolio = actor[b].portfolio => c = b
      BY <1>4, <2>1, <2>4 DEF References, InsertedRefer
    <3>2. \A c \in Actors : Inserted(c)' /\ actor'[c].portfolio = actor[b].portfolio => c = b
      BY <1>1, <1>3, <1>4, <2>1, <3>1
    <3> QED BY <1>1, <1>2, <3>1, <3>2
  <2> QED BY <2>3, <2>4
<1> QED BY <1>6, <1>7, <1>8 DEF References

LEMMA CleanedReferences ==
  ASSUME TypeInv, TypeInv', References, [Next]_vars, NEW a \in Actors, DeletePortfolio(a)
  PROVE  References'
<1> DEFINE q == actor[a].portfolio
<1>1. /\ q \in DOMAIN portfolios /\ DOMAIN portfolios' = DOMAIN portfolios
      /\ \A b \in DOMAIN portfolios \ {q} : portfolios'[b] = portfolios[b]
      /\ portfolios'[q].owner = portfolios[q].owner
      /\ portfolios'[q].live = (\/ \E t \in DOMAIN trades : trades[t].portfolio = q
                                \/ \E i \in DOMAIN positions : positions[i].portfolio = q)
      /\ actor[a].pc = "cleanup" /\ actor'[a] = Idle
      /\ UNCHANGED <<account, entry, positions, trades>>
  BY CleanedRows
<1>2. Inserted(a) /\ ~Inserted(a)'
  BY <1>1, IdleFacts DEF Inserted
<1>3. \A b \in Actors \ {a} : actor'[b] = actor[b]
  BY SetFacts DEF DeletePortfolio
<1>4. (\A u \in Users : entry[u] # q)
      /\ \A b \in Actors \ {a} : Inserted(b) => actor[b].portfolio # q
  BY <1>2 DEF References, InsertedRefer
<1> HIDE DEF q
<1>5. EntriesRefer'
  BY <1>1, <1>4 DEF References, EntriesRefer
<1>6. RowsRefer'
  BY <1>1 DEF References, RowsRefer, TypeInv, Tables
<1>7. InsertedRefer'
  <2>1. \A b \in Actors : Inserted(b)' => b # a /\ Inserted(b) /\ actor'[b] = actor[b]
    BY <1>2, <1>3 DEF Inserted
  <2> SUFFICES ASSUME NEW b \in Actors, Inserted(b)'
               PROVE  /\ actor'[b].portfolio \in DOMAIN portfolios'
                      /\ portfolios'[actor'[b].portfolio].owner = actor'[b].user
                      /\ portfolios'[actor'[b].portfolio].live
                      /\ \A u \in Users : entry'[u] # actor'[b].portfolio
                      /\ \A c \in Actors :
                           Inserted(c)' /\ actor'[c].portfolio = actor'[b].portfolio => c = b
    BY DEF InsertedRefer
  <2> QED BY <1>1, <1>4, <2>1 DEF References, InsertedRefer
<1> QED BY <1>5, <1>6, <1>7 DEF References

LEMMA EnteredReferences ==
  ASSUME TypeInv, TypeInv', References, [Next]_vars, NEW a \in Actors, CreateEntry(a)
  PROVE  References'
<1> DEFINE p == actor[a]
           u == p.user
           x == [p EXCEPT !.pc = "cleanup"]
<1>1. /\ p.pc = "entry" /\ UNCHANGED <<portfolios, positions, trades>>
      /\ \/ entry[u] = 0 /\ entry' = [entry EXCEPT ![u] = p.portfolio] /\ Set(a, Idle)
         \/ entry' = entry /\ Set(a, x)
  BY DEF CreateEntry
<1>2. /\ p.portfolio \in DOMAIN portfolios /\ portfolios[p.portfolio].owner = u
      /\ portfolios[p.portfolio].live
      /\ \A v \in Users : entry[v] # p.portfolio
      /\ \A b \in Actors : Inserted(b) /\ actor[b].portfolio = p.portfolio => b = a
  BY <1>1 DEF References, InsertedRefer, Inserted
<1>3. p \in Actor /\ entry \in [Users -> 0..Len(portfolios)]
  BY RunFacts DEF TypeInv, Tables
<1>4. x.pc = "cleanup" /\ x.portfolio = p.portfolio /\ x.user = p.user
  BY <1>3 DEF Actor
<1>5. (actor'[a] = Idle \/ actor'[a] = x) /\ \A b \in Actors \ {a} : actor'[b] = actor[b]
  BY <1>1, SetFacts
<1>6. actor'[a] = x => entry' = entry
  BY <1>1, <1>4, SetFacts, IdleFacts
<1> HIDE DEF p, x
<1>7. EntriesRefer'
  BY <1>1, <1>2, <1>3 DEF References, EntriesRefer
<1>8. RowsRefer'
  BY <1>1 DEF References, RowsRefer
<1>9. InsertedRefer'
  <2> SUFFICES ASSUME NEW b \in Actors, Inserted(b)'
               PROVE  /\ actor'[b].portfolio \in DOMAIN portfolios'
                      /\ portfolios'[actor'[b].portfolio].owner = actor'[b].user
                      /\ portfolios'[actor'[b].portfolio].live
                      /\ \A v \in Users : entry'[v] # actor'[b].portfolio
                      /\ \A c \in Actors :
                           Inserted(c)' /\ actor'[c].portfolio = actor'[b].portfolio => c = b
    BY DEF InsertedRefer
  <2>1. \A c \in Actors : Inserted(c)' =>
          \/ c = a /\ actor'[a] = x
          \/ c # a /\ Inserted(c) /\ actor'[c] = actor[c]
    BY <1>5, IdleFacts DEF Inserted
  <2>2. Inserted(a)
    BY <1>1 DEF Inserted, p
  <2>3. \A c \in Actors : Inserted(c)' => Inserted(c) /\ actor'[c].portfolio = actor[c].portfolio
                                          /\ actor'[c].user = actor[c].user
    BY <1>4, <2>1, <2>2 DEF p
  <2>4. /\ actor[b].portfolio \in DOMAIN portfolios
        /\ portfolios[actor[b].portfolio].owner = actor[b].user
        /\ portfolios[actor[b].portfolio].live
        /\ \A v \in Users : entry[v] # actor[b].portfolio
        /\ \A c \in Actors : Inserted(c) /\ actor[c].portfolio = actor[b].portfolio => c = b
    BY <2>3 DEF References, InsertedRefer
  <2>5. \A v \in Users : entry'[v] # actor[b].portfolio
    <3>1. CASE b = a
      BY <1>6, <2>1, <2>4, <3>1
    <3>2. CASE b # a
      <4>1. p.portfolio # actor[b].portfolio
        BY <1>2, <2>3, <3>2
      <4> QED BY <1>1, <1>3, <2>4, <4>1
    <3> QED BY <3>1, <3>2
  <2> QED BY <1>1, <2>3, <2>4, <2>5
<1> QED BY <1>7, <1>8, <1>9 DEF References

LEMMA ReferencesStep ==
  ASSUME TypeInv, TypeInv', References, [Next]_vars
  PROVE  References'
<1>1. CASE \E a \in Actors : CreatePortfolio(a) \/ DeletePortfolio(a) \/ CreateEntry(a)
  BY <1>1, InsertedReferences, CleanedReferences, EnteredReferences
<1>2. CASE \A a \in Actors : ~CreatePortfolio(a) /\ ~DeletePortfolio(a) /\ ~CreateEntry(a)
  BY <1>2, OthersRefer, SameEntry
<1> QED BY <1>1, <1>2

LEMMA ReferencesHold == Spec => [](TypeInv /\ References)
<1>1. Init => References
  <2> SUFFICES ASSUME Init PROVE References
    OBVIOUS
  <2>1. /\ \A u \in Users : entry[u] = 0
        /\ positions = <<>> /\ trades = <<>> /\ \A a \in Actors : actor[a] = Idle
    BY DEF Init
  <2> QED BY <2>1, IdleFacts DEF References, EntriesRefer, RowsRefer, InsertedRefer, Inserted
<1>2. TypeInv /\ TypeInv' /\ References /\ [Next]_vars => References'
  BY ReferencesStep
<1> QED BY <1>1, <1>2, TypesHold, PTL DEF Spec

(* Types, and the foreign keys: an entry references a live portfolio of its
   user, trades and positions reference live portfolios, whatever a clean-up
   deletes in the meantime.                                                *)
THEOREM TypeCorrect == Spec => []TypeOK
<1>1. TypeInv /\ References => TypeOK
  BY Lengths DEF TypeInv, Tables, References, EntriesRefer, RowsRefer, TypeOK, Room, Entered
<1> QED BY <1>1, ReferencesHold, PTL

-----------------------------------------------------------------------------
(* The history of the books *)

(* A step that neither closes a row nor charges. *)
SameEarnings == \A q \in DOMAIN portfolios :
  /\ account'[q].earned = account[q].earned
  /\ account'[q].charged = account[q].charged
  /\ account[q].booked \subseteq account'[q].booked

LEMMA BlurEarnings ==
  ASSUME TypeInv, portfolios' = portfolios, NEW q \in DOMAIN portfolios, NEW b, NEW m,
         Blur(q, b, m)
  PROVE  SameEarnings
<1>1. /\ account'[q].booked = account[q].booked \cup b
      /\ \A p \in DOMAIN portfolios \ {q} : account'[p] = account[p]
      /\ \A p \in DOMAIN portfolios : account'[p].earned = account[p].earned
                                       /\ account'[p].charged = account[p].charged
  BY BlurKeeps
<1>2. \A p \in DOMAIN portfolios : account[p].booked \subseteq account'[p].booked
  BY <1>1
<1> QED BY <1>1, <1>2 DEF SameEarnings

LEMMA TradedAccount ==
  ASSUME TypeInv, NEW a \in Actors, NEW u \in Users, NEW call \in Calls \ {"close"},
         NEW direction \in Directions, NEW quantity \in Quantities, NEW price \in Prices,
         StartTrade(a, u, call, direction, quantity, price)
  PROVE  /\ SameEarnings
         /\ UNCHANGED <<portfolios, entry, positions, trades>>
         /\ call \in {"queue", "destination"}
         /\ \E q \in DOMAIN portfolios :
              /\ portfolios[q].live
              /\ actor'[a].op = call /\ actor'[a].portfolio = q
              /\ account'[q].booked = {} => \A b \in Actors : ~Entering(b, q)
<1> DEFINE x(q) == [Idle EXCEPT !.op = call, !.user = u, !.portfolio = q,
                                !.pc = IF call = "queue" THEN "enqueue" ELSE "open",
                                !.direction = direction, !.left = quantity,
                                !.price = IF call = "queue" THEN 0 ELSE price]
<1>1. /\ UNCHANGED <<portfolios, entry, positions, trades>>
      /\ call \in {"queue", "destination"}
  BY ConstantsAssumption DEF StartTrade, rows
<1>2. PICK q \in DOMAIN portfolios :
        /\ portfolios[q].live /\ Set(a, x(q))
        /\ account' = [account EXCEPT ![q].booked =
                        IF \A b \in Actors : ~Entering(b, q) THEN @ ELSE @ \cup {"late"}]
  BY Zenon DEF StartTrade
<1>3. x(q).op = call /\ x(q).portfolio = q
  BY DEF Idle
<1> HIDE DEF x
<1> DEFINE late == IF \A b \in Actors : ~Entering(b, q) THEN account[q].booked
                   ELSE account[q].booked \cup {"late"}
           y == [account[q] EXCEPT !.booked = late]
<1>4. DOMAIN account = DOMAIN portfolios /\ account[q] \in Account
  BY Lengths DEF TypeInv
<1>5. account' = [account EXCEPT ![q] = y]
  BY <1>2, <1>4 DEF Account
<1>6. account[q].booked \subseteq late /\ (late = {} => \A b \in Actors : ~Entering(b, q))
  OBVIOUS
<1> HIDE DEF late
<1>7. y.booked = late /\ y.earned = account[q].earned /\ y.charged = account[q].charged
  BY <1>4 DEF Account
<1> HIDE DEF y
<1>8. account'[q] = y /\ \A p \in DOMAIN portfolios \ {q} : account'[p] = account[p]
  BY <1>4, <1>5
<1>9. \A p \in DOMAIN portfolios : /\ account'[p].earned = account[p].earned
                                   /\ account'[p].charged = account[p].charged
                                   /\ account[p].booked \subseteq account'[p].booked
  BY <1>6, <1>7, <1>8
<1>10. actor'[a].op = call /\ actor'[a].portfolio = q
  BY <1>2, <1>3, SetFacts
<1>11. account'[q].booked = {} => \A b \in Actors : ~Entering(b, q)
  BY <1>6, <1>7, <1>8
<1> QED BY <1>1, <1>2, <1>9, <1>10, <1>11 DEF SameEarnings

LEMMA SameAccount ==
  ASSUME \A q \in DOMAIN portfolios : account'[q] = account[q]
  PROVE  SameEarnings
BY DEF SameEarnings

LEMMA FailedEarnings ==
  ASSUME TypeInv, (\E a \in Actors : Failing(a)) \/ Crash
  PROVE  SameEarnings
<1>1. KeptBooks /\ \A q \in DOMAIN portfolios : account'[q].earned = account[q].earned
                                               /\ account'[q].charged = account[q].charged
  BY FailedBooks, CrashBooks
<1> QED BY <1>1 DEF SameEarnings, KeptBooks

LEMMA Earnings ==
  ASSUME TypeInv, [Next]_vars
  PROVE  \/ SameEarnings
         \/ \E a \in Actors : Charge(a)
         \/ \E a \in Actors : \E r \in actor[a].selected : CloseRow(a, r)
<1>1. ASSUME account' = account
      PROVE  SameEarnings
  BY <1>1, SameAccount
<1>2. ASSUME NEW a \in Actors, Request(a)
      PROVE  SameEarnings \/ Charge(a)
  <2>1. CASE CreatePortfolio(a)
    BY <2>1, InsertedRows, SameAccount
  <2>2. CASE Enqueue(a)
    <3>1. \/ account' = account
          \/ Blur(actor[a].portfolio, {"late"}, {})
      BY <2>2 DEF Enqueue
    <3>2. portfolios' = portfolios /\ actor[a].portfolio \in DOMAIN portfolios
      BY <2>2, EnqueuedRows DEF Enqueue
    <3> QED BY <1>1, <3>1, <3>2, BlurEarnings
  <2>3. CASE Trading(a)
    BY <2>3, TradedAccount DEF Trading
  <2>4. CASE \/ \E u \in Users : enterTournament(a, u)
             \/ CreateEntry(a) \/ DeletePortfolio(a)
             \/ \E i \in DOMAIN positions : closePosition(a, i)
    <3>1. account' = account
      BY <2>4, Zenon DEF enterTournament, CreateEntry, DeletePortfolio, closePosition
    <3> QED BY <1>1, <3>1
  <2> QED BY <1>2, <2>1, <2>2, <2>3, <2>4 DEF Request, Trading
<1>3. ASSUME NEW a \in Actors, Settlement(a)
      PROVE  SameEarnings
  <2>1. ASSUME NEW r \in actor[a].selected, MarkPosition(a, r)
        PROVE  SameEarnings
    <3>1. \E m : Blur(r.row.portfolio, {}, m)
      BY <2>1 DEF MarkPosition
    <3>2. portfolios' = portfolios /\ r.row.portfolio \in DOMAIN portfolios
      BY <2>1, RunFacts, RowFacts, Zenon DEF MarkPosition
    <3> QED BY <3>1, <3>2, BlurEarnings
  <2>2. ASSUME NEW q \in actor[a].todo, WriteTotal(a, q)
        PROVE  SameEarnings
    <3>1. /\ \A b \in DOMAIN portfolios \ {q} : account'[b] = account[b]
          /\ account'[q].earned = account[q].earned /\ account'[q].charged = account[q].charged
          /\ account'[q].booked = account[q].booked
      BY <2>2, TotalledRows, ZenonT(40)
    <3> QED BY <3>1 DEF SameEarnings
  <2>3. CASE \/ \E price \in Prices : StartSettlement(a, price)
             \/ NextTrade(a) \/ SelectOpposite(a) \/ MarkExecuted(a) \/ SelectMarks(a)
    <3>1. account' = account
      BY <2>3, Zenon DEF StartSettlement, NextTrade, SelectOpposite, MarkExecuted, SelectMarks
    <3> QED BY <1>1, <3>1
  <2> QED BY <1>3, <2>1, <2>2, <2>3 DEF Settlement
<1>4. ASSUME NEW a \in Actors, Lifecycle(a)
      PROVE  account' = account
  BY <1>4 DEF Lifecycle, StartActivation, Activate, CreateChannel, AttachChannel, ReadEntries,
              AddMember, StartCompletion, SelectOpen, CancelQueued, ReadBoard, WriteRank,
              SetCompleted, ArchiveChannel
<1>5. ASSUME NEW a \in Actors, Filling(a)
      PROVE  SameEarnings \/ \E r \in actor[a].selected : CloseRow(a, r)
  <2>1. CASE Credit(a)
    <3> DEFINE q == actor[a].portfolio
    <3>1. /\ q \in DOMAIN portfolios /\ account' = [account EXCEPT ![q] = account'[q]]
          /\ account'[q].earned = account[q].earned /\ account'[q].charged = account[q].charged
          /\ account[q].booked \subseteq account'[q].booked
      BY <2>1, CreditedRows
    <3>2. DOMAIN account = DOMAIN portfolios
      BY Lengths DEF TypeInv
    <3>3. \A b \in DOMAIN portfolios \ {q} : account'[b] = account[b]
      BY <3>1, <3>2
    <3> QED BY <3>1, <3>3 DEF SameEarnings
  <2>2. CASE OpenPosition(a)
    <3>1. \/ account' = account
          \/ Blur(actor[a].portfolio, {"late"}, {})
      BY <2>2 DEF OpenPosition
    <3>2. portfolios' = portfolios /\ actor[a].portfolio \in DOMAIN portfolios
      BY <2>2, OpenedRows, Zenon DEF OpenPosition
    <3> QED BY <1>1, <3>1, <3>2, BlurEarnings
  <2> QED BY <1>5, <2>1, <2>2 DEF Filling
<1>6. CASE archiveTournament \/ Tick \/ UNCHANGED vars
  <2>1. account' = account
    BY <1>6 DEF archiveTournament, Tick, vars
  <2> QED BY <1>1, <2>1
<1> QED BY <1>1, <1>2, <1>3, <1>4, <1>5, <1>6, FailedEarnings DEF Next, Actors

LEMMA BookedKept ==
  ASSUME TypeInv, [Next]_vars
  PROVE  \A q \in DOMAIN portfolios : account[q].booked \subseteq account'[q].booked
<1>1. CASE SameEarnings
  BY <1>1 DEF SameEarnings
<1>2. CASE \E a \in Actors : Charge(a)
  BY <1>2, ChargedRows
<1>3. ASSUME NEW a \in Actors, NEW r \in actor[a].selected, CloseRow(a, r)
      PROVE  \A q \in DOMAIN portfolios : account[q].booked \subseteq account'[q].booked
  <2> DEFINE p == r.row.portfolio
  <2>1. /\ p \in DOMAIN portfolios /\ account' = [account EXCEPT ![p] = account'[p]]
        /\ account[p].booked \subseteq account'[p].booked
    BY <1>3, ClosedAccount, Zenon
  <2>2. DOMAIN account = DOMAIN portfolios
    BY Lengths DEF TypeInv
  <2>3. \A b \in DOMAIN portfolios \ {p} : account'[b] = account[b]
    BY <2>1, <2>2
  <2> QED BY <2>1, <2>3
<1> QED BY <1>1, <1>2, <1>3, Earnings

-----------------------------------------------------------------------------
(* Who trades, and who fills a trade *)

LEMMA RequestOps ==
  ASSUME TypeInv, NEW a \in Actors, Request(a), ~Trading(a)
  PROVE  actor'[a].op \in {"idle", "enter", "close"}
<1>1. CASE \E u \in Users : enterTournament(a, u)
  <2>1. PICK u \in Users : enterTournament(a, u)
    BY <1>1
  <2> DEFINE x == [Idle EXCEPT !.op = "enter", !.pc = "portfolio", !.user = u]
  <2>2. Set(a, x) /\ x.op = "enter"
    BY <2>1 DEF enterTournament, Idle
  <2> QED BY <2>2, SetFacts
<1>2. CASE CreatePortfolio(a) \/ CreateEntry(a)
  <2>1. actor[a].pc \in {"portfolio", "entry"}
    BY <1>2 DEF CreatePortfolio, CreateEntry
  <2>2. actor[a].op = "enter" /\ actor[a] \in Actor
    BY <2>1, RunFacts, StepOps
  <2> DEFINE x == [actor[a] EXCEPT !.pc = "entry", !.portfolio = Len(portfolios) + 1]
             y == [actor[a] EXCEPT !.pc = "cleanup"]
  <2>3. Set(a, x) \/ Set(a, y) \/ Set(a, Idle)
    BY <1>2 DEF CreatePortfolio, CreateEntry
  <2>4. x.op = "enter" /\ y.op = "enter"
    BY <2>2 DEF Actor
  <2> QED BY <2>3, <2>4, SetFacts, IdleFacts
<1>3. CASE DeletePortfolio(a) \/ Enqueue(a) \/ Charge(a)
  <2>1. Set(a, Idle)
    BY <1>3 DEF DeletePortfolio, Enqueue, Charge
  <2> QED BY <2>1, SetFacts, IdleFacts
<1>4. ASSUME NEW i \in DOMAIN positions, closePosition(a, i)
      PROVE  actor'[a].op = "close"
  <2> DEFINE x == [Idle EXCEPT !.op = "close", !.pc = "close",
                     !.portfolio = positions[i].portfolio,
                     !.left = positions[i].quantity, !.selected = Select({i})]
  <2>1. Set(a, x) /\ x.op = "close"
    BY <1>4 DEF closePosition, Idle
  <2> QED BY <2>1, SetFacts
<1> QED BY <1>1, <1>2, <1>3, <1>4 DEF Request, Trading

(* A request that queues a trade or opens a position keeps its portfolio. *)
LEMMA Traders ==
  ASSUME TypeInv, [Next]_vars, NEW b \in Actors, actor'[b].op \in {"queue", "destination"}
  PROVE  \/ Trading(b)
         \/ actor[b].op = actor'[b].op /\ actor[b].portfolio = actor'[b].portfolio
<1> DEFINE Done == \/ Trading(b)
                   \/ actor[b].op = actor'[b].op /\ actor[b].portfolio = actor'[b].portfolio
<1>1. ASSUME NEW a \in Actors, Request(a)
      PROVE  Done
  BY <1>1, RequestOps, RequestShape
<1>2. ASSUME NEW a \in Actors, Settlement(a) \/ Lifecycle(a)
      PROVE  Done
  BY <1>2, SettlementShape, LifecycleShape
<1>3. ASSUME NEW a \in Actors, Filling(a)
      PROVE  Done
  <2>1. CASE a # b
    BY <1>3, <2>1, FillingShape
  <2>2. CASE a = b
    <3>1. actor[a] \in Actor /\ actor[a].op \in {"queue", "destination"}
      BY <1>3, <2>2, RunFacts, FillingShape
    <3>2. actor[a].pc \notin {"close", "credit"}
      BY <3>1, RunFacts, StepOps
    <3>3. OpenPosition(a)
      BY <1>3, <3>2, Zenon DEF Filling, CloseRow, Credit
    <3> DEFINE y == [actor[a] EXCEPT !.pc = "charge"]
    <3>4. Set(a, y) \/ Set(a, Idle)
      BY <3>1, <3>3 DEF OpenPosition
    <3>5. y.op = actor[a].op /\ y.portfolio = actor[a].portfolio
      BY <3>1 DEF Actor
    <3> QED BY <2>2, <3>4, <3>5, SetFacts, IdleFacts
  <2> QED BY <2>1, <2>2
<1>4. ASSUME NEW a \in Actors, Failing(a)
      PROVE  Done
  <2>1. CASE a # b
    BY <1>4, <2>1, FailingShape
  <2>2. CASE a = b
    <3>1. actor[a].op \in {"queue", "destination"}
      BY <1>4, <2>2, FailingShape
    <3>2. actor[a].pc \in {"enqueue", "open", "charge"}
      BY <3>1, RunFacts DEF Legal, StepsOf
    <3>3. StatementThrows(a) \/ StatementIgnored(a)
      BY <1>4, <3>2 DEF Failing, RowIgnored, TotalIgnored, RankIgnored
    <3>4. Set(a, Idle)
      BY <3>1, <3>2, <3>3, Zenon DEF StatementThrows, StatementIgnored, Ignored
    <3> QED BY <2>2, <3>4, SetFacts, IdleFacts
  <2> QED BY <2>1, <2>2
<1>5. CASE Crash
  <2>1. actor'[b] = Idle
    BY <1>5, Zenon DEF Crash
  <2> QED BY <2>1, IdleFacts
<1>6. CASE archiveTournament \/ Tick \/ UNCHANGED vars
  BY <1>6 DEF archiveTournament, Tick, vars
<1> QED BY <1>1, <1>2, <1>3, <1>4, <1>5, <1>6 DEF Next, Actors

(* What a settlement does with the trade it has in hand. *)
InHand(b) == actor[b].op = "settle" /\ actor[b].trade # 0

Taking(b) == \E t \in actor[b].todo :
  NextTrade(b) /\ actor[b].pc = "next" /\ actor'[b] = Taken(actor[b], t)

Holding(b) ==
  /\ InHand(b)
  /\ actor'[b].trade = actor[b].trade /\ actor'[b].portfolio = actor[b].portfolio
  /\ actor'[b].todo = actor[b].todo
  /\ \/ /\ actor'[b].left = actor[b].left
        /\ actor'[b] = actor[b] \/ SelectOpposite(b) \/ Credit(b)
     \/ \E r \in actor[b].selected :
          /\ CloseRow(b, r)
          /\ actor'[b].left = actor[b].left - CloseQuantity(actor[b], r.row)
     \/ OpenPosition(b) /\ actor'[b].left = 0
  /\ \/ actor'[b] = actor[b]
     \/ actor'[b].pc = "executed" => actor'[b].left = 0

LEMMA ContinueHolds ==
  ASSUME NEW p \in Actor, p.op = "settle"
  PROVE  LET x == Continue(p)
         IN /\ x.trade = p.trade /\ x.portfolio = p.portfolio /\ x.todo = p.todo
            /\ x.left = p.left /\ x.op = "settle"
            /\ x.pc = "executed" => x.left = 0
BY DEF Continue, Actor

LEMMA SettlementHolds ==
  ASSUME TypeInv, NEW b \in Actors, Settlement(b), actor'[b].op = "settle",
         actor'[b].trade # 0
  PROVE  Taking(b) \/ Holding(b)
<1> DEFINE p == actor[b]
<1>1. p \in Actor /\ Legal(p, DOMAIN portfolios, DOMAIN positions, DOMAIN trades, DOMAIN channels)
  BY RunFacts
<1>2. ASSUME NEW price \in Prices, StartSettlement(b, price)
      PROVE  FALSE
  <2> DEFINE x == [Idle EXCEPT !.op = "settle", !.pc = "next", !.price = price,
                     !.todo = {t \in DOMAIN trades : trades[t].status = "queued"}]
  <2>1. Set(b, x) /\ x.trade = 0
    BY <1>2 DEF StartSettlement, Idle
  <2> QED BY <2>1, SetFacts
<1>3. CASE NextTrade(b)
  <2>1. p.pc = "next"
    BY <1>3 DEF NextTrade
  <2>2. Set(b, [p EXCEPT !.op = "mark", !.pc = "positions"])
        \/ \E t \in p.todo : Set(b, Taken(p, t))
    BY <1>3 DEF NextTrade
  <2>3. [p EXCEPT !.op = "mark", !.pc = "positions"].op = "mark"
    BY <1>1 DEF Actor
  <2> QED BY <1>3, <2>1, <2>2, <2>3, SetFacts DEF Taking
<1>4. CASE SelectOpposite(b)
  <2> DEFINE s == Select({i \in OpenOf(p.portfolio) :
                            positions[i].direction = Opposite(p.direction)})
             y == [p EXCEPT !.selected = s]
  <2>1. Set(b, Continue(y)) /\ p.pc = "opposite"
    BY <1>4 DEF SelectOpposite
  <2>2. p.op = "settle" /\ p.trade # 0
    BY <1>1, <2>1, StepOps DEF Legal, AtStep
  <2>3. y \in Actor
    <3>1. {i \in OpenOf(p.portfolio) : positions[i].direction = Opposite(p.direction)}
             \subseteq OpenPositions
      BY DEF OpenOf
    <3>2. s \in SUBSET Selected
      BY <3>1, SelectFacts DEF TypeInv
    <3> HIDE DEF s
    <3> QED BY <1>1, <3>2 DEF Actor
  <2> HIDE DEF s
  <2>4. /\ y.trade = p.trade /\ y.portfolio = p.portfolio /\ y.todo = p.todo
        /\ y.left = p.left /\ y.op = "settle"
    BY <1>1, <2>2 DEF Actor
  <2> HIDE DEF y
  <2>5. actor'[b] = Continue(y)
    BY <2>1, SetFacts
  <2>6. LET x == Continue(y)
        IN /\ x.trade = y.trade /\ x.portfolio = y.portfolio /\ x.todo = y.todo
           /\ x.left = y.left /\ (x.pc = "executed" => x.left = 0)
    BY <2>3, <2>4, ContinueHolds
  <2> QED BY <1>4, <2>2, <2>4, <2>5, <2>6 DEF Holding, InHand
<1>5. CASE MarkExecuted(b)
  <2>1. Set(b, TradeOver(p))
    BY <1>5 DEF MarkExecuted
  <2>2. TradeOver(p).trade = 0
    BY DEF TradeOver, Idle
  <2> QED BY <2>1, <2>2, SetFacts
<1>6. ASSUME p.pc \in {"positions", "mark", "total"}
      PROVE  FALSE
  <2>1. p.op = "mark" /\ p.trade = 0
    BY <1>1, <1>6, StepOps DEF Legal, Keeps
  <2>2. CASE SelectMarks(b)
    <3>1. PICK s, o, f : Set(b, Idle)
            \/ Set(b, [p EXCEPT !.pc = "mark", !.selected = s, !.todo = o, !.totals = f])
      BY <2>2, Zenon DEF SelectMarks
    <3>2. [p EXCEPT !.pc = "mark", !.selected = s, !.todo = o, !.totals = f].op = "mark"
      BY <1>1, <2>1 DEF Actor
    <3> QED BY <3>1, <3>2, IdleFacts, SetFacts
  <2>3. ASSUME NEW r, MarkPosition(b, r)
        PROVE  FALSE
    <3>1. Set(b, NextMark(p, r))
      BY <2>3 DEF MarkPosition
    <3>2. NextMark(p, r).op = "mark"
      BY <1>1, <2>1 DEF NextMark, Actor
    <3> QED BY <3>1, <3>2, SetFacts
  <2>4. ASSUME NEW q, WriteTotal(b, q)
        PROVE  FALSE
    <3>1. Set(b, NextTotal(p, q)) /\ NextTotal(p, q).op \in {"mark", "idle"}
      BY <1>1, <2>1, <2>4, OpsKept DEF WriteTotal
    <3> QED BY <3>1, SetFacts
  <2>5. ~NextTrade(b) /\ ~SelectOpposite(b) /\ ~MarkExecuted(b)
        /\ \A price \in Prices : ~StartSettlement(b, price)
    BY <1>2, <1>6 DEF NextTrade, SelectOpposite, MarkExecuted
  <2> QED BY <2>2, <2>3, <2>4, <2>5 DEF Settlement
<1>7. CASE \/ SelectMarks(b) \/ \E r \in p.selected : MarkPosition(b, r)
           \/ \E q \in p.todo : WriteTotal(b, q)
  BY <1>6, <1>7, Zenon DEF SelectMarks, MarkPosition, WriteTotal
<1> QED BY <1>2, <1>3, <1>4, <1>5, <1>7 DEF Settlement

LEMMA FillingHolds ==
  ASSUME TypeInv, NEW b \in Actors, Filling(b), actor'[b].op = "settle",
         actor'[b].trade # 0
  PROVE  Holding(b)
<1> DEFINE p == actor[b]
<1>1. /\ p \in Actor /\ p.op = "settle"
      /\ Legal(p, DOMAIN portfolios, DOMAIN positions, DOMAIN trades, DOMAIN channels)
  BY RunFacts, FillingShape
<1>2. p.pc \in {"close", "credit", "open"}
  BY Zenon DEF Filling, CloseRow, Credit, OpenPosition
<1>3. p.trade # 0
  BY <1>1, <1>2 DEF Legal, AtStep
<1>4. ASSUME NEW r \in p.selected, CloseRow(b, r)
      PROVE  Holding(b)
  <2>1. Set(b, Booking(p, r))
    BY <1>4, Zenon DEF CloseRow
  <2>2. actor'[b] = Booking(p, r)
    BY <2>1, SetFacts
  <2>3. LET x == Booking(p, r)
        IN /\ x.trade = p.trade /\ x.portfolio = r.row.portfolio /\ x.todo = p.todo
           /\ x.left = p.left - CloseQuantity(p, r.row) /\ x.pc = "credit"
    BY <1>1, BookingFields, SMTT(30)
  <2>4. r.row.portfolio = p.portfolio
    BY <1>1 DEF Legal, Keeps, RowsLegal
  <2> QED BY <1>1, <1>3, <1>4, <2>2, <2>3, <2>4 DEF Holding, InHand
<1>5. CASE Credit(b)
  <2> DEFINE y == NextRow(p)
  <2>1. Set(b, Continue(y))
    BY <1>5, Zenon DEF Credit
  <2>2. /\ y.trade = p.trade /\ y.portfolio = p.portfolio /\ y.todo = p.todo
        /\ y.left = p.left
    BY <1>1 DEF NextRow, Actor
  <2>3. y \in Actor /\ y.op = "settle"
    BY <1>1, OpsKept
  <2> HIDE DEF y
  <2>4. actor'[b] = Continue(y)
    BY <2>1, SetFacts
  <2>5. LET x == Continue(y)
        IN /\ x.trade = y.trade /\ x.portfolio = y.portfolio /\ x.todo = y.todo
           /\ x.left = y.left /\ (x.pc = "executed" => x.left = 0)
    BY <2>3, ContinueHolds
  <2> QED BY <1>1, <1>3, <1>5, <2>2, <2>4, <2>5 DEF Holding, InHand
<1>6. CASE OpenPosition(b)
  <2> DEFINE x == [p EXCEPT !.pc = "executed", !.left = 0]
  <2>1. Set(b, x)
    BY <1>1, <1>6 DEF OpenPosition
  <2>2. x.trade = p.trade /\ x.portfolio = p.portfolio /\ x.todo = p.todo /\ x.left = 0
    BY <1>1 DEF Actor
  <2>3. actor'[b] = x
    BY <2>1, SetFacts
  <2> QED BY <1>1, <1>3, <1>6, <2>2, <2>3 DEF Holding, InHand
<1> QED BY <1>4, <1>5, <1>6 DEF Filling

LEMMA Settlers ==
  ASSUME TypeInv, [Next]_vars, NEW b \in Actors, actor'[b].op = "settle", actor'[b].trade # 0
  PROVE  Taking(b) \/ Holding(b)
<1>1. actor'[b] = actor[b] => Holding(b)
  BY DEF Holding, InHand
<1>2. ASSUME NEW a \in Actors, Request(a) \/ Lifecycle(a)
      PROVE  Holding(b)
  BY <1>1, <1>2, RequestShape, LifecycleShape
<1>3. ASSUME NEW a \in Actors, Settlement(a)
      PROVE  Taking(b) \/ Holding(b)
  BY <1>1, <1>3, SettlementShape, SettlementHolds
<1>4. ASSUME NEW a \in Actors, Filling(a)
      PROVE  Holding(b)
  BY <1>1, <1>4, FillingShape, FillingHolds
<1>5. ASSUME NEW a \in Actors, Failing(a)
      PROVE  Holding(b)
  <2>1. CASE a # b
    BY <1>1, <1>5, <2>1, FailingShape
  <2>2. CASE a = b
    <3>1. actor[a] \in Actor /\ actor[a].op = "settle"
      BY <1>5, <2>2, RunFacts, FailingShape
    <3>2. actor[a].pc \in {"next", "opposite", "close", "credit", "open", "executed"}
      BY <3>1, RunFacts DEF Legal, StepsOf
    <3>3. StatementThrows(a) \/ StatementIgnored(a)
      BY <1>5, <3>1, <3>2 DEF Failing, RowIgnored, TotalIgnored, RankIgnored
    <3>4. Set(a, TradeOver(actor[a]))
      BY <3>1, <3>2, <3>3 DEF StatementThrows, StatementIgnored, Ignored
    <3>5. TradeOver(actor[a]).trade = 0
      BY DEF TradeOver, Idle
    <3> QED BY <2>2, <3>4, <3>5, SetFacts
  <2> QED BY <2>1, <2>2
<1>6. CASE Crash
  <2>1. actor'[b] = Idle
    BY <1>6, Zenon DEF Crash
  <2> QED BY <2>1, IdleFacts
<1>7. CASE archiveTournament \/ Tick \/ UNCHANGED vars
  BY <1>1, <1>7 DEF archiveTournament, Tick, vars
<1> QED BY <1>2, <1>3, <1>4, <1>5, <1>6, <1>7 DEF Next, Actors

-----------------------------------------------------------------------------
(* Trades are on the entry of their user *)

Ranked(q) == account[q].booked = {} => entry[portfolios[q].owner] = q

RankedNext(q) == account'[q].booked = {} => entry'[portfolios'[q].owner] = q

(* A portfolio is the entry of its user, or on the way to be. *)
Bound == \A q \in DOMAIN portfolios :
  portfolios[q].live =>
    \/ Ranked(q)
    \/ \E a \in Actors : Inserted(a) /\ actor[a].portfolio = q

RowsRanked ==
  /\ \A i \in DOMAIN positions : Ranked(positions[i].portfolio)
  /\ \A t \in DOMAIN trades : Ranked(trades[t].portfolio)

RequestsRanked == \A a \in Actors :
  actor[a].op \in {"queue", "destination"} => Ranked(actor[a].portfolio)

HandsAgree == \A a \in Actors : InHand(a) => actor[a].portfolio = trades[actor[a].trade].portfolio

TradersInv == Bound /\ RowsRanked /\ RequestsRanked /\ HandsAgree

LEMMA RankedStays ==
  ASSUME TypeInv, [Next]_vars, NEW q \in DOMAIN portfolios, Ranked(q)
  PROVE  RankedNext(q)
<1>1. /\ portfolios'[q].owner = portfolios[q].owner /\ portfolios[q].owner \in Users
      /\ account[q].booked \subseteq account'[q].booked
      /\ q # 0
  BY OwnersKept, BookedKept, AccountFields, Lengths DEF TypeInv
<1>2. KeptEntries
  BY EntriesKept
<1> QED BY <1>1, <1>2 DEF Ranked, RankedNext, KeptEntries

LEMMA LostOne ==
  ASSUME TypeInv, portfolios' = portfolios, NEW p \in DOMAIN portfolios, NEW b, NEW m,
         Lose({p}, b, m)
  PROVE  account'[p].booked = account[p].booked \cup b
<1>1. p \in DOMAIN account /\ account[p] \in Account
  BY Lengths DEF TypeInv
<1>2. account'[p] = [account[p] EXCEPT !.booked = @ \cup b, !.marked = @ \cup m]
  BY <1>1, Zenon DEF Lose
<1> QED BY <1>1, <1>2 DEF Account

LEMMA BoundStep ==
  ASSUME TypeInv, TypeInv', References, TradersInv, [Next]_vars
  PROVE  Bound'
<1> SUFFICES ASSUME NEW q \in DOMAIN portfolios', portfolios'[q].live
             PROVE  \/ RankedNext(q)
                    \/ \E a \in Actors : Inserted(a)' /\ actor'[a].portfolio = q
  BY DEF Bound, Ranked, RankedNext
<1>1. ASSUME NEW a \in Actors, Failing(a), NEW p \in DOMAIN portfolios,
             Inserted(a), actor[a].portfolio = p
      PROVE  "lost update" \in account'[p].booked
  <2>1. StatementThrows(a) \/ StatementIgnored(a)
    BY <1>1 DEF Failing, RowIgnored, TotalIgnored, RankIgnored, Inserted
  <2>2. portfolios' = portfolios
    BY <1>1, FailedBooks DEF rows
  <2>3. CASE StatementThrows(a)
    <3>1. actor[a].pc = "entry"
      BY <1>1, <2>3 DEF StatementThrows, Inserted
    <3>2. Blur(p, {"lost update"}, {})
      BY <1>1, <2>3, <3>1 DEF StatementThrows
    <3>3. account'[p].booked = account[p].booked \cup {"lost update"}
      BY <2>2, <3>2, BlurKeeps
    <3> QED BY <3>3
  <2>4. CASE StatementIgnored(a)
    <3>1. actor[a].pc = "cleanup"
      BY <1>1, <2>4 DEF StatementIgnored, Inserted
    <3>2. Lose({p}, {"lost update"}, {"lost update"})
      BY <1>1, <2>4, <3>1 DEF StatementIgnored, Missed
    <3>3. account'[p].booked = account[p].booked \cup {"lost update"}
      BY <2>2, <3>2, LostOne
    <3> QED BY <3>3
  <2> QED BY <2>1, <2>3, <2>4
<1>2. CASE \E a \in Actors : CreatePortfolio(a) /\ q = Len(portfolios) + 1
  <2>1. PICK a \in Actors : CreatePortfolio(a) /\ q = Len(portfolios) + 1
    BY <1>2
  <2>2. actor'[a] = [actor[a] EXCEPT !.pc = "entry", !.portfolio = q] /\ actor[a] \in Actor
    BY <2>1, InsertedRows, RunFacts
  <2>3. Inserted(a)' /\ actor'[a].portfolio = q
    BY <2>2 DEF Inserted, Actor
  <2> QED BY <2>3
<1>3. CASE q \in DOMAIN portfolios
  <2>1. CASE Ranked(q)
    BY <1>3, <2>1, RankedStays
  <2>2. ASSUME NEW a \in Actors, DeletePortfolio(a), actor[a].portfolio = q
        PROVE  RankedNext(q)
    <3>1. /\ portfolios'[q].live = (\/ \E t \in DOMAIN trades : trades[t].portfolio = q
                                    \/ \E i \in DOMAIN positions : positions[i].portfolio = q)
      BY <2>2, CleanedRows
    <3>2. Ranked(q)
      BY <3>1 DEF TradersInv, RowsRanked
    <3> QED BY <1>3, <3>2, RankedStays
  <2>3. CASE portfolios'[q].live = portfolios[q].live /\ ~Ranked(q)
    <3>1. PICK a \in Actors : Inserted(a) /\ actor[a].portfolio = q
      BY <1>3, <2>3 DEF TradersInv, Bound
    <3>2. CASE actor'[a] = actor[a]
      BY <3>1, <3>2 DEF Inserted
    <3>3. CASE CreateEntry(a)
      <4>1. /\ portfolios[q].owner = actor[a].user
            /\ UNCHANGED <<portfolios, account>>
        BY <3>1, <3>3 DEF References, InsertedRefer, CreateEntry
      <4>2. actor[a].user \in Users
        BY <1>3, <4>1, AccountFields DEF TypeInv
      <4>3. \/ entry' = [entry EXCEPT ![actor[a].user] = q]
            \/ Set(a, [actor[a] EXCEPT !.pc = "cleanup"])
        BY <3>1, <3>3 DEF CreateEntry
      <4>4. CASE entry' = [entry EXCEPT ![actor[a].user] = q]
        BY <4>1, <4>2, <4>4 DEF RankedNext, TypeInv, Tables
      <4>5. CASE Set(a, [actor[a] EXCEPT !.pc = "cleanup"])
        <5>1. actor'[a] = [actor[a] EXCEPT !.pc = "cleanup"] /\ actor[a] \in Actor
          BY <4>5, SetFacts, RunFacts
        <5>2. Inserted(a)' /\ actor'[a].portfolio = q
          BY <3>1, <5>1 DEF Inserted, Actor
        <5> QED BY <5>2
      <4> QED BY <4>3, <4>4, <4>5
    <3>4. CASE Failing(a)
      <4>1. "lost update" \in account'[q].booked
        BY <1>1, <1>3, <3>1, <3>4
      <4> QED BY <4>1 DEF RankedNext
    <3>5. CASE Crash
      <4>1. "lost update" \in account'[q].booked
        BY <1>3, <3>1, <3>5, CrashBooks DEF Inserted
      <4> QED BY <4>1, Zenon DEF RankedNext
    <3>6. CASE DeletePortfolio(a)
      BY <2>2, <3>1, <3>6
    <3>7. actor[a].pc \in {"entry", "cleanup"} /\ actor[a].op = "enter"
      BY <3>1, RunFacts, StepOps DEF Inserted
    <3>8. \/ actor'[a] = actor[a] \/ CreateEntry(a) \/ Failing(a) \/ Crash \/ DeletePortfolio(a)
      <4>1. ASSUME NEW b \in Actors, Request(b) \/ Settlement(b) \/ Lifecycle(b) \/ Filling(b)
                                     \/ Failing(b)
            PROVE  actor'[a] = actor[a] \/ b = a
        BY <4>1, RequestShape, SettlementShape, LifecycleShape, FillingShape, FailingShape
      <4>2. ~Settlement(a)
        <5>1. ~\E price \in Prices : StartSettlement(a, price)
          BY <3>7, IdleFacts, Zenon DEF StartSettlement, MayStart
        <5> QED BY <3>7, <5>1, Zenon DEF Settlement, NextTrade, SelectOpposite, MarkExecuted,
                                 SelectMarks, MarkPosition, WriteTotal
      <4>3. ~Lifecycle(a)
        BY <3>7, IdleFacts DEF Lifecycle, StartActivation, Activate, CreateChannel, AttachChannel,
                    ReadEntries, AddMember, StartCompletion, SelectOpen, CancelQueued, ReadBoard,
                    WriteRank, SetCompleted, ArchiveChannel
      <4>4. ~Filling(a)
        BY <3>7, Zenon DEF Filling, CloseRow, Credit, OpenPosition
      <4>5. Request(a) => CreateEntry(a) \/ DeletePortfolio(a)
        BY <3>7, IdleFacts, Zenon DEF Request, enterTournament, CreatePortfolio, StartTrade, MayStart,
                    Enqueue, Charge, closePosition
      <4>6. archiveTournament \/ Tick \/ UNCHANGED vars => actor' = actor
        BY DEF archiveTournament, Tick, vars
      <4> QED BY <4>1, <4>2, <4>3, <4>4, <4>5, <4>6 DEF Next, Actors
    <3> QED BY <3>2, <3>3, <3>4, <3>5, <3>6, <3>8
  <2> QED BY <1>3, <2>1, <2>2, <2>3, OwnersKept
<1>4. q \in DOMAIN portfolios \/ \E a \in Actors : CreatePortfolio(a) /\ q = Len(portfolios) + 1
  <2>1. \A a \in Actors : CreatePortfolio(a) =>
          DOMAIN portfolios' = DOMAIN portfolios \cup {Len(portfolios) + 1}
    BY InsertedRows, Zenon
  <2>2. \A a \in Actors : DeletePortfolio(a) => DOMAIN portfolios' = DOMAIN portfolios
    BY CleanedRows
  <2>3. \A a \in Actors : Charge(a) => DOMAIN portfolios' = DOMAIN portfolios
    BY ChargedRows
  <2>4. \A a \in Actors : Credit(a) => DOMAIN portfolios' = DOMAIN portfolios
    <3>1. \A a \in Actors : Credit(a) => \E x, y : portfolios' = [portfolios EXCEPT ![x] = y]
      BY CreditedRows
    <3> QED BY <3>1
  <2>5. \A a \in Actors : \A p \in actor[a].todo :
          WriteTotal(a, p) => DOMAIN portfolios' = DOMAIN portfolios
    BY TotalledRows
  <2> QED BY <2>1, <2>2, <2>3, <2>4, <2>5, WhichStep
<1> QED BY <1>2, <1>3, <1>4

LEMMA HandsStep ==
  ASSUME TypeInv, TradersInv, [Next]_vars
  PROVE  HandsAgree'
<1> SUFFICES ASSUME NEW b \in Actors, InHand(b)'
             PROVE  actor'[b].portfolio = trades'[actor'[b].trade].portfolio
  BY DEF HandsAgree
<1>1. actor'[b].op = "settle" /\ actor'[b].trade # 0
  BY DEF InHand
<1>2. actor[b] \in Actor /\ Legal(actor[b], DOMAIN portfolios, DOMAIN positions, DOMAIN trades,
                                 DOMAIN channels)
  BY RunFacts
<1>3. KeptTrades
  BY TradesKept
<1>4. CASE Taking(b)
  <2>1. PICK t \in actor[b].todo :
          NextTrade(b) /\ actor[b].pc = "next" /\ actor'[b] = Taken(actor[b], t)
    BY <1>4 DEF Taking
  <2>2. actor[b].op = "settle"
    BY <1>2, <2>1, StepOps
  <2>3. t \in DOMAIN trades
    BY <1>2, <2>2 DEF Legal, Keeps, TodoLegal
  <2>4. actor'[b].portfolio = trades[t].portfolio /\ actor'[b].trade = t
    BY <1>2, <2>1 DEF Taken, Actor
  <2> QED BY <1>3, <2>3, <2>4 DEF KeptTrades
<1>5. CASE Holding(b)
  <2>1. /\ InHand(b) /\ actor'[b].trade = actor[b].trade
        /\ actor'[b].portfolio = actor[b].portfolio
    BY <1>5 DEF Holding
  <2>2. actor[b].trade \in DOMAIN trades
    BY <1>2, <2>1 DEF InHand, Legal, Keeps
  <2> QED BY <1>3, <2>1, <2>2 DEF TradersInv, HandsAgree, KeptTrades
<1> QED BY <1>1, <1>4, <1>5, Settlers

LEMMA RequestsStep ==
  ASSUME TypeInv, References, TradersInv, [Next]_vars
  PROVE  RequestsRanked'
<1> SUFFICES ASSUME NEW b \in Actors, actor'[b].op \in {"queue", "destination"}
             PROVE  RankedNext(actor'[b].portfolio)
  BY DEF RequestsRanked, Ranked, RankedNext
<1>1. CASE Trading(b)
  <2>1. PICK u \in Users, call \in Calls \ {"close"}, direction \in Directions,
             quantity \in Quantities, price \in Prices :
               StartTrade(b, u, call, direction, quantity, price)
    BY <1>1 DEF Trading
  <2>2. /\ SameEarnings /\ UNCHANGED <<portfolios, entry, positions, trades>>
        /\ \E q \in DOMAIN portfolios :
              /\ portfolios[q].live /\ actor'[b].portfolio = q
              /\ account'[q].booked = {} => \A a \in Actors : ~Entering(a, q)
    BY <2>1, TradedAccount
  <2>3. PICK q \in DOMAIN portfolios :
              /\ portfolios[q].live /\ actor'[b].portfolio = q
              /\ account'[q].booked = {} => \A a \in Actors : ~Entering(a, q)
    BY <2>2
  <2>4. CASE account'[q].booked = {}
    <3>1. \A a \in Actors : ~(Inserted(a) /\ actor[a].portfolio = q)
      BY <2>3, <2>4 DEF Entering, Inserted
    <3>2. Ranked(q)
      BY <2>3, <3>1 DEF TradersInv, Bound
    <3> QED BY <2>3, <3>2, RankedStays
  <2>5. CASE account'[q].booked # {}
    BY <2>3, <2>5 DEF RankedNext
  <2> QED BY <2>4, <2>5
<1>2. CASE actor[b].op = actor'[b].op /\ actor[b].portfolio = actor'[b].portfolio
  <2>1. actor[b].portfolio \in DOMAIN portfolios
    BY <1>2, RunFacts DEF Legal, Keeps
  <2>2. Ranked(actor[b].portfolio)
    BY <1>2 DEF TradersInv, RequestsRanked
  <2> QED BY <1>2, <2>1, <2>2, RankedStays
<1> QED BY <1>1, <1>2, Traders

LEMMA RowsStep ==
  ASSUME TypeInv, TradersInv, [Next]_vars
  PROVE  RowsRanked'
<1>1. ASSUME NEW i \in DOMAIN positions'
      PROVE  RankedNext(positions'[i].portfolio)
  <2>1. CASE i \in DOMAIN positions
    <3>1. positions'[i].portfolio = positions[i].portfolio
      BY <2>1, PositionsKept DEF KeptPositions
    <3>2. positions[i].portfolio \in DOMAIN portfolios /\ Ranked(positions[i].portfolio)
      BY <2>1 DEF TradersInv, RowsRanked, TypeInv, Tables
    <3> QED BY <3>1, <3>2, RankedStays
  <2>2. CASE i \notin DOMAIN positions
    <3>1. PICK a \in Actors : OpenPosition(a) /\ positions'[i].portfolio = actor[a].portfolio
      BY <2>2, PositionsKept
    <3>2. actor[a].portfolio \in DOMAIN portfolios
      BY <3>1, OpenedRows
    <3>3. actor[a].pc = "open" /\ actor[a] \in Actor
          /\ Legal(actor[a], DOMAIN portfolios, DOMAIN positions, DOMAIN trades, DOMAIN channels)
      BY <3>1, RunFacts DEF OpenPosition
    <3>4. actor[a].op = "destination" \/ InHand(a)
      BY <3>3, StepOps DEF Legal, AtStep, InHand
    <3>5. Ranked(actor[a].portfolio)
      <4>1. CASE actor[a].op = "destination"
        BY <4>1 DEF TradersInv, RequestsRanked
      <4>2. CASE InHand(a)
        <5>1. actor[a].trade \in DOMAIN trades
          BY <3>3, <4>2 DEF InHand, Legal, Keeps
        <5> QED BY <4>2, <5>1 DEF TradersInv, HandsAgree, RowsRanked
      <4> QED BY <3>4, <4>1, <4>2
    <3> QED BY <3>1, <3>2, <3>5, RankedStays
  <2> QED BY <2>1, <2>2
<1>2. ASSUME NEW t \in DOMAIN trades'
      PROVE  RankedNext(trades'[t].portfolio)
  <2>1. CASE t \in DOMAIN trades
    <3>1. trades'[t].portfolio = trades[t].portfolio
      BY <2>1, TradesKept DEF KeptTrades
    <3>2. trades[t].portfolio \in DOMAIN portfolios /\ Ranked(trades[t].portfolio)
      BY <2>1 DEF TradersInv, RowsRanked, TypeInv, Tables
    <3> QED BY <3>1, <3>2, RankedStays
  <2>2. CASE t \notin DOMAIN trades
    <3>1. PICK a \in Actors : Enqueue(a) /\ trades'[t].portfolio = actor[a].portfolio
      BY <2>2, TradesKept
    <3>2. actor[a].portfolio \in DOMAIN portfolios /\ actor[a].pc = "enqueue"
      BY <3>1, EnqueuedRows
    <3>3. actor[a].op = "queue"
      BY <3>2, RunFacts, StepOps
    <3>4. Ranked(actor[a].portfolio)
      BY <3>3 DEF TradersInv, RequestsRanked
    <3> QED BY <3>1, <3>2, <3>4, RankedStays
  <2> QED BY <2>1, <2>2
<1> QED BY <1>1, <1>2 DEF RowsRanked, Ranked, RankedNext

(* However entering, trading and clean-ups interleave, a user's trades and
   positions are on the portfolio that is the user's entry, unless entering
   failed half way, or the user traded while entering.                    *)
THEOREM TradedIsRanked == Spec => []EntrantsTradeTheirEntry
<1>1. Init => TradersInv
  <2> SUFFICES ASSUME Init PROVE TradersInv
    OBVIOUS
  <2>1. portfolios = <<>> /\ positions = <<>> /\ trades = <<>> /\ \A a \in Actors : actor[a] = Idle
    BY DEF Init
  <2> QED BY <2>1, IdleFacts DEF TradersInv, Bound, RowsRanked, RequestsRanked, HandsAgree, InHand
<1>2. TypeInv /\ TypeInv' /\ References /\ TradersInv /\ [Next]_vars => TradersInv'
  BY BoundStep, RowsStep, RequestsStep, HandsStep DEF TradersInv
<1>3. TradersInv => EntrantsTradeTheirEntry
  BY DEF TradersInv, RowsRanked, Ranked, EntrantsTradeTheirEntry
<1> QED BY <1>1, <1>2, <1>3, ReferencesHold, PTL DEF Spec

-----------------------------------------------------------------------------
(* Trades are filled exactly *)

(* What a step does to a settlement that has, or takes up, trades to fill. *)
SettlerMoves(b) ==
  \/ actor'[b] = actor[b]
  \/ actor[b].op # "settle" /\ actor'[b].op # "settle"
  \/ \E price \in Prices : StartSettlement(b, price)
  \/ Taking(b)
  \/ /\ actor[b].op = "settle" /\ actor'[b].op = "settle"
     /\ actor'[b].todo = actor[b].todo /\ actor'[b].trade = actor[b].trade
  \/ /\ actor[b].op = "settle" /\ actor'[b] = TradeOver(actor[b])
     /\ MarkExecuted(b) \/ Failure
  \/ actor[b].trade = 0 /\ actor'[b].op # "settle"
  \/ Failure /\ actor'[b] = Idle

LEMMA SettlementMoves ==
  ASSUME TypeInv, NEW b \in Actors, Settlement(b)
  PROVE  SettlerMoves(b)
<1> DEFINE p == actor[b]
<1>1. p \in Actor /\ Legal(p, DOMAIN portfolios, DOMAIN positions, DOMAIN trades, DOMAIN channels)
  BY RunFacts
<1>2. CASE NextTrade(b)
  <2>1. p.pc = "next"
    BY <1>2 DEF NextTrade
  <2>2. p.op = "settle" /\ p.trade = 0
    BY <1>1, <2>1, StepOps DEF Legal, AtStep
  <2>3. Set(b, [p EXCEPT !.op = "mark", !.pc = "positions"])
        \/ \E t \in p.todo : Set(b, Taken(p, t))
    BY <1>2 DEF NextTrade
  <2>4. [p EXCEPT !.op = "mark", !.pc = "positions"].op = "mark"
    BY <1>1 DEF Actor
  <2> QED BY <1>2, <2>1, <2>2, <2>3, <2>4, SetFacts DEF SettlerMoves, Taking
<1>3. CASE SelectOpposite(b)
  <2> DEFINE s == Select({i \in OpenOf(p.portfolio) :
                            positions[i].direction = Opposite(p.direction)})
             y == [p EXCEPT !.selected = s]
  <2>1. Set(b, Continue(y)) /\ p.pc = "opposite"
    BY <1>3 DEF SelectOpposite
  <2>2. p.op = "settle"
    BY <1>1, <2>1, StepOps
  <2>3. y \in Actor
    <3>1. {i \in OpenOf(p.portfolio) : positions[i].direction = Opposite(p.direction)}
             \subseteq OpenPositions
      BY DEF OpenOf
    <3>2. s \in SUBSET Selected
      BY <3>1, SelectFacts DEF TypeInv
    <3> HIDE DEF s
    <3> QED BY <1>1, <3>2 DEF Actor
  <2> HIDE DEF s
  <2>4. y.trade = p.trade /\ y.todo = p.todo /\ y.op = "settle"
    BY <1>1, <2>2 DEF Actor
  <2> HIDE DEF y
  <2>5. actor'[b] = Continue(y)
    BY <2>1, SetFacts
  <2>6. LET x == Continue(y) IN x.trade = y.trade /\ x.todo = y.todo /\ x.op = "settle"
    BY <2>3, <2>4, ContinueHolds
  <2> QED BY <2>2, <2>4, <2>5, <2>6 DEF SettlerMoves
<1>4. CASE MarkExecuted(b)
  <2>1. Set(b, TradeOver(p)) /\ p.pc = "executed"
    BY <1>4 DEF MarkExecuted
  <2>2. p.op = "settle"
    BY <1>1, <2>1, StepOps
  <2> QED BY <1>4, <2>1, <2>2, SetFacts DEF SettlerMoves
<1>5. CASE \/ SelectMarks(b) \/ \E r \in p.selected : MarkPosition(b, r)
           \/ \E q \in p.todo : WriteTotal(b, q)
  <2>1. p.pc \in {"positions", "mark", "total"}
    BY <1>5, Zenon DEF SelectMarks, MarkPosition, WriteTotal
  <2>2. p.op = "mark" /\ p.trade = 0
    BY <1>1, <2>1, StepOps DEF Legal, Keeps
  <2>3. ~(actor'[b].op = "settle")
    <3>1. CASE SelectMarks(b)
      <4>1. PICK s, o, f : Set(b, Idle)
              \/ Set(b, [p EXCEPT !.pc = "mark", !.selected = s, !.todo = o, !.totals = f])
        BY <3>1, Zenon DEF SelectMarks
      <4>2. [p EXCEPT !.pc = "mark", !.selected = s, !.todo = o, !.totals = f].op = "mark"
        BY <1>1, <2>2 DEF Actor
      <4> QED BY <4>1, <4>2, IdleFacts, SetFacts
    <3>2. ASSUME NEW r \in p.selected, MarkPosition(b, r)
          PROVE  actor'[b].op = "mark"
      <4>1. Set(b, NextMark(p, r))
        BY <3>2 DEF MarkPosition
      <4>2. NextMark(p, r).op = "mark"
        BY <1>1, <2>2 DEF NextMark, Actor
      <4> QED BY <4>1, <4>2, SetFacts
    <3>3. ASSUME NEW q \in p.todo, WriteTotal(b, q)
          PROVE  actor'[b].op \in {"mark", "idle"}
      <4>1. Set(b, NextTotal(p, q)) /\ NextTotal(p, q).op \in {"mark", "idle"}
        BY <1>1, <2>2, <3>3, OpsKept, Zenon DEF WriteTotal
      <4> QED BY <4>1, SetFacts
    <3> QED BY <1>5, <3>1, <3>2, <3>3
  <2> QED BY <2>2, <2>3 DEF SettlerMoves
<1>6. CASE \E price \in Prices : StartSettlement(b, price)
  BY <1>6 DEF SettlerMoves
<1> QED BY <1>2, <1>3, <1>4, <1>5, <1>6 DEF Settlement

LEMMA FillingMoves ==
  ASSUME TypeInv, NEW b \in Actors, Filling(b), actor[b].op = "settle"
  PROVE  /\ actor'[b].op = "settle"
         /\ actor'[b].todo = actor[b].todo /\ actor'[b].trade = actor[b].trade
<1> DEFINE p == actor[b]
<1>1. p \in Actor /\ p.op = "settle"
  BY RunFacts
<1>2. ASSUME NEW r \in p.selected, CloseRow(b, r)
      PROVE  actor'[b].op = "settle" /\ actor'[b].todo = p.todo /\ actor'[b].trade = p.trade
  <2>1. actor'[b] = Booking(p, r)
    BY <1>2, SetFacts, Zenon DEF CloseRow
  <2>2. LET x == Booking(p, r) IN x.trade = p.trade /\ x.todo = p.todo /\ x.op = p.op
    BY <1>1, BookingFields
  <2> QED BY <1>1, <2>1, <2>2
<1>3. CASE Credit(b)
  <2> DEFINE y == NextRow(p)
  <2>1. Set(b, Continue(y))
    BY <1>3, Zenon DEF Credit
  <2>2. y.trade = p.trade /\ y.todo = p.todo
    BY <1>1 DEF NextRow, Actor
  <2>3. y \in Actor /\ y.op = "settle"
    BY <1>1, OpsKept
  <2> HIDE DEF y
  <2>4. actor'[b] = Continue(y)
    BY <2>1, SetFacts
  <2>5. LET x == Continue(y) IN x.trade = y.trade /\ x.todo = y.todo /\ x.op = "settle"
    BY <2>3, ContinueHolds
  <2> QED BY <2>2, <2>4, <2>5, Zenon
<1>4. CASE OpenPosition(b)
  <2> DEFINE x == [p EXCEPT !.pc = "executed", !.left = 0]
  <2>1. Set(b, x)
    BY <1>1, <1>4 DEF OpenPosition
  <2>2. x.trade = p.trade /\ x.todo = p.todo /\ x.op = "settle"
    BY <1>1 DEF Actor
  <2>3. actor'[b] = x
    BY <2>1, SetFacts
  <2> QED BY <2>2, <2>3
<1> QED BY <1>2, <1>3, <1>4 DEF Filling

LEMMA Movers ==
  ASSUME TypeInv, [Next]_vars, NEW b \in Actors
  PROVE  SettlerMoves(b)
<1>1. ASSUME NEW a \in Actors, a # b,
             Request(a) \/ Settlement(a) \/ Lifecycle(a) \/ Filling(a) \/ Failing(a)
      PROVE  actor'[b] = actor[b]
  BY <1>1, RequestShape, SettlementShape, LifecycleShape, FillingShape, FailingShape
<1>2. ASSUME Request(b) \/ Lifecycle(b)
      PROVE  actor[b].op # "settle" /\ actor'[b].op # "settle"
  <2>1. actor'[b].op # "settle"
    BY <1>2, RequestShape, LifecycleShape
  <2>2. actor[b].op # "settle"
    <3>1. SUFFICES ASSUME actor[b].op = "settle" PROVE FALSE
      OBVIOUS
    <3>2. actor[b].pc \in {"next", "opposite", "close", "credit", "open", "executed"}
      BY <3>1, RunFacts DEF Legal, StepsOf
    <3>3. ~Request(b)
      BY <3>1, <3>2, IdleFacts, Zenon DEF Request, enterTournament, CreatePortfolio, CreateEntry,
            DeletePortfolio, StartTrade, MayStart, Enqueue, Charge, closePosition
    <3>4. ~Lifecycle(b)
      BY <3>1, <3>2, IdleFacts DEF Lifecycle, StartActivation, Activate, CreateChannel,
            AttachChannel, ReadEntries, AddMember, StartCompletion, SelectOpen, CancelQueued,
            ReadBoard, WriteRank, SetCompleted, ArchiveChannel
    <3> QED BY <1>2, <3>3, <3>4
  <2> QED BY <2>1, <2>2
<1>3. ASSUME Filling(b)
      PROVE  SettlerMoves(b)
  BY <1>3, FillingMoves, FillingShape DEF SettlerMoves
<1>4. ASSUME Failing(b)
      PROVE  SettlerMoves(b)
  <2>1. CASE actor[b].op # "settle"
    BY <1>4, <2>1, FailingShape DEF SettlerMoves
  <2>2. CASE actor[b].op = "settle"
    <3>1. actor[b] \in Actor /\ Failure
      BY <1>4, RunFacts, FailedBooks
    <3>2. actor[b].pc \in {"next", "opposite", "close", "credit", "open", "executed"}
      BY <2>2, RunFacts DEF Legal, StepsOf
    <3>3. StatementThrows(b) \/ StatementIgnored(b)
      BY <1>4, <2>2, <3>2 DEF Failing, RowIgnored, TotalIgnored, RankIgnored
    <3>4. Set(b, TradeOver(actor[b]))
      BY <2>2, <3>2, <3>3 DEF StatementThrows, StatementIgnored, Ignored
    <3> QED BY <2>2, <3>1, <3>4, SetFacts DEF SettlerMoves
  <2> QED BY <2>1, <2>2
<1>5. CASE Crash
  BY <1>5, CrashBooks DEF SettlerMoves
<1>6. CASE archiveTournament \/ Tick \/ UNCHANGED vars
  BY <1>6 DEF archiveTournament, Tick, vars, SettlerMoves
<1>7. ASSUME Request(b) \/ Lifecycle(b) \/ Settlement(b) \/ Filling(b) \/ Failing(b)
      PROVE  SettlerMoves(b)
  BY <1>2, <1>3, <1>4, <1>7, SettlementMoves DEF SettlerMoves
<1>8. ASSUME NEW a \in Actors,
             Request(a) \/ Settlement(a) \/ Lifecycle(a) \/ Filling(a) \/ Failing(a)
      PROVE  SettlerMoves(b)
  BY <1>1, <1>7, <1>8 DEF SettlerMoves
<1> QED BY <1>5, <1>6, <1>8 DEF Next, Actors

(* What closing a row, and opening what is left, fill. *)
LEMMA Fills ==
  ASSUME TypeInv, NEW b \in Actors, NEW n,
         \/ OpenPosition(b) /\ n = actor[b].left
         \/ \E r \in actor[b].selected : CloseRow(b, r) /\ n = CloseQuantity(actor[b], r.row)
  PROVE  /\ n \in Nat /\ DOMAIN trades' = DOMAIN trades
         /\ \A s \in DOMAIN trades :
              /\ trades'[s].status = trades[s].status
              /\ trades'[s].quantity = trades[s].quantity
              /\ trades'[s].filled = trades[s].filled + IF s = actor[b].trade THEN n ELSE 0
         /\ actor'[b] # actor[b]
         /\ actor[b].trade # 0 => InHand(b)
<1> DEFINE p == actor[b]
<1>1. /\ p \in Actor /\ Legal(p, DOMAIN portfolios, DOMAIN positions, DOMAIN trades, DOMAIN channels)
      /\ p.trade \in DOMAIN trades \cup {0}
      /\ p.trade # 0 => InHand(b)
  BY RunFacts DEF Legal, Keeps, InHand
<1>2. CASE OpenPosition(b) /\ n = p.left
  <2>1. n \in Nat /\ trades' = Filled(p.trade, n)
    BY <1>1, <1>2, OpenedRows, Zenon DEF OpenPosition
  <2>2. actor'[b] # p
    <3> DEFINE x == [p EXCEPT !.pc = "executed", !.left = 0]
               y == [p EXCEPT !.pc = "charge"]
    <3>1. p.pc = "open" /\ (Set(b, x) \/ Set(b, y) \/ Set(b, Idle))
      BY <1>2 DEF OpenPosition
    <3>2. x.pc = "executed" /\ y.pc = "charge"
      <4> HIDE DEF p
      <4> QED BY <1>1, Fields
    <3>3. actor'[b] = x \/ actor'[b] = y \/ actor'[b] = Idle
      BY <3>1, SetFacts
    <3> HIDE DEF x, y
    <3> QED BY <3>1, <3>2, <3>3, IdleFacts
  <2>3. Tables
    BY DEF TypeInv
  <2>4. /\ DOMAIN trades' = DOMAIN trades
        /\ \A s \in DOMAIN trades :
             /\ trades'[s].status = trades[s].status
             /\ trades'[s].quantity = trades[s].quantity
             /\ trades'[s].filled = trades[s].filled + IF s = p.trade THEN n ELSE 0
    BY <1>1, <2>1, <2>3, FilledType
  <2> QED BY <1>1, <2>1, <2>2, <2>4
<1>3. ASSUME NEW r \in p.selected, CloseRow(b, r), n = CloseQuantity(p, r.row)
      PROVE  n \in Nat /\ trades' = Filled(p.trade, n) /\ actor'[b] # p
  <2>1. p.pc = "close" /\ trades' = Filled(p.trade, n) /\ Set(b, Booking(p, r))
    BY <1>3, Zenon DEF CloseRow
  <2>2. n \in Nat
    BY <1>1, <1>3, <2>1, CloseQuantityType
  <2>3. Booking(p, r).pc = "credit"
    BY <1>1, BookingFields
  <2> QED BY <2>1, <2>2, <2>3, SetFacts
<1>4. CASE \E r \in p.selected : CloseRow(b, r) /\ n = CloseQuantity(p, r.row)
  <2>1. n \in Nat /\ trades' = Filled(p.trade, n) /\ actor'[b] # p
    BY <1>3, <1>4
  <2> QED BY <1>1, <2>1, FilledType DEF TypeInv
<1> QED BY <1>2, <1>4

(* What a step does to a trade. *)
LEMMA TradeChanges ==
  ASSUME TypeInv, [Next]_vars, NEW t \in DOMAIN trades
  PROVE  \/ /\ trades'[t].filled = trades[t].filled
            /\ \/ trades'[t].status = trades[t].status
               \/ trades[t].status = "queued" /\ trades'[t].status = "cancelled"
         \/ /\ trades'[t].filled = trades[t].filled
            /\ trades'[t].status = "executed"
            /\ \E c \in Actors : MarkExecuted(c) /\ actor[c].trade = t
         \/ /\ trades'[t].status = trades[t].status
            /\ \E c \in Actors : InHand(c) /\ actor[c].trade = t /\ actor'[c] # actor[c]
<1>1. CASE trades' = trades
  BY <1>1
<1>2. ASSUME NEW a \in Actors, Enqueue(a)
      PROVE  trades'[t] = trades[t]
  BY <1>2, EnqueuedRows
<1>3. ASSUME NEW a \in Actors, MarkExecuted(a)
      PROVE  \/ trades'[t] = trades[t]
             \/ trades'[t].filled = trades[t].filled /\ trades'[t].status = "executed"
                /\ actor[a].trade = t
  BY <1>3, ExecutedRows
<1>4. ASSUME NEW a \in Actors, CancelQueued(a)
      PROVE  /\ trades'[t].filled = trades[t].filled
             /\ \/ trades'[t].status = trades[t].status
                \/ trades[t].status = "queued" /\ trades'[t].status = "cancelled"
  BY <1>4, CancelledRows
<1>5. ASSUME NEW a \in Actors, NEW n,
             \/ OpenPosition(a) /\ n = actor[a].left
             \/ \E r \in actor[a].selected : CloseRow(a, r) /\ n = CloseQuantity(actor[a], r.row)
      PROVE  /\ trades'[t].status = trades[t].status
             /\ \/ trades'[t].filled = trades[t].filled
                \/ InHand(a) /\ actor[a].trade = t /\ actor'[a] # actor[a]
  <2>1. /\ n \in Nat
        /\ trades'[t].status = trades[t].status
        /\ trades'[t].filled = trades[t].filled + IF t = actor[a].trade THEN n ELSE 0
        /\ actor'[a] # actor[a]
        /\ actor[a].trade # 0 => InHand(a)
    BY <1>5, Fills
  <2>2. trades[t].filled \in Nat /\ t # 0
    BY Lengths DEF TypeInv, Trade
  <2> QED BY <2>1, <2>2
<1>6. ASSUME NEW a \in Actors, OpenPosition(a)
      PROVE  /\ trades'[t].status = trades[t].status
             /\ \/ trades'[t].filled = trades[t].filled
                \/ InHand(a) /\ actor[a].trade = t /\ actor'[a] # actor[a]
  BY <1>5, <1>6
<1>7. ASSUME NEW a \in Actors, NEW r \in actor[a].selected, CloseRow(a, r)
      PROVE  /\ trades'[t].status = trades[t].status
             /\ \/ trades'[t].filled = trades[t].filled
                \/ InHand(a) /\ actor[a].trade = t /\ actor'[a] # actor[a]
  BY <1>5, <1>7
<1> QED BY <1>1, <1>2, <1>3, <1>4, <1>6, <1>7, WhichStep

OneSettlement == \A a, b \in Settlements : a = b

(* What is left of the trade in hand is what it still has to be filled with. *)
HandsFilled == \A b \in Actors : InHand(b) =>
  LET t == trades[actor[b].trade]
  IN /\ t.filled + actor[b].left >= t.quantity
     /\ spent.failures = 0 => t.filled + actor[b].left = t.quantity
     /\ actor[b].pc = "executed" => actor[b].left = 0

ExecutedFilled == \A t \in DOMAIN trades :
  trades[t].status = "executed" => trades[t].filled >= trades[t].quantity

(* A trade is in hand, or not begun, or filled. *)
TradesBegun == \A t \in DOMAIN trades :
  \/ \E b \in Actors : InHand(b) /\ actor[b].trade = t
  \/ trades[t].status # "executed" /\ trades[t].filled = 0
  \/ trades[t].status = "executed" /\ trades[t].filled = trades[t].quantity

TodoUnfilled == \A b \in Actors : actor[b].op = "settle" =>
  \A t \in actor[b].todo :
    trades[t].filled = 0 /\ trades[t].status # "executed" /\ t # actor[b].trade

FillInv == /\ HandsFilled /\ ExecutedFilled
           /\ spent.failures = 0 => TradesBegun /\ TodoUnfilled

LEMMA OneHand ==
  ASSUME TypeInv, Roles, OneSettlement, NEW a \in Actors, NEW b \in Actors,
         actor[a].op = "settle", actor[b].op = "settle"
  PROVE  a = b
BY DEF Roles, RoleOps, OneSettlement, Actors

LEMMA NoFailure ==
  ASSUME TypeInv, [Next]_vars, spent.failures' = 0
  PROVE  spent.failures = 0 /\ ~Failure
<1>1. ~Failure
  BY FailureCounts
<1>2. spent.failures = 0
  <2>1. spent \in [starts : 0..MaxStarts, failures : 0..MaxFailures]
    BY DEF TypeInv, Tables
  <2>2. Start \/ spent' = spent
    <3>1. ASSUME NEW a \in Actors, Request(a) \/ Settlement(a)
          PROVE  Start \/ spent' = spent
      BY <3>1, Zenon DEF Request, Settlement, enterTournament, CreatePortfolio, CreateEntry,
            DeletePortfolio, StartTrade, MayStart, Enqueue, Charge, closePosition,
            StartSettlement, NextTrade, SelectOpposite, MarkExecuted, SelectMarks,
            MarkPosition, WriteTotal
    <3>2. ASSUME NEW a \in Actors, Lifecycle(a)
          PROVE  spent' = spent
      BY <3>2, LifecycleSpends
    <3>3. ASSUME NEW a \in Actors, Filling(a)
          PROVE  spent' = spent
      BY <3>3, Zenon DEF Filling, CloseRow, Credit, OpenPosition
    <3>4. ASSUME NEW a \in Actors, Failing(a)
          PROVE  FALSE
      BY <1>1, <3>4, FailedBooks
    <3>5. ~Crash
      BY <1>1, Zenon DEF Crash
    <3>6. archiveTournament \/ Tick \/ UNCHANGED vars => spent' = spent
      BY DEF archiveTournament, Tick, vars
    <3> QED BY <3>1, <3>2, <3>3, <3>4, <3>5, <3>6 DEF Next, Actors
  <2>3. Start => spent'.failures = spent.failures
    BY <2>1 DEF Start
  <2> QED BY <2>2, <2>3
<1> QED BY <1>1, <1>2

LEMMA HandNumbers ==
  ASSUME TypeInv, NEW b \in Actors
  PROVE  /\ actor[b].left \in Nat
         /\ InHand(b) => actor[b].trade \in DOMAIN trades
         /\ \A t \in DOMAIN trades :
              /\ trades[t].filled \in Nat /\ trades[t].quantity \in Nat /\ t # 0
<1>1. actor[b] \in Actor /\ actor[b].trade \in DOMAIN trades \cup {0}
  BY RunFacts DEF Legal, Keeps
<1>2. \A t \in DOMAIN trades : trades[t] \in Trade /\ t # 0
  BY Lengths DEF TypeInv
<1> QED BY <1>1, <1>2, Bounds DEF InHand, Actor, Trade

LEMMA TradeNumbers ==
  ASSUME TypeInv
  PROVE  \A t \in DOMAIN trades : trades[t].filled \in Nat /\ trades[t].quantity \in Nat
<1>1. \A t \in DOMAIN trades : trades[t] \in Trade
  BY Lengths DEF TypeInv
<1> QED BY <1>1, Bounds DEF Trade

LEMMA HandsFilledStep ==
  ASSUME TypeInv, Roles, OneSettlement, FillInv, [Next]_vars
  PROVE  HandsFilled'
<1> SUFFICES ASSUME NEW b \in Actors, InHand(b)'
             PROVE  LET t == trades'[actor'[b].trade]
                    IN /\ t.filled + actor'[b].left >= t.quantity
                       /\ spent.failures' = 0 => t.filled + actor'[b].left = t.quantity
                       /\ actor'[b].pc = "executed" => actor'[b].left = 0
  BY DEF HandsFilled
<1>1. actor'[b].op = "settle" /\ actor'[b].trade # 0
  BY DEF InHand
<1>2. actor[b] \in Actor /\ Legal(actor[b], DOMAIN portfolios, DOMAIN positions, DOMAIN trades,
                                 DOMAIN channels)
  BY RunFacts
<1>3. CASE Taking(b)
  <2>1. PICK t \in actor[b].todo :
          NextTrade(b) /\ actor[b].pc = "next" /\ actor'[b] = Taken(actor[b], t)
    BY <1>3 DEF Taking
  <2>2. actor[b].op = "settle" /\ trades' = trades
    BY <1>2, <2>1, StepOps DEF NextTrade, rows
  <2>3. t \in DOMAIN trades
    BY <1>2, <2>1, <2>2 DEF Legal, Keeps, TodoLegal
  <2>4. actor'[b].left = trades[t].quantity /\ actor'[b].trade = t /\ actor'[b].pc = "opposite"
    BY <1>2, <2>1 DEF Taken, Actor
  <2>5. spent.failures' = 0 => trades[t].filled = 0
    BY <2>1, <2>2, NoFailure DEF FillInv, TodoUnfilled
  <2> QED BY <2>2, <2>3, <2>4, <2>5, HandNumbers
<1>4. CASE Holding(b)
  <2> DEFINE t == actor[b].trade
  <2>1. InHand(b) /\ actor'[b].trade = t /\ t \in DOMAIN trades
    BY <1>4, HandNumbers DEF Holding
  <2>2. /\ trades[t].filled + actor[b].left >= trades[t].quantity
        /\ spent.failures = 0 => trades[t].filled + actor[b].left = trades[t].quantity
        /\ actor[b].pc = "executed" => actor[b].left = 0
    BY <2>1 DEF FillInv, HandsFilled
  <2>3. actor'[b].pc = "executed" => actor'[b].left = 0
    BY <1>4, <2>2 DEF Holding
  <2>4. trades'[t].quantity = trades[t].quantity
    BY <2>1, TradesKept DEF KeptTrades
  <2>5. trades'[t].filled + actor'[b].left = trades[t].filled + actor[b].left
    <3>1. CASE actor'[b] = actor[b]
      <4>1. ~\E c \in Actors : InHand(c) /\ actor'[c] # actor[c]
        BY <2>1, <3>1, OneHand DEF InHand
      <4>2. trades'[t].filled = trades[t].filled
        BY <2>1, <4>1, TradeChanges
      <4> QED BY <3>1, <4>2
    <3>2. CASE actor'[b].left = actor[b].left /\ (SelectOpposite(b) \/ Credit(b))
      <4>1. trades' = trades
        BY <3>2, Zenon DEF SelectOpposite, Credit, rows
      <4> QED BY <3>2, <4>1, ZenonT(40)
    <3>3. ASSUME NEW r \in actor[b].selected, CloseRow(b, r),
                 actor'[b].left = actor[b].left - CloseQuantity(actor[b], r.row)
          PROVE  trades'[t].filled + actor'[b].left = trades[t].filled + actor[b].left
      <4> DEFINE n == CloseQuantity(actor[b], r.row)
      <4>1. /\ n \in Nat
            /\ trades'[t].filled = trades[t].filled + n
        <5>1. \E s \in actor[b].selected : CloseRow(b, s) /\ n = CloseQuantity(actor[b], s.row)
          BY <3>3
        <5> HIDE DEF n
        <5> QED BY <2>1, <5>1, Fills
      <4>2. actor'[b].left = actor[b].left - n
        BY <3>3
      <4>3. trades[t].filled \in Nat /\ actor[b].left \in Nat
        BY <2>1, HandNumbers
      <4> HIDE DEF n, t
      <4> QED BY <4>1, <4>2, <4>3
    <3>4. CASE OpenPosition(b) /\ actor'[b].left = 0
      <4>1. trades'[t].filled = trades[t].filled + actor[b].left
        BY <2>1, <3>4, Fills, ZenonT(40)
      <4>2. trades[t].filled \in Nat /\ actor[b].left \in Nat
        BY <2>1, HandNumbers
      <4> HIDE DEF t
      <4> QED BY <3>4, <4>1, <4>2
    <3> QED BY <1>4, <3>1, <3>2, <3>3, <3>4 DEF Holding
  <2> HIDE DEF t
  <2> QED BY <2>1, <2>2, <2>3, <2>4, <2>5, NoFailure
<1> QED BY <1>1, <1>3, <1>4, Settlers

LEMMA ExecutedFilledStep ==
  ASSUME TypeInv, FillInv, [Next]_vars
  PROVE  ExecutedFilled'
<1> SUFFICES ASSUME NEW t \in DOMAIN trades', trades'[t].status = "executed"
             PROVE  trades'[t].filled >= trades'[t].quantity
  BY DEF ExecutedFilled
<1>1. CASE t \notin DOMAIN trades
  <2>1. PICK a \in Actors : Enqueue(a)
    BY <1>1, TradesKept
  <2> DEFINE x == [portfolio |-> actor[a].portfolio, filled |-> 0,
                   direction |-> actor[a].direction,
                   quantity |-> actor[a].left, status |-> "queued"]
  <2>2. trades'[t] = x
    BY <1>1, <2>1, EnqueuedRows
  <2>3. x.status = "queued"
    OBVIOUS
  <2> QED BY <2>2, <2>3
<1>2. CASE t \in DOMAIN trades
  <2>1. /\ trades'[t].quantity = trades[t].quantity /\ trades[t].filled <= trades'[t].filled
    BY <1>2, TradesKept DEF KeptTrades
  <2>2. trades[t].filled \in Nat /\ trades[t].quantity \in Nat /\ trades'[t].filled \in Int
    <3>1. TypeInv'
      BY TypeStep
    <3>2. trades' \in Seq(Trade)
      BY <3>1 DEF TypeInv, Tables
    <3>3. trades'[t] \in Trade
      BY <3>2, DomainFacts
    <3>4. trades'[t].filled \in Nat
      BY <3>3 DEF Trade
    <3> QED BY <1>2, <3>4, TradeNumbers
  <2>3. trades[t].filled >= trades[t].quantity
    <3>1. CASE trades[t].status = "executed"
      BY <1>2, <3>1 DEF FillInv, ExecutedFilled
    <3>2. CASE trades[t].status # "executed"
      <4>1. PICK c \in Actors : MarkExecuted(c) /\ actor[c].trade = t
        BY <1>2, <3>2, TradeChanges
      <4>2. actor[c].pc = "executed"
        BY <4>1 DEF MarkExecuted
      <4>3. InHand(c)
        BY <1>2, <4>1, <4>2, RunFacts, StepOps, HandNumbers DEF InHand
      <4>4. trades[t].filled + actor[c].left >= trades[t].quantity /\ actor[c].left = 0
        BY <4>1, <4>2, <4>3 DEF FillInv, HandsFilled
      <4> QED BY <2>2, <4>4
    <3> QED BY <3>1, <3>2
  <2> QED BY <2>1, <2>2, <2>3
<1> QED BY <1>1, <1>2

LEMMA TradesBegunStep ==
  ASSUME TypeInv, Roles, OneSettlement, FillInv, [Next]_vars, spent.failures' = 0
  PROVE  TradesBegun'
<1> DEFINE Begun(t) == \/ \E b \in Actors : InHand(b) /\ actor[b].trade = t
                       \/ trades[t].status # "executed" /\ trades[t].filled = 0
                       \/ trades[t].status = "executed" /\ trades[t].filled = trades[t].quantity
           Next1(t) == \/ \E b \in Actors : /\ actor'[b].op = "settle" /\ actor'[b].trade # 0
                                            /\ actor'[b].trade = t
                       \/ trades'[t].status # "executed" /\ trades'[t].filled = 0
                       \/ trades'[t].status = "executed"
                          /\ trades'[t].filled = trades'[t].quantity
<1> SUFFICES ASSUME NEW t \in DOMAIN trades' PROVE Next1(t)
  BY DEF TradesBegun, InHand
<1>1. spent.failures = 0 /\ ~Failure
  BY NoFailure
<1>2. CASE t \notin DOMAIN trades
  <2>1. PICK a \in Actors : Enqueue(a)
    BY <1>2, TradesKept
  <2> DEFINE x == [portfolio |-> actor[a].portfolio, filled |-> 0,
                   direction |-> actor[a].direction,
                   quantity |-> actor[a].left, status |-> "queued"]
  <2>2. trades'[t] = x
    BY <1>2, <2>1, EnqueuedRows
  <2>3. x.status = "queued" /\ x.filled = 0
    OBVIOUS
  <2> QED BY <2>2, <2>3
<1>3. ASSUME t \in DOMAIN trades, NEW b \in Actors, MarkExecuted(b), actor[b].trade = t
      PROVE  Next1(t)
  <2>1. actor[b].pc = "executed"
    BY <1>3 DEF MarkExecuted
  <2>2. InHand(b)
    BY <1>3, <2>1, RunFacts, StepOps, HandNumbers DEF InHand
  <2>3. trades[t].filled + actor[b].left = trades[t].quantity /\ actor[b].left = 0
    BY <1>1, <1>3, <2>1, <2>2 DEF FillInv, HandsFilled
  <2>4. /\ trades'[t].filled = trades[t].filled /\ trades'[t].quantity = trades[t].quantity
        /\ trades'[t].status = "executed"
    BY <1>3, ExecutedRows
  <2>5. trades[t].filled \in Nat /\ trades[t].quantity \in Nat
    BY <1>3, HandNumbers
  <2> QED BY <2>3, <2>4, <2>5
<1>4. ASSUME t \in DOMAIN trades, NEW b \in Actors, InHand(b), actor[b].trade = t
      PROVE  Next1(t)
  <2>1. SettlerMoves(b)
    BY Movers
  <2>2. CASE actor'[b] = actor[b]
    BY <1>4, <2>2 DEF InHand
  <2>3. CASE \E price \in Prices : StartSettlement(b, price)
    BY <1>4, <2>3, IdleFacts DEF StartSettlement, MayStart, InHand
  <2>4. CASE Taking(b)
    <3>1. actor[b].pc = "next" /\ actor[b].trade = 0
      BY <1>4, <2>4, RunFacts DEF Taking, InHand, Legal, AtStep
    <3> QED BY <1>4, <3>1 DEF InHand
  <2>5. CASE /\ actor[b].op = "settle" /\ actor'[b].op = "settle"
             /\ actor'[b].todo = actor[b].todo /\ actor'[b].trade = actor[b].trade
    BY <1>4, <2>5 DEF InHand
  <2>6. CASE MarkExecuted(b)
    BY <1>3, <1>4, <2>6
  <2> QED BY <1>1, <1>4, <2>1, <2>2, <2>3, <2>4, <2>5, <2>6 DEF SettlerMoves, InHand
<1>5. CASE t \in DOMAIN trades /\ ~\E b \in Actors : InHand(b) /\ actor[b].trade = t
  <2>1. \/ trades[t].status # "executed" /\ trades[t].filled = 0
        \/ trades[t].status = "executed" /\ trades[t].filled = trades[t].quantity
    BY <1>1, <1>5 DEF FillInv, TradesBegun
  <2>2. trades'[t].quantity = trades[t].quantity
    BY <1>5, TradesKept DEF KeptTrades
  <2>3. CASE /\ trades'[t].filled = trades[t].filled
             /\ \/ trades'[t].status = trades[t].status
                \/ trades[t].status = "queued" /\ trades'[t].status = "cancelled"
    BY <2>1, <2>2, <2>3
  <2>4. CASE \E c \in Actors : MarkExecuted(c) /\ actor[c].trade = t
    BY <1>3, <1>5, <2>4
  <2> QED BY <1>5, <2>3, <2>4, TradeChanges
<1> QED BY <1>2, <1>4, <1>5

LEMMA TodoUnfilledStep ==
  ASSUME TypeInv, Roles, OneSettlement, FillInv, [Next]_vars, spent.failures' = 0
  PROVE  TodoUnfilled'
<1> SUFFICES ASSUME NEW b \in Actors, actor'[b].op = "settle", NEW t \in actor'[b].todo
             PROVE  /\ trades'[t].filled = 0 /\ trades'[t].status # "executed"
                    /\ t # actor'[b].trade
  BY DEF TodoUnfilled
<1>1. spent.failures = 0 /\ ~Failure
  BY NoFailure
<1>2. actor[b] \in Actor /\ Legal(actor[b], DOMAIN portfolios, DOMAIN positions, DOMAIN trades,
                                 DOMAIN channels)
  BY RunFacts
<1>3. CASE \E price \in Prices : StartSettlement(b, price)
  <2>1. PICK price \in Prices : StartSettlement(b, price)
    BY <1>3
  <2> DEFINE s == {i \in DOMAIN trades : trades[i].status = "queued"}
             x == [Idle EXCEPT !.op = "settle", !.pc = "next", !.price = price, !.todo = s]
  <2>2. Set(b, x) /\ trades' = trades /\ actor[b] = Idle
    BY <2>1 DEF StartSettlement, MayStart, rows
  <2>3. x.todo = s /\ x.trade = 0
    BY DEF Idle
  <2>4. t \in s /\ actor'[b].trade = 0
    BY <2>2, <2>3, SetFacts
  <2>5. ~\E c \in Actors : InHand(c)
    <3>1. SUFFICES ASSUME NEW c \in Actors, InHand(c) PROVE FALSE
      OBVIOUS
    <3>2. c # b /\ actor[c].op = "settle"
      BY <2>2, <3>1, IdleFacts DEF InHand
    <3>3. b \in Settlements /\ c \in Settlements
      <4>1. c \in Settlements
        BY <3>2 DEF Roles, RoleOps, Actors
      <4>2. Roles'
        BY RolesStep
      <4>3. b \in Settlements
        BY <4>2 DEF Roles, RoleOps, Actors
      <4> QED BY <4>1, <4>3
    <3> QED BY <3>2, <3>3 DEF OneSettlement
  <2>6. trades[t].filled = 0 /\ trades[t].status # "executed" /\ t # 0
    BY <1>1, <2>4, <2>5, HandNumbers DEF FillInv, TradesBegun
  <2> QED BY <2>2, <2>4, <2>6
<1>4. CASE /\ actor[b].op = "settle" /\ t \in actor[b].todo
           /\ actor'[b].trade \in {0, actor[b].trade}
  <2>1. trades[t].filled = 0 /\ trades[t].status # "executed" /\ t # actor[b].trade
    BY <1>1, <1>4 DEF FillInv, TodoUnfilled
  <2>2. t \in DOMAIN trades /\ t # 0
    BY <1>2, <1>4, HandNumbers DEF Legal, Keeps, TodoLegal
  <2>3. ~\E c \in Actors : InHand(c) /\ actor[c].trade = t
    BY <1>4, <2>1, OneHand DEF InHand
  <2>4. ~\E c \in Actors : MarkExecuted(c) /\ actor[c].trade = t
    <3>1. SUFFICES ASSUME NEW c \in Actors, MarkExecuted(c), actor[c].trade = t PROVE FALSE
      OBVIOUS
    <3>2. actor[c].pc = "executed"
      BY <3>1 DEF MarkExecuted
    <3>3. InHand(c)
      BY <2>2, <3>1, <3>2, RunFacts, StepOps DEF InHand
    <3> QED BY <2>3, <3>1, <3>3
  <2>5. trades'[t].filled = trades[t].filled /\ trades'[t].status # "executed"
    BY <2>1, <2>2, <2>3, <2>4, TradeChanges
  <2> QED BY <1>4, <2>1, <2>2, <2>5
<1>5. CASE Taking(b)
  <2>1. PICK s \in actor[b].todo :
          NextTrade(b) /\ actor[b].pc = "next" /\ actor'[b] = Taken(actor[b], s)
    BY <1>5 DEF Taking
  <2>2. actor[b].op = "settle" /\ trades' = trades
    BY <1>2, <2>1, StepOps DEF NextTrade, rows
  <2>3. actor'[b].todo = actor[b].todo \ {s} /\ actor'[b].trade = s
    BY <1>2, <2>1 DEF Taken, Actor
  <2> QED BY <1>1, <2>2, <2>3 DEF FillInv, TodoUnfilled
<1>6. CASE actor'[b] = TradeOver(actor[b]) /\ actor[b].op = "settle"
  <2>1. TradeOver(actor[b]).todo = actor[b].todo /\ TradeOver(actor[b]).trade = 0
    BY DEF TradeOver, Idle
  <2> QED BY <1>4, <1>6, <2>1
<1>7. CASE Failure /\ actor'[b] = Idle
  BY <1>1, <1>7
<1>8. CASE actor'[b] = actor[b]
  BY <1>4, <1>8
<1> QED BY <1>3, <1>4, <1>5, <1>6, <1>7, <1>8, Movers DEF SettlerMoves

(* With one settlement at a time, a trade marked executed has been filled, and
   unless something failed no trade is filled beyond its quantity, however
   requests, the settlement and finalizations that cancel it interleave.  *)
THEOREM FillsAreExact ==
  ASSUME OneSettlement
  PROVE  Spec => []TradesFillExactly
<1>1. Init => FillInv
  <2> SUFFICES ASSUME Init PROVE FillInv
    OBVIOUS
  <2>1. trades = <<>> /\ \A a \in Actors : actor[a] = Idle
    BY DEF Init
  <2> QED BY <2>1, IdleFacts DEF FillInv, HandsFilled, ExecutedFilled, TradesBegun,
                   TodoUnfilled, InHand
<1>2. TypeInv /\ Roles /\ FillInv /\ [Next]_vars => FillInv'
  BY HandsFilledStep, ExecutedFilledStep, TradesBegunStep, TodoUnfilledStep DEF FillInv
<1>3. TypeInv /\ Roles /\ FillInv => TradesFillExactly
  <2> SUFFICES ASSUME TypeInv, Roles, FillInv, NEW t \in DOMAIN trades
               PROVE  /\ trades[t].status = "executed" => trades[t].filled >= trades[t].quantity
                      /\ spent.failures = 0 => trades[t].filled <= trades[t].quantity
                      /\ /\ trades[t].status = "cancelled"
                         /\ spent.failures = 0
                         /\ \A a \in Settlements : actor[a].trade # t
                         => trades[t].filled = 0
    BY DEF TradesFillExactly
  <2>1. trades[t].status = "executed" => trades[t].filled >= trades[t].quantity
    BY DEF FillInv, ExecutedFilled
  <2>2. trades[t].filled \in Nat /\ trades[t].quantity \in Nat
    BY Lengths, Bounds DEF TypeInv, Trade
  <2>3. CASE spent.failures = 0 /\ \E b \in Actors : InHand(b) /\ actor[b].trade = t
    <3>1. PICK b \in Actors : InHand(b) /\ actor[b].trade = t
      BY <2>3
    <3>2. trades[t].filled + actor[b].left = trades[t].quantity /\ actor[b].left \in Nat
      BY <2>3, <3>1, HandNumbers DEF FillInv, HandsFilled
    <3>3. b \in Settlements
      BY <3>1 DEF InHand, Roles, RoleOps, Actors
    <3> QED BY <2>1, <2>2, <3>1, <3>2, <3>3
  <2>4. CASE spent.failures = 0 /\ ~\E b \in Actors : InHand(b) /\ actor[b].trade = t
    <3>1. \/ trades[t].status # "executed" /\ trades[t].filled = 0
          \/ trades[t].status = "executed" /\ trades[t].filled = trades[t].quantity
      BY <2>4 DEF FillInv, TradesBegun
    <3> QED BY <2>1, <2>2, <3>1
  <2> QED BY <2>1, <2>3, <2>4
<1> QED BY <1>1, <1>2, <1>3, RolesHold, PTL DEF Spec

-----------------------------------------------------------------------------
(* What is yet to be booked *)

LEMMA NotToCredit ==
  ASSUME NEW p \in Actor
  PROVE  /\ Continue(p).pc # "credit"
         /\ TradeOver(p).pc = "next"
         /\ \A t : Taken(p, t).pc = "opposite"
         /\ \A r : NextMark(p, r).pc # "credit"
         /\ \A q : p.pc # "credit" => NextTotal(p, q).pc # "credit"
         /\ \A users : /\ NextMember(p, users).pc # "credit"
                       /\ NextRank(p, users).pc # "credit"
<1>1. Continue(p).pc # "credit"
  <2>1. Continue(p) \in {Idle, [p EXCEPT !.pc = "executed", !.selected = {}],
                         [p EXCEPT !.pc = "open"], [p EXCEPT !.pc = "cancel"],
                         [p EXCEPT !.pc = "close"]}
    BY DEF Continue
  <2> QED BY <2>1, IdleFacts DEF Actor
<1>2. TradeOver(p).pc = "next"
  BY DEF TradeOver, Idle
<1>3. \A t : Taken(p, t).pc = "opposite"
  BY DEF Taken, Actor
<1>4. \A r : NextMark(p, r).pc # "credit"
  BY DEF NextMark, Actor
<1>5. \A q : p.pc # "credit" => NextTotal(p, q).pc # "credit"
  BY IdleFacts DEF NextTotal, Actor
<1>6. \A users : NextMember(p, users).pc # "credit" /\ NextRank(p, users).pc # "credit"
  BY IdleFacts DEF NextMember, NextRank, Actor
<1> QED BY <1>1, <1>2, <1>3, <1>4, <1>5, <1>6

LEMMA RequestCredits ==
  ASSUME TypeInv, NEW a \in Actors, Request(a)
  PROVE  actor'[a].pc # "credit" /\ actor[a].pc # "credit"
<1> DEFINE p == actor[a]
<1>1. p \in Actor
  BY RunFacts
<1>2. p.pc # "credit"
  BY IdleFacts, Zenon DEF Request, enterTournament, CreatePortfolio, CreateEntry, DeletePortfolio,
     StartTrade, MayStart, Enqueue, Charge, closePosition
<1>3. ASSUME NEW u \in Users, enterTournament(a, u)
      PROVE  actor'[a].pc # "credit"
  <2> DEFINE x == [Idle EXCEPT !.op = "enter", !.pc = "portfolio", !.user = u]
  <2>1. Set(a, x) /\ x.pc = "portfolio"
    BY <1>3 DEF enterTournament, Idle
  <2> QED BY <2>1, SetFacts
<1>4. CASE CreatePortfolio(a) \/ CreateEntry(a)
  <2> DEFINE x == [p EXCEPT !.pc = "entry", !.portfolio = Len(portfolios) + 1]
             y == [p EXCEPT !.pc = "cleanup"]
  <2>1. Set(a, x) \/ Set(a, y) \/ Set(a, Idle)
    BY <1>4 DEF CreatePortfolio, CreateEntry
  <2>2. x.pc = "entry" /\ y.pc = "cleanup"
    BY <1>1 DEF Actor
  <2> HIDE DEF x, y
  <2> QED BY <1>2, <2>1, <2>2, SetFacts, IdleFacts
<1>5. CASE DeletePortfolio(a) \/ Enqueue(a) \/ Charge(a)
  <2>1. Set(a, Idle)
    BY <1>5 DEF DeletePortfolio, Enqueue, Charge
  <2> QED BY <1>2, <2>1, SetFacts, IdleFacts
<1>6. CASE Trading(a)
  <2>1. PICK u \in Users, call \in Calls \ {"close"}, direction \in Directions,
             quantity \in Quantities, price \in Prices :
               StartTrade(a, u, call, direction, quantity, price)
    BY <1>6 DEF Trading
  <2> DEFINE x(q) == [Idle EXCEPT !.op = call, !.user = u, !.portfolio = q,
                              !.pc = IF call = "queue" THEN "enqueue" ELSE "open",
                              !.direction = direction, !.left = quantity,
                              !.price = IF call = "queue" THEN 0 ELSE price]
  <2>2. PICK q \in DOMAIN portfolios : Set(a, x(q))
    BY <2>1 DEF StartTrade
  <2>3. x(q).pc \in {"enqueue", "open"}
    BY DEF Idle
  <2> HIDE DEF x
  <2> QED BY <1>2, <2>2, <2>3, SetFacts
<1>7. ASSUME NEW i \in DOMAIN positions, closePosition(a, i)
      PROVE  actor'[a].pc # "credit"
  <2> DEFINE x == [Idle EXCEPT !.op = "close", !.pc = "close",
                     !.portfolio = positions[i].portfolio,
                     !.left = positions[i].quantity, !.selected = Select({i})]
  <2>1. Set(a, x) /\ x.pc = "close"
    BY <1>7 DEF closePosition, Idle
  <2> QED BY <2>1, SetFacts
<1> QED BY <1>2, <1>3, <1>4, <1>5, <1>6, <1>7 DEF Request, Trading

LEMMA SettlementCredits ==
  ASSUME TypeInv, NEW a \in Actors, Settlement(a)
  PROVE  actor'[a].pc # "credit" /\ actor[a].pc # "credit"
<1> DEFINE p == actor[a]
<1>1. p \in Actor
  BY RunFacts
<1>2. p.pc # "credit"
  BY IdleFacts, Zenon DEF Settlement, StartSettlement, MayStart, NextTrade, SelectOpposite,
     MarkExecuted, SelectMarks, MarkPosition, WriteTotal
<1>3. ASSUME NEW price \in Prices, StartSettlement(a, price)
      PROVE  actor'[a].pc # "credit"
  <2> DEFINE x == [Idle EXCEPT !.op = "settle", !.pc = "next", !.price = price,
                     !.todo = {t \in DOMAIN trades : trades[t].status = "queued"}]
  <2>1. Set(a, x) /\ x.pc = "next"
    BY <1>3 DEF StartSettlement, Idle
  <2> QED BY <2>1, SetFacts
<1>4. CASE NextTrade(a)
  <2>1. Set(a, [p EXCEPT !.op = "mark", !.pc = "positions"]) \/ \E t : Set(a, Taken(p, t))
    BY <1>4 DEF NextTrade
  <2>2. [p EXCEPT !.op = "mark", !.pc = "positions"].pc = "positions"
    BY <1>1 DEF Actor
  <2>3. \A t : Taken(p, t).pc = "opposite"
    BY <1>1, NotToCredit
  <2> QED BY <1>2, <2>1, <2>2, <2>3, SetFacts
<1>5. CASE SelectOpposite(a)
  <2> DEFINE s == Select({i \in OpenOf(p.portfolio) :
                            positions[i].direction = Opposite(p.direction)})
             y == [p EXCEPT !.selected = s]
  <2>1. Set(a, Continue(y))
    BY <1>5 DEF SelectOpposite
  <2>2. y \in Actor
    <3>1. {i \in OpenOf(p.portfolio) : positions[i].direction = Opposite(p.direction)}
             \subseteq OpenPositions
      BY DEF OpenOf
    <3>2. s \in SUBSET Selected
      BY <3>1, SelectFacts DEF TypeInv
    <3> HIDE DEF s
    <3> QED BY <1>1, <3>2 DEF Actor
  <2> HIDE DEF y
  <2> QED BY <1>2, <2>1, <2>2, NotToCredit, SetFacts
<1>6. CASE MarkExecuted(a)
  <2>1. Set(a, TradeOver(p))
    BY <1>6 DEF MarkExecuted
  <2> QED BY <1>2, <1>1, <2>1, NotToCredit, SetFacts
<1>7. CASE SelectMarks(a)
  <2>1. PICK s, o, f : Set(a, Idle)
          \/ Set(a, [p EXCEPT !.pc = "mark", !.selected = s, !.todo = o, !.totals = f])
    BY <1>7, Zenon DEF SelectMarks
  <2>2. [p EXCEPT !.pc = "mark", !.selected = s, !.todo = o, !.totals = f].pc = "mark"
    BY <1>1 DEF Actor
  <2> QED BY <1>2, <2>1, <2>2, IdleFacts, SetFacts
<1>8. ASSUME NEW r, MarkPosition(a, r)
      PROVE  actor'[a].pc # "credit"
  <2>1. Set(a, NextMark(p, r))
    BY <1>8, Zenon DEF MarkPosition
  <2> QED BY <1>1, <2>1, NotToCredit, SetFacts
<1>9. ASSUME NEW q, WriteTotal(a, q)
      PROVE  actor'[a].pc # "credit"
  <2>1. Set(a, NextTotal(p, q))
    BY <1>9 DEF WriteTotal
  <2> QED BY <1>1, <1>2, <2>1, NotToCredit, SetFacts
<1> QED BY <1>2, <1>3, <1>4, <1>5, <1>6, <1>7, <1>8, <1>9 DEF Settlement

LEMMA LifecycleCredits ==
  ASSUME TypeInv, NEW a \in Actors, Lifecycle(a)
  PROVE  actor'[a].pc # "credit" /\ actor[a].pc # "credit"
<1> DEFINE p == actor[a]
<1>1. p \in Actor
  BY RunFacts
<1>2. p.pc # "credit"
  BY IdleFacts DEF Lifecycle, StartActivation, Activate, CreateChannel, AttachChannel,
     ReadEntries, AddMember, StartCompletion, SelectOpen, CancelQueued, ReadBoard, WriteRank,
     SetCompleted, ArchiveChannel
<1>3. CASE StartActivation(a) \/ StartCompletion(a)
  <2> DEFINE x == [Idle EXCEPT !.op = "activate", !.pc = "activate"]
             y == [Idle EXCEPT !.op = "complete", !.pc = "select", !.channel = channel]
  <2>1. Set(a, x) \/ Set(a, y)
    BY <1>3 DEF StartActivation, StartCompletion
  <2>2. x.pc = "activate" /\ y.pc = "select"
    BY DEF Idle
  <2> HIDE DEF x, y
  <2> QED BY <1>2, <2>1, <2>2, SetFacts
<1>4. CASE Activate(a) \/ CreateChannel(a) \/ AttachChannel(a)
  <2> DEFINE x == [p EXCEPT !.pc = "channel"]
             y == [p EXCEPT !.pc = "attach", !.channel = Len(channels) + 1]
             z == [p EXCEPT !.pc = "entries"]
  <2>1. Set(a, x) \/ Set(a, y) \/ Set(a, z)
    BY <1>4 DEF Activate, CreateChannel, AttachChannel
  <2>2. x.pc = "channel" /\ y.pc = "attach" /\ z.pc = "entries"
    BY <1>1 DEF Actor
  <2> HIDE DEF x, y, z
  <2> QED BY <1>2, <2>1, <2>2, SetFacts
<1>5. CASE ReadEntries(a) \/ \E u \in p.todo : AddMember(a, u)
  <2>1. \E users : Set(a, NextMember(p, users))
    BY <1>5 DEF ReadEntries, AddMember
  <2> QED BY <1>2, <1>1, <2>1, NotToCredit, SetFacts
<1>6. CASE SelectOpen(a)
  <2> DEFINE y == [p EXCEPT !.selected = Select(OpenPositions)]
  <2>1. Set(a, Continue(y))
    BY <1>6 DEF SelectOpen
  <2>2. y \in Actor
    <3>1. Select(OpenPositions) \in SUBSET Selected
      BY SelectFacts DEF TypeInv
    <3> QED BY <1>1, <3>1 DEF Actor
  <2> HIDE DEF y
  <2> QED BY <1>2, <2>1, <2>2, NotToCredit, SetFacts
<1>7. CASE CancelQueued(a) \/ SetCompleted(a) \/ ArchiveChannel(a)
  <2> DEFINE x == [p EXCEPT !.pc = "board"]
             y == [p EXCEPT !.pc = "archive"]
  <2>1. Set(a, x) \/ Set(a, y) \/ Set(a, Idle)
    BY <1>7 DEF CancelQueued, SetCompleted, ArchiveChannel
  <2>2. x.pc = "board" /\ y.pc = "archive"
    BY <1>1 DEF Actor
  <2> HIDE DEF x, y
  <2> QED BY <1>2, <2>1, <2>2, IdleFacts, SetFacts
<1>8. CASE ReadBoard(a)
  <2> DEFINE f == [u \in Users |-> IF u \in Entered THEN Place(u) ELSE 0]
             y == [p EXCEPT !.places = f]
  <2>1. Set(a, NextRank(y, Entered))
    BY <1>8 DEF ReadBoard
  <2>2. f \in [Users -> 0..N]
    BY PlaceType, Bounds
  <2> HIDE DEF f
  <2>3. y \in Actor
    BY <1>1, <2>2 DEF Actor
  <2> HIDE DEF y
  <2> QED BY <1>2, <2>1, <2>3, NotToCredit, SetFacts
<1>9. CASE \E u \in p.todo : WriteRank(a, u)
  <2>1. \E users : Set(a, NextRank(p, users))
    BY <1>9 DEF WriteRank
  <2> QED BY <1>2, <1>1, <2>1, NotToCredit, SetFacts
<1> QED BY <1>2, <1>3, <1>4, <1>5, <1>6, <1>7, <1>8, <1>9 DEF Lifecycle

(* What a failed statement had to book, or leaves to be booked, is lost. *)
LEMMA FailedCredits ==
  ASSUME TypeInv, NEW a \in Actors, Failing(a)
  PROVE  /\ actor[a].pc = "credit" =>
              /\ actor'[a].pc # "credit"
              /\ "lost update" \in account'[actor[a].portfolio].booked
              /\ "lost update" \in account'[actor[a].portfolio].marked
         /\ actor'[a].pc = "credit" =>
              /\ "lost update" \in account'[actor'[a].portfolio].booked
              /\ "lost update" \in account'[actor'[a].portfolio].marked
<1> DEFINE p == actor[a]
<1>1. /\ p \in Actor
      /\ Legal(p, DOMAIN portfolios, DOMAIN positions, DOMAIN trades, DOMAIN channels)
  BY RunFacts
<1>2. portfolios' = portfolios
  BY FailedBooks DEF rows
<1>3. ASSUME NEW q \in DOMAIN portfolios, Lose({q}, {"lost update"}, {"lost update"})
      PROVE  "lost update" \in account'[q].booked /\ "lost update" \in account'[q].marked
  <2>1. q \in DOMAIN account /\ account[q] \in Account
    BY Lengths DEF TypeInv
  <2>2. account'[q] = [account[q] EXCEPT !.booked = @ \cup {"lost update"},
                                         !.marked = @ \cup {"lost update"}]
    BY <1>3, <2>1, Zenon DEF Lose
  <2> QED BY <2>1, <2>2 DEF Account
<1>4. CASE StatementThrows(a)
  <2>1. Set(a, TradeOver(p)) \/ Set(a, Idle)
    BY <1>4 DEF StatementThrows
  <2>2. actor'[a].pc # "credit"
    BY <1>1, <2>1, NotToCredit, IdleFacts, SetFacts
  <2>3. ASSUME p.pc = "credit"
        PROVE  /\ "lost update" \in account'[p.portfolio].booked
               /\ "lost update" \in account'[p.portfolio].marked
    <3>1. p.portfolio \in DOMAIN portfolios
      BY <1>1, <2>3 DEF Legal, AtStep
    <3> DEFINE q == p.portfolio
    <3>2. Blur(q, {"lost update"}, {"lost update"})
      BY <1>4, <2>3 DEF StatementThrows
    <3> HIDE DEF q
    <3>3. /\ account'[q].booked = account[q].booked \cup {"lost update"}
          /\ account'[q].marked = account[q].marked \cup {"lost update"}
      BY <1>2, <3>1, <3>2, BlurKeeps, Zenon DEF q
    <3> QED BY <3>3 DEF q
  <2> QED BY <2>2, <2>3
<1>5. CASE StatementIgnored(a)
  <2>1. actor'[a].pc # "credit"
    <3> DEFINE c == [p EXCEPT !.pc = "channel"]
               e == [p EXCEPT !.pc = "entries"]
               b == [p EXCEPT !.pc = "board"]
               h == [p EXCEPT !.pc = "archive"]
    <3>1. Set(a, Ignored(p))
          /\ p.pc \in {"cleanup", "charge", "executed", "activate", "attach", "cancel",
                       "completed", "archive", "credit"}
      BY <1>5, Zenon DEF StatementIgnored
    <3>2. Ignored(p) \in {Idle, Continue(NextRow(p)), TradeOver(p), c, e, b, h}
      BY <3>1 DEF Ignored
    <3>3. c.pc # "credit" /\ e.pc # "credit" /\ b.pc # "credit" /\ h.pc # "credit"
      BY <1>1 DEF Actor
    <3>4. Continue(NextRow(p)).pc # "credit" /\ TradeOver(p).pc # "credit"
      BY <1>1, NextRowType, NotToCredit
    <3>5. Ignored(p).pc # "credit"
      <4> HIDE DEF c, e, b, h
      <4> QED BY <3>2, <3>3, <3>4, IdleFacts
    <3> QED BY <3>1, <3>5, SetFacts
  <2>2. ASSUME p.pc = "credit"
        PROVE  /\ "lost update" \in account'[p.portfolio].booked
               /\ "lost update" \in account'[p.portfolio].marked
    <3>1. p.portfolio \in DOMAIN portfolios
      BY <1>1, <2>2 DEF Legal, AtStep
    <3>2. Lose({p.portfolio}, {"lost update"}, {"lost update"})
      BY <1>5, <2>2 DEF StatementIgnored, Missed
    <3> QED BY <1>3, <3>1, <3>2
  <2> QED BY <2>1, <2>2
<1>6. ASSUME NEW r \in p.selected, RowIgnored(a, r)
      PROVE  /\ p.pc # "credit"
             /\ actor'[a].pc = "credit" =>
                  /\ "lost update" \in account'[actor'[a].portfolio].booked
                  /\ "lost update" \in account'[actor'[a].portfolio].marked
  <2>1. CASE p.pc = "mark"
    <3>1. Set(a, NextMark(p, r))
      BY <1>6, <2>1 DEF RowIgnored
    <3>2. NextMark(p, r).pc # "credit"
      BY <1>1 DEF NextMark, Actor
    <3>3. actor'[a].pc # "credit"
      BY <3>1, <3>2, SetFacts
    <3> QED BY <2>1, <3>3
  <2>2. CASE p.pc = "close"
    <3>1. Set(a, Booking(p, r)) /\ Lose({r.row.portfolio}, {"lost update"}, {"lost update"})
      BY <1>6, <2>2 DEF RowIgnored
    <3>2. r.row.portfolio \in DOMAIN portfolios /\ Booking(p, r).portfolio = r.row.portfolio
      BY <1>1, RowFacts, BookingFields
    <3> QED BY <1>3, <2>2, <3>1, <3>2, SetFacts, ZenonT(40)
  <2> QED BY <1>6, <2>1, <2>2, Zenon DEF RowIgnored
<1>7. ASSUME NEW q, TotalIgnored(a, q)
      PROVE  p.pc # "credit" /\ actor'[a].pc # "credit"
  <2>1. p.pc = "total" /\ Set(a, NextTotal(p, q))
    BY <1>7 DEF TotalIgnored
  <2> QED BY <1>1, <2>1, NotToCredit, SetFacts
<1>8. ASSUME NEW u, RankIgnored(a, u)
      PROVE  p.pc # "credit" /\ actor'[a].pc # "credit"
  <2>1. p.pc = "rank" /\ Set(a, NextRank(p, p.todo \ {u}))
    BY <1>8 DEF RankIgnored
  <2> QED BY <1>1, <2>1, NotToCredit, SetFacts
<1> QED BY <1>4, <1>5, <1>6, <1>7, <1>8, Zenon DEF Failing

(* Who has something to book before a step, or after it. *)
LEMMA Bookers ==
  ASSUME TypeInv, TypeInv', [Next]_vars, NEW a \in Actors
  PROVE  \/ actor'[a] = actor[a]
         \/ NothingToBook(actor[a]) /\ NothingToBook(actor'[a])
         \/ \E r \in actor[a].selected : CloseRow(a, r)
         \/ Credit(a)
         \/ Failing(a)
         \/ Crash
<1> DEFINE Done == \/ actor'[a] = actor[a]
                   \/ NothingToBook(actor[a]) /\ NothingToBook(actor'[a])
                   \/ \E r \in actor[a].selected : CloseRow(a, r)
                   \/ Credit(a)
                   \/ Failing(a)
                   \/ Crash
<1>1. actor[a].pc # "credit" => NothingToBook(actor[a])
  BY RunFacts DEF Legal, AtStep
<1>2. actor'[a].pc # "credit" => NothingToBook(actor'[a])
  <2>1. Legal(actor'[a], DOMAIN portfolios', DOMAIN positions', DOMAIN trades',
              DOMAIN channels')
    BY DEF TypeInv, RunsLegal
  <2> QED BY <2>1 DEF Legal, AtStep
<1>3. ASSUME NEW b \in Actors, b # a,
             Request(b) \/ Settlement(b) \/ Lifecycle(b) \/ Filling(b) \/ Failing(b)
      PROVE  Done
  BY <1>3, RequestShape, SettlementShape, LifecycleShape, FillingShape, FailingShape
<1>4. ASSUME Request(a) \/ Settlement(a) \/ Lifecycle(a)
      PROVE  Done
  BY <1>1, <1>2, <1>4, RequestCredits, SettlementCredits, LifecycleCredits
<1>5. CASE OpenPosition(a)
  <2> DEFINE x == [actor[a] EXCEPT !.pc = "executed", !.left = 0]
             y == [actor[a] EXCEPT !.pc = "charge"]
  <2>1. Set(a, x) \/ Set(a, y) \/ Set(a, Idle)
    BY <1>5 DEF OpenPosition
  <2>2. x.pc # "credit" /\ y.pc # "credit"
    BY RunFacts DEF Actor
  <2>3. actor[a].pc # "credit"
    BY <1>5 DEF OpenPosition
  <2> HIDE DEF x, y
  <2>4. actor'[a].pc # "credit"
    BY <2>1, <2>2, IdleFacts, SetFacts
  <2> QED BY <1>1, <1>2, <2>3, <2>4
<1>6. ASSUME Filling(a)
      PROVE  Done
  BY <1>5, <1>6 DEF Filling
<1>7. archiveTournament \/ Tick \/ UNCHANGED vars => actor' = actor
  BY DEF archiveTournament, Tick, vars
<1> QED BY <1>3, <1>4, <1>6, <1>7 DEF Next, Actors

(* The actors, as terms of the sums of what is pending. *)
GainOf(q) == [a \in Actors |-> IF actor[a].portfolio = q THEN actor[a].gain ELSE 0]

GainAfter(q) == [a \in Actors |-> IF actor'[a].portfolio = q THEN actor'[a].gain ELSE 0]

PendingGainAfter(q) == Sum(GainAfter(q))

LEMMA ActorsFinite == IsFiniteSet(Actors)
BY ConstantsAssumption, FS_Union DEF Actors

LEMMA GainTypes ==
  ASSUME TypeInv, TypeInv', NEW q
  PROVE  /\ GainOf(q) \in [Actors -> Int] /\ GainAfter(q) \in [Actors -> Int]
         /\ PendingGain(q) = Sum(GainOf(q)) /\ PendingGain(q) \in Int
<1>1. \A a \in Actors : actor[a].gain \in Int
  BY RunFacts DEF Actor
<1>2. \A a \in Actors : actor'[a].gain \in Int
  <2>1. \A a \in Actors : actor'[a] \in Actor
    BY DEF TypeInv
  <2> QED BY <2>1 DEF Actor
<1>3. GainOf(q) \in [Actors -> Int] /\ GainAfter(q) \in [Actors -> Int]
  BY <1>1, <1>2 DEF GainOf, GainAfter
<1>4. PendingGain(q) = Sum(GainOf(q))
  BY DEF PendingGain, GainOf
<1> QED BY <1>3, <1>4, ActorsFinite, SumType

(* Only one actor's profit changes. *)
LEMMA GainMoves ==
  ASSUME TypeInv, TypeInv', NEW a \in Actors, NEW q,
         \A b \in Actors \ {a} : actor'[b] = actor[b]
  PROVE  PendingGainAfter(q) = PendingGain(q) + (GainAfter(q)[a] - GainOf(q)[a])
<1>1. \A b \in Actors \ {a} : GainAfter(q)[b] = GainOf(q)[b]
  BY DEF GainAfter, GainOf
<1>2. GainOf(q) \in [Actors -> Int] /\ GainAfter(q) \in [Actors -> Int]
      /\ PendingGain(q) = Sum(GainOf(q))
  BY GainTypes
<1> QED BY <1>1, <1>2, ActorsFinite, SumChange DEF PendingGainAfter

LEMMA SameGains ==
  ASSUME TypeInv, TypeInv', NEW q, \A a \in Actors : GainAfter(q)[a] = GainOf(q)[a]
  PROVE  PendingGainAfter(q) = PendingGain(q)
<1>1. GainOf(q) \in [Actors -> Int] /\ GainAfter(q) \in [Actors -> Int]
      /\ PendingGain(q) = Sum(GainOf(q))
  BY GainTypes
<1>2. GainOf(q) = GainAfter(q)
  BY <1>1
<1> QED BY <1>1, <1>2 DEF PendingGainAfter

LEMMA NoGains ==
  ASSUME TypeInv, TypeInv', NEW q, \A a \in Actors : GainAfter(q)[a] = 0
  PROVE  PendingGainAfter(q) = 0
<1>1. GainAfter(q) \in [Actors -> Int]
  BY GainTypes
<1>2. GainAfter(q) = [a \in Actors |-> 0]
  BY <1>1
<1> QED BY <1>2, ActorsFinite, SumZero DEF PendingGainAfter

-----------------------------------------------------------------------------
(* The books balance *)

CashInv == \A q \in DOMAIN portfolios :
  portfolios[q].cash = StartingBalance + portfolios[q].realized - account[q].charged

EarnedInv == \A q \in DOMAIN portfolios :
  account[q].booked \subseteq {"late"} =>
    portfolios[q].realized + PendingGain(q) = account[q].earned

(* What a step does to the columns the balance is about. *)
LEMMA Balances ==
  ASSUME TypeInv, TypeInv', [Next]_vars
  PROVE  \/ \A q \in DOMAIN portfolios :
              /\ portfolios'[q].cash = portfolios[q].cash
              /\ portfolios'[q].realized = portfolios[q].realized
         \/ \E a \in Actors : Charge(a) \/ Credit(a)
<1>1. CASE portfolios' = portfolios
  BY <1>1
<1>2. ASSUME NEW a \in Actors, CreatePortfolio(a)
      PROVE  \A q \in DOMAIN portfolios : portfolios'[q] = portfolios[q]
  BY <1>2, InsertedRows
<1>3. ASSUME NEW a \in Actors, DeletePortfolio(a)
      PROVE  \A q \in DOMAIN portfolios :
               /\ portfolios'[q].cash = portfolios[q].cash
               /\ portfolios'[q].realized = portfolios[q].realized
  BY <1>3, CleanedRows
<1>4. ASSUME NEW a \in Actors, NEW p \in actor[a].todo, WriteTotal(a, p)
      PROVE  \A q \in DOMAIN portfolios :
               /\ portfolios'[q].cash = portfolios[q].cash
               /\ portfolios'[q].realized = portfolios[q].realized
  BY <1>4, TotalledRows
<1> QED BY <1>1, <1>2, <1>3, <1>4, WhichStep

LEMMA NewPortfolio ==
  ASSUME TypeInv, [Next]_vars, NEW q \in DOMAIN portfolios', q \notin DOMAIN portfolios
  PROVE  \E a \in Actors : CreatePortfolio(a) /\ q = Len(portfolios) + 1
<1>1. ASSUME NEW a \in Actors, DeletePortfolio(a) \/ Charge(a)
      PROVE  FALSE
  BY <1>1, CleanedRows, ChargedRows
<1>2. ASSUME NEW a \in Actors, Credit(a)
      PROVE  FALSE
  <2> DEFINE x == portfolios'[actor[a].portfolio]
  <2>1. portfolios' = [portfolios EXCEPT ![actor[a].portfolio] = x]
    BY <1>2, CreditedRows
  <2> HIDE DEF x
  <2> QED BY <2>1
<1>3. ASSUME NEW a \in Actors, NEW p \in actor[a].todo, WriteTotal(a, p)
      PROVE  FALSE
  BY <1>3, TotalledRows
<1>4. ASSUME NEW a \in Actors, CreatePortfolio(a)
      PROVE  q = Len(portfolios) + 1
  BY <1>4, InsertedRows, Zenon
<1> QED BY <1>1, <1>2, <1>3, <1>4, WhichStep

LEMMA CashStep ==
  ASSUME TypeInv, TypeInv', CashInv, [Next]_vars
  PROVE  CashInv'
<1> SUFFICES ASSUME NEW q \in DOMAIN portfolios'
             PROVE  portfolios'[q].cash = StartingBalance + portfolios'[q].realized
                                            - account'[q].charged
  BY DEF CashInv
<1>0. StartingBalance \in Int
  BY Bounds
<1>1. CASE q \notin DOMAIN portfolios
  <2>1. PICK a \in Actors : CreatePortfolio(a) /\ q = Len(portfolios) + 1
    BY <1>1, NewPortfolio
  <2>2. /\ portfolios'[q].cash = StartingBalance /\ portfolios'[q].realized = 0
        /\ account'[q] = NoAccount
    BY <2>1, InsertedRows, Zenon
  <2>3. account'[q].charged = 0
    BY <2>2 DEF NoAccount
  <2> QED BY <1>0, <2>2, <2>3
<1>2. CASE q \in DOMAIN portfolios
  <2>1. portfolios[q].cash = StartingBalance + portfolios[q].realized - account[q].charged
    BY <1>2 DEF CashInv
  <2>2. /\ portfolios[q].cash \in Int /\ portfolios[q].realized \in Int
        /\ account[q].charged \in Int
    BY <1>2, AccountFields DEF TypeInv
  <2>3. CASE \E a \in Actors : Charge(a)
    <3>1. PICK a \in Actors : Charge(a)
      BY <2>3
    <3> DEFINE p == actor[a].portfolio
    <3>2. /\ p \in DOMAIN portfolios
          /\ \A b \in DOMAIN portfolios \ {p} : portfolios'[b] = portfolios[b]
                                                /\ account'[b] = account[b]
          /\ portfolios'[p].realized = portfolios[p].realized
          /\ portfolios'[p].cash + account'[p].charged = portfolios[p].cash + account[p].charged
      BY <3>1, ChargedRows
    <3>3. portfolios'[q].cash \in Int /\ account'[q].charged \in Int
      <4>1. Tables' /\ q \in DOMAIN portfolios'
        BY DEF TypeInv
      <4>2. portfolios'[q] \in Portfolio /\ account'[q] \in Account
        <5>1. /\ portfolios' \in Seq(Portfolio) /\ account' \in Seq(Account)
              /\ Len(account') = Len(portfolios')
          BY <4>1 DEF Tables
        <5>2. DOMAIN portfolios' = DOMAIN account'
          BY <5>1, DomainFacts
        <5> QED BY <5>1, <5>2, DomainFacts
      <4> QED BY <4>2 DEF Portfolio, Account
    <3>4. CASE q = p
      <4>1. /\ portfolios'[q].realized = portfolios[q].realized
            /\ portfolios'[q].cash + account'[q].charged
                 = portfolios[q].cash + account[q].charged
        BY <3>2, <3>4
      <4> HIDE DEF p
      <4> QED BY <1>0, <2>1, <2>2, <3>3, <4>1
    <3>5. CASE q # p
      BY <1>2, <2>1, <3>2, <3>5
    <3> QED BY <3>4, <3>5
  <2>4. CASE \E a \in Actors : Credit(a)
    <3>1. PICK a \in Actors : Credit(a)
      BY <2>4
    <3> DEFINE p == actor[a].portfolio
               x == portfolios'[p]
               y == account'[p]
    <3>2. /\ p \in DOMAIN portfolios
          /\ portfolios' = [portfolios EXCEPT ![p] = x]
          /\ account' = [account EXCEPT ![p] = y]
          /\ x.cash = portfolios[p].cash + actor[a].gain
          /\ x.realized = portfolios[p].realized + actor[a].gain
          /\ y.charged = account[p].charged
      BY <3>1, CreditedRows
    <3>3. actor[a].gain \in Int
      BY RunFacts DEF Actor
    <3>4. DOMAIN account = DOMAIN portfolios
      BY Lengths DEF TypeInv
    <3>5. CASE q = p
      <4>1. /\ portfolios'[q].cash = portfolios[q].cash + actor[a].gain
            /\ portfolios'[q].realized = portfolios[q].realized + actor[a].gain
            /\ account'[q].charged = account[q].charged
        BY <3>2, <3>5
      <4> HIDE DEF p, x, y
      <4> QED BY <1>0, <2>1, <2>2, <3>3, <4>1
    <3>6. CASE q # p
      <4> HIDE DEF x, y
      <4>1. portfolios'[q] = portfolios[q] /\ account'[q] = account[q]
        BY <1>2, <3>2, <3>4, <3>6
      <4> QED BY <2>1, <4>1
    <3> QED BY <3>5, <3>6
  <2>5. CASE /\ \A a \in Actors : ~Charge(a) /\ ~Credit(a)
    <3>1. portfolios'[q].cash = portfolios[q].cash /\ portfolios'[q].realized = portfolios[q].realized
      BY <1>2, <2>5, Balances
    <3>2. account'[q].charged = account[q].charged
      <4>1. CASE SameEarnings
        BY <1>2, <4>1 DEF SameEarnings
      <4>2. ASSUME NEW a \in Actors, NEW r \in actor[a].selected, CloseRow(a, r)
            PROVE  account'[q].charged = account[q].charged
        <5> DEFINE p == r.row.portfolio
                   y == account'[p]
        <5>1. /\ p \in DOMAIN portfolios /\ account' = [account EXCEPT ![p] = y]
              /\ y.charged = account[p].charged
          BY <4>2, ClosedAccount, Zenon
        <5>2. DOMAIN account = DOMAIN portfolios
          BY Lengths DEF TypeInv
        <5>3. CASE q = p
          BY <5>1, <5>3
        <5>4. CASE q # p
          <6> HIDE DEF y, p
          <6> QED BY <1>2, <5>1, <5>2, <5>4
        <5> QED BY <5>3, <5>4
      <4> QED BY <2>5, <4>1, <4>2, Earnings
    <3> QED BY <2>1, <3>1, <3>2
  <2> QED BY <2>3, <2>4, <2>5
<1> QED BY <1>1, <1>2

LEMMA NoLosses ==
  ASSUME TypeInv, TypeInv', NEW q \in DOMAIN portfolios, NEW a \in Actors,
         "lost update" \notin account'[q].booked, Failing(a)
  PROVE  GainAfter(q)[a] = 0 /\ GainOf(q)[a] = 0
<1>1. GainOf(q)[a] = 0
  <2>1. CASE actor[a].pc = "credit"
    BY <2>1, FailedCredits DEF GainOf
  <2>2. CASE actor[a].pc # "credit"
    BY <2>2, RunFacts DEF GainOf, Legal, AtStep, NothingToBook
  <2> QED BY <2>1, <2>2
<1>2. GainAfter(q)[a] = 0
  <2>1. CASE actor'[a].pc = "credit"
    BY <2>1, FailedCredits DEF GainAfter
  <2>2. CASE actor'[a].pc # "credit"
    <3>1. Legal(actor'[a], DOMAIN portfolios', DOMAIN positions', DOMAIN trades',
                DOMAIN channels')
      BY DEF TypeInv, RunsLegal
    <3> QED BY <2>2, <3>1 DEF GainAfter, Legal, AtStep, NothingToBook
  <2> QED BY <2>1, <2>2
<1> QED BY <1>1, <1>2

LEMMA FreshGains ==
  ASSUME TypeInv, TypeInv', [Next]_vars, NEW q \in DOMAIN portfolios', q \notin DOMAIN portfolios
  PROVE  /\ portfolios'[q].realized = 0 /\ account'[q].earned = 0
         /\ PendingGainAfter(q) = 0
<1>1. PICK a \in Actors : CreatePortfolio(a) /\ q = Len(portfolios) + 1
  BY NewPortfolio
<1>2. /\ portfolios'[q].realized = 0 /\ account'[q] = NoAccount
      /\ actor'[a] = [actor[a] EXCEPT !.pc = "entry", !.portfolio = q]
  BY <1>1, InsertedRows
<1>3. account'[q].earned = 0
  BY <1>2 DEF NoAccount
<1>4. ASSUME NEW b \in Actors
      PROVE  GainAfter(q)[b] = 0
  <2>1. CASE b = a
    <3>1. actor'[a].pc = "entry"
      BY <1>2, RunFacts DEF Actor
    <3>2. Legal(actor'[a], DOMAIN portfolios', DOMAIN positions', DOMAIN trades',
                DOMAIN channels')
      BY DEF TypeInv, RunsLegal
    <3> QED BY <2>1, <3>1, <3>2 DEF GainAfter, Legal, AtStep, NothingToBook
  <2>2. CASE b # a
    <3>1. CreatePortfolio(a) => Request(a)
      BY DEF Request
    <3>2. actor'[b] = actor[b]
      BY <1>1, <2>2, <3>1, RequestShape
    <3>3. actor[b].portfolio \in DOMAIN portfolios \cup {0}
      BY RunFacts DEF Legal, Keeps
    <3>4. q # 0
      BY <1>1, Lengths DEF TypeInv
    <3> QED BY <3>2, <3>3, <3>4 DEF GainAfter
  <2> QED BY <2>1, <2>2
<1> QED BY <1>2, <1>3, <1>4, NoGains

LEMMA EarnedStep ==
  ASSUME TypeInv, TypeInv', EarnedInv, [Next]_vars
  PROVE  \A q \in DOMAIN portfolios' : account'[q].booked \subseteq {"late"} =>
           portfolios'[q].realized + PendingGainAfter(q) = account'[q].earned
<1> SUFFICES ASSUME NEW q \in DOMAIN portfolios', account'[q].booked \subseteq {"late"}
             PROVE  portfolios'[q].realized + PendingGainAfter(q) = account'[q].earned
  OBVIOUS
<1>1. CASE q \notin DOMAIN portfolios
  BY <1>1, FreshGains
<1>2. CASE q \in DOMAIN portfolios
  <2>1. account[q].booked \subseteq account'[q].booked
    BY <1>2, BookedKept
  <2>2. portfolios[q].realized + PendingGain(q) = account[q].earned
    BY <1>2, <2>1 DEF EarnedInv
  <2>3. /\ portfolios[q].realized \in Int /\ PendingGain(q) \in Int /\ account[q].earned \in Int
    BY <1>2, AccountFields, GainTypes DEF TypeInv
  <2>4. "lost update" \notin account'[q].booked /\ "stale row" \notin account'[q].booked
    OBVIOUS
  <2>5. ASSUME NEW a \in Actors, actor[a].pc # "credit"
        PROVE  GainOf(q)[a] = 0
    BY <2>5, RunFacts DEF GainOf, Legal, AtStep, NothingToBook
  <2>6. ASSUME NEW a \in Actors, actor'[a].pc # "credit"
        PROVE  GainAfter(q)[a] = 0
    <3>1. Legal(actor'[a], DOMAIN portfolios', DOMAIN positions', DOMAIN trades',
                DOMAIN channels')
      BY DEF TypeInv, RunsLegal
    <3> QED BY <2>6, <3>1 DEF GainAfter, Legal, AtStep, NothingToBook
  <2>7. CASE Crash
    <3>1. /\ portfolios' = portfolios /\ account'[q].earned = account[q].earned
          /\ actor' = [a \in Actors |-> Idle]
      BY <1>2, <2>7, CrashBooks DEF rows
    <3>2. ASSUME NEW a \in Actors
          PROVE  GainAfter(q)[a] = GainOf(q)[a]
      <4>1. GainAfter(q)[a] = 0
        BY <2>6, <3>1, IdleFacts
      <4>2. GainOf(q)[a] = 0
        <5>1. CASE actor[a].pc = "credit" /\ actor[a].portfolio = q
          BY <1>2, <2>4, <2>7, <5>1, CrashBooks
        <5>2. CASE actor[a].portfolio # q
          BY <5>2 DEF GainOf
        <5> QED BY <2>5, <5>1, <5>2
      <4> QED BY <4>1, <4>2
    <3>3. PendingGainAfter(q) = PendingGain(q)
      BY <3>2, SameGains
    <3> QED BY <2>2, <3>1, <3>3
  <2>8. ASSUME NEW c \in Actors, Failing(c)
        PROVE  portfolios'[q].realized + PendingGainAfter(q) = account'[q].earned
    <3>1. portfolios' = portfolios /\ account'[q].earned = account[q].earned
      BY <1>2, <2>8, FailedBooks DEF rows
    <3>2. ASSUME NEW a \in Actors
          PROVE  GainAfter(q)[a] = GainOf(q)[a]
      <4>1. CASE a = c
        BY <1>2, <2>4, <2>8, <4>1, NoLosses
      <4>2. CASE a # c
        <5>1. actor'[a] = actor[a]
          BY <2>8, <4>2, FailingShape
        <5> QED BY <5>1 DEF GainAfter, GainOf
      <4> QED BY <4>1, <4>2
    <3>3. PendingGainAfter(q) = PendingGain(q)
      BY <3>2, SameGains
    <3> QED BY <2>2, <3>1, <3>3
  <2>9. ASSUME NEW a \in Actors, NEW r \in actor[a].selected, CloseRow(a, r)
        PROVE  portfolios'[q].realized + PendingGainAfter(q) = account'[q].earned
    <3> DEFINE p == r.row.portfolio
               g == Booking(actor[a], r).gain
               y == account'[p]
    <3>1. /\ Set(a, Booking(actor[a], r)) /\ portfolios' = portfolios /\ actor[a].pc = "close"
      BY <2>9, Zenon DEF CloseRow
    <3>2. actor'[a] = Booking(actor[a], r) /\ \A b \in Actors \ {a} : actor'[b] = actor[b]
      BY <3>1, SetFacts
    <3>3. Booking(actor[a], r).portfolio = p
      BY RunFacts, BookingFields
    <3>4. GainAfter(q)[a] = (IF p = q THEN g ELSE 0) /\ GainOf(q)[a] = 0
      BY <2>5, <3>1, <3>2, <3>3 DEF GainAfter
    <3>5. PendingGainAfter(q) = PendingGain(q) + (GainAfter(q)[a] - GainOf(q)[a])
      BY <3>2, GainMoves
    <3>6. g \in Int
      <4>1. actor'[a] \in Actor
        BY DEF TypeInv
      <4> QED BY <3>2, <4>1 DEF Actor
    <3>7. /\ p \in DOMAIN portfolios /\ account' = [account EXCEPT ![p] = y]
          /\ y.earned = account[p].earned + g
      BY <2>9, ClosedAccount, Zenon
    <3>8. DOMAIN account = DOMAIN portfolios
      BY Lengths DEF TypeInv
    <3>9. account'[q].earned = account[q].earned + IF p = q THEN g ELSE 0
      <4>1. CASE p = q
        BY <3>7, <4>1
      <4>2. CASE p # q
        <5> HIDE DEF p, g, y
        <5>1. account'[q] = account[q]
          BY <1>2, <3>7, <3>8, <4>2
        <5> QED BY <2>3, <4>2, <5>1
      <4> QED BY <4>1, <4>2
    <3> HIDE DEF p, g, y
    <3> QED BY <2>2, <2>3, <3>1, <3>4, <3>5, <3>6, <3>9
  <2>10. ASSUME NEW a \in Actors, Credit(a)
         PROVE  portfolios'[q].realized + PendingGainAfter(q) = account'[q].earned
    <3> DEFINE p == actor[a].portfolio
               g == actor[a].gain
               x == portfolios'[p]
               y == account'[p]
    <3>1. Set(a, Continue(NextRow(actor[a])))
      BY <2>10, Zenon DEF Credit
    <3>2. actor'[a].pc # "credit" /\ \A b \in Actors \ {a} : actor'[b] = actor[b]
      BY <3>1, RunFacts, NextRowType, NotToCredit, SetFacts
    <3>3. GainAfter(q)[a] = 0 /\ GainOf(q)[a] = (IF p = q THEN g ELSE 0)
      BY <2>6, <3>2 DEF GainOf
    <3>4. PendingGainAfter(q) = PendingGain(q) + (GainAfter(q)[a] - GainOf(q)[a])
      BY <3>2, GainMoves
    <3>5. g \in Int
      BY RunFacts DEF Actor
    <3>6. /\ p \in DOMAIN portfolios
          /\ portfolios' = [portfolios EXCEPT ![p] = x]
          /\ account' = [account EXCEPT ![p] = y]
          /\ x.realized = portfolios[p].realized + g
          /\ y.earned = account[p].earned
      BY <2>10, CreditedRows
    <3>7. DOMAIN account = DOMAIN portfolios
      BY Lengths DEF TypeInv
    <3>8. /\ account'[q].earned = account[q].earned
          /\ portfolios'[q].realized = portfolios[q].realized + IF p = q THEN g ELSE 0
      <4>1. CASE p = q
        BY <3>6, <4>1
      <4>2. CASE p # q
        <5> HIDE DEF p, g, x, y
        <5>1. account'[q] = account[q] /\ portfolios'[q] = portfolios[q]
          BY <1>2, <3>6, <3>7, <4>2
        <5> QED BY <2>3, <4>2, <5>1
      <4> QED BY <4>1, <4>2
    <3> HIDE DEF p, g, x, y
    <3> QED BY <2>2, <2>3, <3>3, <3>4, <3>5, <3>8
  <2>11. CASE /\ ~Crash
              /\ \A a \in Actors : /\ ~Failing(a) /\ ~Credit(a)
                                   /\ \A r \in actor[a].selected : ~CloseRow(a, r)
    <3>1. ASSUME NEW a \in Actors
          PROVE  GainAfter(q)[a] = GainOf(q)[a]
      <4>1. CASE actor'[a] = actor[a]
        BY <4>1 DEF GainAfter, GainOf
      <4>2. CASE NothingToBook(actor[a]) /\ NothingToBook(actor'[a])
        BY <4>2 DEF GainAfter, GainOf, NothingToBook
      <4> QED BY <2>11, <4>1, <4>2, Bookers
    <3>2. PendingGainAfter(q) = PendingGain(q)
      BY <3>1, SameGains
    <3>3. CASE \E a \in Actors : Charge(a)
      <4>1. PICK a \in Actors : Charge(a)
        BY <3>3
      <4> DEFINE p == actor[a].portfolio
      <4>2. /\ p \in DOMAIN portfolios
            /\ \A b \in DOMAIN portfolios \ {p} : portfolios'[b] = portfolios[b]
                                                  /\ account'[b] = account[b]
            /\ portfolios'[p].realized = portfolios[p].realized
            /\ account'[p].earned = account[p].earned
        BY <4>1, ChargedRows
      <4>3. portfolios'[q].realized = portfolios[q].realized
            /\ account'[q].earned = account[q].earned
        BY <1>2, <4>2
      <4> QED BY <2>2, <3>2, <4>3
    <3>4. CASE \A a \in Actors : ~Charge(a)
      <4>1. portfolios'[q].realized = portfolios[q].realized
        BY <1>2, <2>11, <3>4, Balances
      <4>2. account'[q].earned = account[q].earned
        BY <1>2, <2>11, <3>4, Earnings DEF SameEarnings
      <4> QED BY <2>2, <3>2, <4>1, <4>2
    <3> QED BY <3>3, <3>4
  <2> QED BY <2>7, <2>8, <2>9, <2>10, <2>11
<1> QED BY <1>1, <1>2

(* The realized column of a portfolio is what its closed quantities earned, and
   its cash follows, however users, settlements and finalizations interleave
   their increments, until an update is lost or a row is closed from a row
   that had changed.                                                      *)
THEOREM BooksAlwaysBalance == Spec => []BooksBalance
<1>1. Init => CashInv /\ EarnedInv
  <2> SUFFICES ASSUME Init PROVE CashInv /\ EarnedInv
    OBVIOUS
  <2>1. portfolios = <<>>
    BY DEF Init
  <2> QED BY <2>1 DEF CashInv, EarnedInv
<1>2. TypeInv /\ TypeInv' /\ CashInv /\ EarnedInv /\ [Next]_vars => CashInv' /\ EarnedInv'
  <2> SUFFICES ASSUME TypeInv, TypeInv', CashInv, EarnedInv, [Next]_vars
               PROVE  CashInv' /\ EarnedInv'
    OBVIOUS
  <2>1. CashInv'
    BY CashStep
  <2>2. \A q : PendingGain(q)' = PendingGainAfter(q)
    BY DEF PendingGain, PendingGainAfter, GainAfter
  <2>3. \A q \in DOMAIN portfolios' : account'[q].booked \subseteq {"late"} =>
           portfolios'[q].realized + PendingGainAfter(q) = account'[q].earned
    BY EarnedStep
  <2>4. EarnedInv'
    BY <2>2, <2>3 DEF EarnedInv
  <2> QED BY <2>1, <2>4
<1>3. CashInv /\ EarnedInv => BooksBalance
  BY DEF CashInv, EarnedInv, BooksBalance
<1> QED BY <1>1, <1>2, <1>3, TypesHold, PTL DEF Spec

=============================================================================
