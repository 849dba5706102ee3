------------------------- MODULE AnalystBooksProofs --------------------------
(***************************************************************************)
(* For any number of pipelines, settlements, ticks and resets, any signals,*)
(* prices, sizes and failures: the types, the balance of the books, one    *)
(* position per signal, no tradable signal forgotten, a flat session, and  *)
(* a status that is that of the last close.                                *)
(*                                                                         *)
(* A run between two statements knows at which it is; what that says of    *)
(* the rest of what it holds is Legal.                                     *)
(***************************************************************************)
EXTENDS AnalystBooks, SumsTheorems

CloseSteps == {"close", "credit", "check", "status"}

OpenSteps == {"portfolio", "insert", "cash"}

StepsOf(op) ==
  CASE op = "idle" -> {"idle"}
    [] op = "trader" -> OpenSteps \cup {"lookup"}
    [] op = "paper" -> {"paper"}
    [] op = "forced" -> OpenSteps \cup {"lookup", "next"}
    [] op = "backfill" -> OpenSteps \cup {"next", "period"}
    [] op = "resolve" -> CloseSteps \cup {"next", "expired"}
    [] op = "watch" -> CloseSteps \cup {"next"}
    [] op = "strategy" -> CloseSteps \cup {"positions", "insert", "cash"}
    [] op = "flat" -> CloseSteps \cup {"positions", "next"}
    [] op = "reset" -> CloseSteps \cup {"next", "ledger", "topup"}

Buys == {"forced", "backfill"}

Closes == {"resolve", "watch", "flat", "reset"}

OpsOf(k) == IF k = "day_trader" THEN {"idle", "strategy", "flat", "reset"}
            ELSE {"idle", "trader", "paper", "resolve", "watch", "reset"} \cup Buys

Steps == {"idle", "lookup", "paper", "next", "period", "expired", "positions",
          "ledger", "topup"} \cup OpenSteps \cup CloseSteps

Run == [op : OpsOf("analyst") \cup OpsOf("day_trader"), pc : Steps,
        signal : Nat, rows : Seq(Signal), direction : Directions,
        quantity : Nat, price : Prices \cup {0}, paper : BOOLEAN,
        position : Nat, balance : Int, grade : Statuses,
        todo : SUBSET Nat, seen : SUBSET Nat]

(* The position a run works on is there; the money it has still to move is
   that of a position that is not on paper.                                *)
RowLegal(p, ids, real) ==
  /\ p.position \in ids \cup {0}
  /\ p.pc = "close" => p.position \in ids
  /\ p.pc \in {"cash", "credit"} => p.position \in real
  /\ p.pc \in {"lookup", "insert", "close", "credit"} => p.price # 0
  /\ p.pc \in {"lookup", "insert"} => p.quantity # 0

SignalLegal(p, numbers) ==
  /\ p.signal \in numbers \cup {0}
  /\ p.op = "strategy" => p.signal = 0
  /\ p.pc \in {"period", "portfolio", "lookup", "insert"} /\ p.op # "strategy" =>
       p.signal \in numbers
  /\ p.pc \in {"period", "portfolio"} => p.signal \in DOMAIN p.rows

TodoLegal(p, ids, numbers) ==
  /\ p.op \in Buys => /\ p.todo \subseteq DOMAIN p.rows
                      /\ p.todo \subseteq numbers
                      /\ p.seen \subseteq numbers
  /\ p.op \in Closes => p.todo \subseteq ids /\ p.seen \subseteq ids

Legal(p, k, ids, numbers, real) ==
  /\ p.pc \in StepsOf(p.op)
  /\ p.op \in OpsOf(k)
  /\ p.op = "idle" => p = Idle
  /\ RowLegal(p, ids, real)
  /\ SignalLegal(p, numbers)
  /\ TodoLegal(p, ids, numbers)

RunsLegal == \A a \in Actors :
  Legal(actor[a], kind, DOMAIN positions, DOMAIN signals, Real)

TypeInv ==
  /\ TypeOK
  /\ actor \in [Actors -> Run]
  /\ judged \in [cash : Int, sure : BOOLEAN]
  /\ Len(signals) <= MaxSignals
  /\ \A i \in DOMAIN positions : positions[i].signal <= Len(signals)
  /\ RunsLegal

-----------------------------------------------------------------------------
(* Sequences and sizes *)

LEMMA AppendFacts ==
  ASSUME NEW S, NEW s \in Seq(S), NEW x \in S
  PROVE  /\ Append(s, x) \in Seq(S)
         /\ Len(Append(s, x)) = Len(s) + 1
         /\ DOMAIN Append(s, x) = DOMAIN s \cup {Len(s) + 1}
         /\ Append(s, x)[Len(s) + 1] = x
         /\ Len(s) + 1 \notin DOMAIN s
         /\ \A i \in DOMAIN s : Append(s, x)[i] = s[i]
OBVIOUS

LEMMA ExceptFacts ==
  ASSUME NEW S, NEW s \in Seq(S), NEW i \in DOMAIN s, NEW x \in S
  PROVE  /\ [s EXCEPT ![i] = x] \in Seq(S)
         /\ Len([s EXCEPT ![i] = x]) = Len(s)
         /\ DOMAIN [s EXCEPT ![i] = x] = DOMAIN s
OBVIOUS

LEMMA DomainFacts ==
  ASSUME NEW S, NEW s \in Seq(S)
  PROVE  /\ Len(s) \in Nat
         /\ DOMAIN s = 1..Len(s)
         /\ \A i \in DOMAIN s : s[i] \in S /\ i \in Nat \ {0}
OBVIOUS

LEMMA Bounds ==
  /\ MaxDays \in Nat /\ MaxEvents \in Nat /\ MaxInFlight \in Nat
  /\ MaxSignals \in Nat /\ MaxPositions \in Nat /\ PaperDays \in Nat
  /\ InitialBalance \in Nat
BY ConstantsAssumption

LEMMA Quotient ==
  ASSUME NEW x \in Int, NEW y \in Nat, y > 0
  PROVE  x \div y \in Int
OBVIOUS

LEMMA SizeType ==
  ASSUME NEW balance \in Int, NEW price \in Nat, NEW percent \in Nat
  PROVE  /\ calculatePositionSize(balance, price, percent) \in Nat
         /\ calculatePositionSize(balance, price, percent) # 0 => price # 0
<1>1. CASE price = 0 \/ percent = 0
  BY <1>1 DEF calculatePositionSize
<1>2. CASE price # 0 /\ percent # 0
  <2>1. balance * percent \in Int /\ 100 * price \in Nat /\ 100 * price > 0
    BY <1>2
  <2>2. (balance * percent) \div (100 * price) \in Int
    BY <2>1, Quotient
  <2> QED BY <1>2, <2>2 DEF calculatePositionSize, AtLeastZero
<1> QED BY <1>1, <1>2

LEMMA GradeType ==
  ASSUME NEW balance
  PROVE  determinePortfolioStatus(balance) \in Statuses
BY DEF determinePortfolioStatus, Statuses

-----------------------------------------------------------------------------
(* What is held between statements *)

LEMMA IdleFacts ==
  /\ Idle \in Run
  /\ Idle.op = "idle" /\ Idle.pc = "idle" /\ Idle.signal = 0 /\ Idle.position = 0
  /\ Idle.todo = {} /\ Idle.seen = {} /\ Idle.rows = <<>> /\ Idle.paper = FALSE
  /\ Idle.balance = 0 /\ Idle.price = 0
BY DEF Idle, Run, OpsOf, Steps, Directions, Statuses

LEMMA IdleLegal ==
  ASSUME NEW k, NEW ids, NEW numbers, NEW real
  PROVE  Idle \in Run /\ Legal(Idle, k, ids, numbers, real)
BY IdleFacts DEF Legal, StepsOf, OpsOf, RowLegal, SignalLegal, TodoLegal, Buys, Closes

(* Tables only grow. *)
LEMMA LegalStays ==
  ASSUME NEW p, NEW k, NEW ids, NEW numbers, NEW real, Legal(p, k, ids, numbers, real),
         NEW moreIds, ids \subseteq moreIds, NEW moreNumbers, numbers \subseteq moreNumbers,
         NEW moreReal, real \subseteq moreReal
  PROVE  Legal(p, k, moreIds, moreNumbers, moreReal)
BY DEF Legal, RowLegal, SignalLegal, TodoLegal

LEMMA ActorStep ==
  ASSUME TypeInv, NEW a \in Actors, NEW p \in Run, Set(a, p),
         Legal(p, kind', DOMAIN positions', DOMAIN signals', Real'),
         kind' = kind, DOMAIN positions \subseteq DOMAIN positions',
         DOMAIN signals \subseteq DOMAIN signals', Real \subseteq Real'
  PROVE  actor' \in [Actors -> Run] /\ RunsLegal'
<1>1. actor \in [Actors -> Run]
  BY DEF TypeInv
<1>2. /\ actor' \in [Actors -> Run] /\ actor'[a] = p
      /\ \A b \in Actors \ {a} : actor'[b] = actor[b]
  BY <1>1 DEF Set
<1>3. ASSUME NEW b \in Actors
      PROVE  Legal(actor'[b], kind', DOMAIN positions', DOMAIN signals', Real')
  <2>1. CASE b = a
    BY <1>2, <2>1
  <2>2. CASE b # a
    <3>1. Legal(actor[b], kind, DOMAIN positions, DOMAIN signals, Real)
      BY DEF TypeInv, RunsLegal
    <3> QED BY <1>2, <2>2, <3>1, LegalStays
  <2> QED BY <2>1, <2>2
<1> QED BY <1>2, <1>3 DEF RunsLegal

Unseen(p, s) == [p EXCEPT !.seen = @ \ {s}]

LEMMA LessSeen ==
  ASSUME NEW k, NEW ids, NEW numbers, NEW real, NEW p \in Run,
         Legal(p, k, ids, numbers, real), p.op # "idle", NEW s
  PROVE  /\ Unseen(p, s) \in Run
         /\ Legal(Unseen(p, s), k, ids, numbers, real)
         /\ Unseen(p, s).op = p.op
<1> DEFINE q == Unseen(p, s)
<1>1. /\ q \in Run /\ q.seen \subseteq p.seen /\ q.op = p.op /\ q.pc = p.pc
      /\ q.position = p.position /\ q.price = p.price /\ q.quantity = p.quantity
      /\ q.signal = p.signal /\ q.rows = p.rows /\ q.todo = p.todo
  BY DEF Run, Unseen
<1> HIDE DEF q
<1>2. Legal(q, k, ids, numbers, real)
  BY <1>1 DEF Legal, RowLegal, SignalLegal, TodoLegal
<1> QED BY <1>1, <1>2 DEF q

LEMMA ContinueFacts ==
  ASSUME NEW p \in Run
  PROVE  LET q == Continue(p)
         IN /\ p.op = "strategy" => q = Idle
            /\ p.op = "trader" =>
                 /\ q \in Run /\ q.op = "paper" /\ q.pc = "paper" /\ q.signal = p.signal
                 /\ q.todo = {} /\ q.seen = {} /\ q.rows = <<>> /\ q.position = 0
            /\ p.op \notin {"strategy", "trader"} =>
                 /\ q \in Run /\ q.op = p.op /\ q.pc = "next" /\ q.signal = 0
                 /\ q.todo = p.todo /\ q.seen = p.seen /\ q.position = 0
                 /\ q.rows = IF p.todo = {} THEN <<>> ELSE p.rows
<1>1. CASE p.op = "strategy"
  BY <1>1 DEF Continue
<1>2. CASE p.op = "trader"
  BY <1>2, IdleFacts DEF Continue, Run, Idle, OpsOf, Steps
<1>3. CASE p.op \notin {"strategy", "trader"}
  <2> DEFINE r == IF p.todo = {} THEN <<>> ELSE p.rows
  <2>1. r \in Seq(Signal)
    BY DEF Run
  <2> HIDE DEF r
  <2>2. Continue(p) = [Idle EXCEPT !.op = p.op, !.pc = "next", !.todo = p.todo,
                                   !.seen = p.seen, !.rows = r]
    BY <1>3 DEF Continue, r
  <2>3. LET q == [Idle EXCEPT !.op = p.op, !.pc = "next", !.todo = p.todo,
                              !.seen = p.seen, !.rows = r]
        IN /\ q \in Run /\ q.op = p.op /\ q.pc = "next" /\ q.signal = 0
           /\ q.todo = p.todo /\ q.seen = p.seen /\ q.position = 0 /\ q.rows = r
    BY <2>1, IdleFacts DEF Run, Steps, Idle
  <2> QED BY <1>3, <2>2, <2>3 DEF r
<1> QED BY <1>1, <1>2, <1>3

LEMMA ContinueLegal ==
  ASSUME NEW k, NEW ids, NEW numbers, NEW real, NEW p \in Run,
         p.op # "idle", p.op # "paper", Legal(p, k, ids, numbers, real)
  PROVE  Continue(p) \in Run /\ Legal(Continue(p), k, ids, numbers, real)
<1> DEFINE q == Continue(p)
<1>1. CASE p.op = "strategy"
  BY <1>1, ContinueFacts, IdleLegal
<1>2. CASE p.op = "trader"
  <2>1. /\ q \in Run /\ q.op = "paper" /\ q.pc = "paper" /\ q.signal = p.signal
        /\ q.position = 0
    BY <1>2, ContinueFacts
  <2> HIDE DEF q
  <2>2. Legal(q, k, ids, numbers, real)
    BY <1>2, <2>1 DEF Legal, StepsOf, OpsOf, RowLegal, SignalLegal, TodoLegal, Buys, Closes
  <2> QED BY <2>1, <2>2 DEF q
<1>3. CASE p.op \notin {"strategy", "trader"}
  <2>1. /\ q \in Run /\ q.op = p.op /\ q.pc = "next" /\ q.signal = 0
        /\ q.todo = p.todo /\ q.seen = p.seen /\ q.position = 0
        /\ q.rows = IF p.todo = {} THEN <<>> ELSE p.rows
    BY <1>3, ContinueFacts
  <2> HIDE DEF q
  <2>2. q.pc \in StepsOf(q.op) /\ q.op \in OpsOf(k) /\ q.op # "idle"
    BY <1>3, <2>1 DEF Legal, StepsOf, OpsOf, Buys
  <2>3. RowLegal(q, ids, real) /\ SignalLegal(q, numbers)
    BY <2>1 DEF RowLegal, SignalLegal
  <2>4. TodoLegal(q, ids, numbers)
    BY <2>1 DEF Legal, TodoLegal
  <2>5. Legal(q, k, ids, numbers, real)
    BY <2>2, <2>3, <2>4 DEF Legal
  <2> QED BY <2>1, <2>5 DEF q
<1> QED BY <1>1, <1>2, <1>3

LEMMA RunFacts ==
  ASSUME TypeInv, NEW a \in Actors
  PROVE  /\ actor[a] \in Run
         /\ Legal(actor[a], kind, DOMAIN positions, DOMAIN signals, Real)
         /\ Len(positions) \in Nat /\ DOMAIN positions = 1..Len(positions)
         /\ Len(signals) \in Nat /\ DOMAIN signals = 1..Len(signals)
         /\ Real \subseteq DOMAIN positions
BY DomainFacts DEF TypeInv, TypeOK, RunsLegal, Real

LEMMA StepOps ==
  ASSUME NEW k, NEW ids, NEW numbers, NEW real, NEW p,
         Legal(p, k, ids, numbers, real)
  PROVE  /\ p.op = "idle" <=> p.pc = "idle"
         /\ p.pc = "portfolio" => p.op \in {"trader"} \cup Buys
         /\ p.pc = "lookup" => p.op \in {"trader", "forced"}
         /\ p.pc \in {"insert", "cash"} => p.op \in {"trader", "strategy"} \cup Buys
         /\ p.pc = "paper" => p.op = "paper"
         /\ p.pc = "period" => p.op = "backfill"
         /\ p.pc = "expired" => p.op = "resolve"
         /\ p.pc = "positions" => p.op \in {"strategy", "flat"}
         /\ p.pc \in CloseSteps => p.op \in {"strategy"} \cup Closes
         /\ p.pc \in {"ledger", "topup"} => p.op = "reset"
         /\ p.pc = "next" => p.op \in Buys \cup Closes
         /\ p.op \in {"trader", "paper", "resolve", "watch"} \cup Buys => k # "day_trader"
         /\ p.op \in {"strategy", "flat"} => k = "day_trader"
<1>1. p.pc \in StepsOf(p.op) /\ p.op \in OpsOf(k)
  BY DEF Legal
<1>2. p.op \in {"idle", "trader", "paper", "forced", "backfill", "resolve", "watch",
                "strategy", "flat", "reset"}
  BY <1>1 DEF OpsOf, Buys
<1> QED BY <1>1, <1>2 DEF StepsOf, OpsOf, OpenSteps, CloseSteps, Buys, Closes

(* What a run becomes in a step that leaves the tables alone. *)
NextRun(a) == \E q \in Run :
  Set(a, q) /\ Legal(q, kind, DOMAIN positions, DOMAIN signals, Real)

LEMMA ToIdle ==
  ASSUME NEW a, Set(a, Idle)
  PROVE  NextRun(a)
BY IdleLegal DEF NextRun

LEMMA ToContinue ==
  ASSUME TypeInv, NEW a \in Actors, actor[a].op \notin {"idle", "paper"},
         Set(a, Continue(actor[a]))
  PROVE  NextRun(a)
BY RunFacts, ContinueLegal DEF NextRun

LEMMA ToContinueLess ==
  ASSUME TypeInv, NEW a \in Actors, actor[a].op \notin {"idle", "paper"}, NEW s,
         Set(a, Continue([actor[a] EXCEPT !.seen = @ \ {s}]))
  PROVE  NextRun(a)
<1> DEFINE p == actor[a]
           q == Unseen(p, s)
<1>1. p \in Run /\ Legal(p, kind, DOMAIN positions, DOMAIN signals, Real)
  BY RunFacts
<1>2. /\ q \in Run /\ q.op = p.op
      /\ Legal(q, kind, DOMAIN positions, DOMAIN signals, Real)
  BY <1>1, LessSeen
<1>3. Set(a, Continue(q))
  BY DEF Unseen
<1> HIDE DEF q
<1>4. Continue(q) \in Run /\ Legal(Continue(q), kind, DOMAIN positions, DOMAIN signals, Real)
  BY <1>2, ContinueLegal
<1> QED BY <1>3, <1>4 DEF NextRun

(* The step only: what a run holds is legal at the next one. *)
LEMMA ToStep ==
  ASSUME TypeInv, NEW a \in Actors, NEW pc \in Steps, actor[a].op # "idle",
         Set(a, [actor[a] EXCEPT !.pc = pc]), pc \in StepsOf(actor[a].op),
         RowLegal([actor[a] EXCEPT !.pc = pc], DOMAIN positions, Real),
         SignalLegal([actor[a] EXCEPT !.pc = pc], DOMAIN signals)
  PROVE  NextRun(a)
<1> DEFINE p == actor[a]
           q == [p EXCEPT !.pc = pc]
<1>1. p \in Run /\ Legal(p, kind, DOMAIN positions, DOMAIN signals, Real)
  BY RunFacts
<1>2. q \in Run /\ q.op = p.op /\ q.todo = p.todo /\ q.seen = p.seen
      /\ q.rows = p.rows /\ q.pc = pc
  BY <1>1 DEF Run
<1>3. RowLegal(q, DOMAIN positions, Real) /\ SignalLegal(q, DOMAIN signals) /\ Set(a, q)
  OBVIOUS
<1> HIDE DEF p, q
<1>4. Legal(q, kind, DOMAIN positions, DOMAIN signals, Real)
  BY <1>1, <1>2, <1>3 DEF Legal, TodoLegal, p
<1> QED BY <1>2, <1>3, <1>4 DEF NextRun

LEMMA SizeRun ==
  ASSUME TypeInv, NEW a \in Actors, NEW price \in Prices, SizePosition(a, price)
  PROVE  NextRun(a)
<1> DEFINE p == actor[a]
           s == p.rows[p.signal]
           quantity == calculatePositionSize(cash, price, Percent[s.strength])
<1>1. /\ p \in Run /\ Legal(p, kind, DOMAIN positions, DOMAIN signals, Real)
      /\ p.pc = "portfolio" /\ p.op \in {"trader"} \cup Buys
  BY RunFacts, StepOps DEF SizePosition
<1>2. quantity \in Nat /\ (quantity # 0 => price # 0)
  <2>1. p.signal \in DOMAIN p.rows /\ p.rows \in Seq(Signal)
    BY <1>1 DEF Legal, SignalLegal, Run
  <2>2. s \in Signal
    <3> HIDE DEF p
    <3> QED BY <2>1, DomainFacts
  <2>3. s.strength \in Strengths
    BY <2>2 DEF Signal
  <2>4. Percent[s.strength] \in 0..100
    BY <2>3, ConstantsAssumption
  <2>5. Percent[s.strength] \in Nat
    <3>1. \A n \in 0..100 : n \in Nat
      OBVIOUS
    <3> HIDE DEF s
    <3> QED BY <2>4, <3>1
  <2>6. price \in Nat
    BY ConstantsAssumption
  <2>7. cash \in Int
    BY DEF TypeInv, TypeOK
  <2> HIDE DEF s
  <2> QED BY <2>5, <2>6, <2>7, SizeType
<1>3. CASE quantity = 0
  <2>1. Set(a, Continue([actor[a] EXCEPT !.seen = @ \ {p.signal}]))
    BY <1>3 DEF SizePosition
  <2> QED BY <1>1, <2>1, ToContinueLess DEF Buys
<1>4. CASE quantity # 0
  <2> HIDE DEF quantity
  <2> DEFINE pc == IF p.op = "backfill" THEN "insert" ELSE "lookup"
             d == IF s.direction = "down" THEN "short" ELSE "long"
             r == IF p.todo = {} THEN <<>> ELSE p.rows
             b == p.paper \/ (p.op = "backfill" /\ status = "suspended")
             q == [p EXCEPT !.pc = pc, !.direction = d, !.quantity = quantity,
                            !.price = price, !.rows = r, !.paper = b]
  <2>1. Set(a, q)
    BY <1>4 DEF SizePosition, quantity
  <2>2. /\ pc \in Steps /\ d \in Directions /\ r \in Seq(Signal) /\ b \in BOOLEAN
        /\ pc \in StepsOf(p.op) /\ pc \in {"insert", "lookup"}
    BY <1>1 DEF Steps, Directions, Run, StepsOf, OpenSteps, Buys
  <2>3. DOMAIN r = IF p.todo = {} THEN {} ELSE DOMAIN p.rows
    OBVIOUS
  <2> HIDE DEF pc, d, r, b, s
  <2>4. /\ q \in Run /\ q.op = p.op /\ q.pc = pc /\ q.todo = p.todo /\ q.seen = p.seen
        /\ q.rows = r /\ q.position = p.position /\ q.signal = p.signal
        /\ q.quantity = quantity /\ q.price = price
    BY <1>1, <1>2, <2>2 DEF Run
  <2> HIDE DEF q
  <2>5. RowLegal(q, DOMAIN positions, Real)
    BY <1>1, <1>2, <1>4, <2>2, <2>4 DEF Legal, RowLegal
  <2>6. SignalLegal(q, DOMAIN signals)
    BY <1>1, <2>2, <2>4 DEF Legal, SignalLegal, Buys
  <2>7. TodoLegal(q, DOMAIN positions, DOMAIN signals)
    BY <1>1, <2>3, <2>4 DEF Legal, TodoLegal
  <2>8. Legal(q, kind, DOMAIN positions, DOMAIN signals, Real)
    BY <1>1, <2>2, <2>4, <2>5, <2>6, <2>7 DEF Legal, Buys
  <2> QED BY <2>1, <2>4, <2>8 DEF NextRun
<1> QED BY <1>3, <1>4

LEMMA FindRun ==
  ASSUME TypeInv, NEW a \in Actors,
         FindPosition(a) \/ (actor[a].pc = "lookup" /\ Set(a, [actor[a] EXCEPT !.pc = "insert"]))
  PROVE  NextRun(a)
<1> DEFINE p == actor[a]
           q == [p EXCEPT !.pc = "insert"]
<1>1. /\ p \in Run /\ Legal(p, kind, DOMAIN positions, DOMAIN signals, Real)
      /\ p.pc = "lookup" /\ p.op \in {"trader", "forced"}
  BY RunFacts, StepOps DEF FindPosition
<1>2. CASE Set(a, Continue(p))
  BY <1>1, <1>2, ToContinue
<1>3. CASE Set(a, q)
  <2>1. /\ q.op = p.op /\ q.pc = "insert" /\ q.rows = p.rows /\ q.position = p.position
        /\ q.signal = p.signal /\ q.quantity = p.quantity /\ q.price = p.price
    BY <1>1 DEF Run
  <2>2. RowLegal(q, DOMAIN positions, Real) /\ SignalLegal(q, DOMAIN signals)
    <3> HIDE DEF q
    <3> QED BY <1>1, <2>1 DEF Legal, RowLegal, SignalLegal
  <2>3. "insert" \in Steps /\ "insert" \in StepsOf(p.op)
    BY <1>1 DEF Steps, StepsOf, OpenSteps
  <2> QED BY <1>1, <1>3, <2>2, <2>3, ToStep
<1> QED BY <1>2, <1>3 DEF FindPosition

LEMMA CheckRun ==
  ASSUME TypeInv, NEW a \in Actors, CheckStatus(a)
  PROVE  NextRun(a)
<1> DEFINE p == actor[a]
           grade == determinePortfolioStatus(cash)
           q == [p EXCEPT !.pc = "status", !.grade = grade]
<1>1. /\ p \in Run /\ Legal(p, kind, DOMAIN positions, DOMAIN signals, Real)
      /\ p.pc = "check" /\ p.op \in {"strategy"} \cup Closes
  BY RunFacts, StepOps DEF CheckStatus, CloseSteps
<1>2. grade \in Statuses
  BY GradeType
<1>3. Set(a, Continue(p)) \/ Set(a, q)
  BY DEF CheckStatus
<1> HIDE DEF grade
<1>4. CASE Set(a, Continue(p))
  BY <1>1, <1>4, ToContinue DEF Closes
<1>5. CASE Set(a, q)
  <2>1. /\ q \in Run /\ q.op = p.op /\ q.pc = "status" /\ q.rows = p.rows
        /\ q.position = p.position /\ q.signal = p.signal /\ q.todo = p.todo
        /\ q.seen = p.seen
    BY <1>1, <1>2 DEF Run, Steps, CloseSteps
  <2> HIDE DEF q, p
  <2>2. q.pc \in StepsOf(q.op)
    BY <1>1, <2>1 DEF StepsOf, CloseSteps, Closes
  <2>3. Legal(q, kind, DOMAIN positions, DOMAIN signals, Real)
    BY <1>1, <2>1, <2>2 DEF Legal, RowLegal, SignalLegal, TodoLegal, Closes
  <2> QED BY <1>5, <2>1, <2>3 DEF NextRun
<1> QED BY <1>3, <1>4, <1>5

LEMMA UpdateRun ==
  ASSUME TypeInv, NEW a \in Actors, UpdateStatus(a)
  PROVE  NextRun(a) /\ actor[a].grade \in Statuses
<1>1. /\ actor[a] \in Run /\ Legal(actor[a], kind, DOMAIN positions, DOMAIN signals, Real)
      /\ actor[a].pc = "status" /\ actor[a].op \in {"strategy"} \cup Closes
  BY RunFacts, StepOps DEF UpdateStatus, CloseSteps
<1>2. NextRun(a)
  BY <1>1, ToContinue DEF UpdateStatus, Closes
<1> QED BY <1>1, <1>2 DEF Run

(* A position is taken off the list: given up, or to be closed. *)
LEMMA TakenRun ==
  ASSUME TypeInv, NEW a \in Actors, NEW i \in actor[a].todo,
         actor[a].pc = "next", actor[a].op \in Closes
  PROVE  LET p == actor[a]
             less == [p EXCEPT !.todo = p.todo \ {i}]
             none == [p EXCEPT !.todo = p.todo \ {i}, !.seen = @ \ {i}]
         IN /\ Set(a, less) => NextRun(a)
            /\ Set(a, none) => NextRun(a)
            /\ \A price \in Prices \ {0} :
                 Set(a, [p EXCEPT !.pc = "close", !.position = i, !.price = price,
                                  !.todo = p.todo \ {i}]) => NextRun(a)
<1> DEFINE p == actor[a]
           less == [p EXCEPT !.todo = p.todo \ {i}]
           none == [p EXCEPT !.todo = p.todo \ {i}, !.seen = @ \ {i}]
<1>1. /\ p \in Run /\ Legal(p, kind, DOMAIN positions, DOMAIN signals, Real)
      /\ i \in p.todo /\ p.pc = "next" /\ p.op \in Closes
  BY RunFacts
<1>2. i \in DOMAIN positions /\ i \in Nat /\ Real \subseteq DOMAIN positions
  BY <1>1, RunFacts DEF Legal, TodoLegal
<1>3. ASSUME NEW q \in Run, q.op = p.op, q.todo \subseteq p.todo, q.seen \subseteq p.seen,
             q.signal = p.signal, q.rows = p.rows,
             \/ q.pc = "next" /\ q.position = p.position
             \/ q.pc = "close" /\ q.position = i /\ q.price # 0,
             Set(a, q)
      PROVE  NextRun(a)
  <2> HIDE DEF p
  <2>1. q.pc \in StepsOf(q.op) /\ q.op # "idle"
    BY <1>1, <1>3 DEF StepsOf, CloseSteps, Closes
  <2>2. RowLegal(q, DOMAIN positions, Real) /\ SignalLegal(q, DOMAIN signals)
    BY <1>1, <1>2, <1>3 DEF Legal, RowLegal, SignalLegal
  <2>3. TodoLegal(q, DOMAIN positions, DOMAIN signals)
    BY <1>1, <1>3 DEF Legal, TodoLegal, Closes, Buys
  <2>4. Legal(q, kind, DOMAIN positions, DOMAIN signals, Real)
    BY <1>1, <1>3, <2>1, <2>2, <2>3 DEF Legal
  <2> QED BY <1>3, <2>4 DEF NextRun
<1>4. Set(a, less) => NextRun(a)
  <2>1. /\ less \in Run /\ less.op = p.op /\ less.todo \subseteq p.todo
        /\ less.seen = p.seen /\ less.signal = p.signal /\ less.rows = p.rows
        /\ less.pc = "next" /\ less.position = p.position
    BY <1>1 DEF Run
  <2> HIDE DEF less, p
  <2> QED BY <1>3, <2>1
<1>5. Set(a, none) => NextRun(a)
  <2>1. /\ none \in Run /\ none.op = p.op /\ none.todo \subseteq p.todo
        /\ none.seen \subseteq p.seen /\ none.signal = p.signal /\ none.rows = p.rows
        /\ none.pc = "next" /\ none.position = p.position
    BY <1>1 DEF Run
  <2> HIDE DEF none, p
  <2> QED BY <1>3, <2>1
<1>6. ASSUME NEW price \in Prices \ {0},
             Set(a, [p EXCEPT !.pc = "close", !.position = i, !.price = price,
                              !.todo = p.todo \ {i}])
      PROVE  NextRun(a)
  <2> DEFINE q == [p EXCEPT !.pc = "close", !.position = i, !.price = price,
                            !.todo = p.todo \ {i}]
  <2>1. /\ q \in Run /\ q.op = p.op /\ q.todo \subseteq p.todo
        /\ q.seen = p.seen /\ q.signal = p.signal /\ q.rows = p.rows
        /\ q.pc = "close" /\ q.position = i /\ q.price = price
    BY <1>1, <1>2, <1>6 DEF Run, Steps, CloseSteps
  <2>2. Set(a, q)
    BY <1>6
  <2> HIDE DEF q, p
  <2> QED BY <1>3, <1>6, <2>1, <2>2
<1> QED BY <1>4, <1>5, <1>6

LEMMA NextToCloseRun ==
  ASSUME TypeInv, NEW a \in Actors, NEW i \in actor[a].todo, NEW price \in Prices,
         NextToClose(a, i, price)
  PROVE  NextRun(a)
<1>1. actor[a].pc = "next" /\ actor[a].op \in Closes
  BY DEF NextToClose, Closes
<1>2. price # 0 => price \in Prices \ {0}
  OBVIOUS
<1> QED BY <1>1, <1>2, TakenRun DEF NextToClose

(* A run that has just been started, or has a list of its own. *)
LEMMA FreshRun ==
  ASSUME TypeInv, NEW a, NEW q \in Run, Set(a, q),
         q.op \in OpsOf(kind), q.op \in Closes \cup Buys \cup {"strategy"},
         q.pc \in {"next", "positions"}, q.pc \in StepsOf(q.op),
         q.position = 0, q.signal = 0,
         q.op \in Closes => /\ q.todo \subseteq DOMAIN positions
                           /\ q.seen \subseteq DOMAIN positions,
         q.op \in Buys => /\ q.todo \subseteq DOMAIN signals
                         /\ q.seen \subseteq DOMAIN signals
                         /\ q.todo \subseteq DOMAIN q.rows
  PROVE  NextRun(a)
<1>1. Legal(q, kind, DOMAIN positions, DOMAIN signals, Real)
  BY DEF Legal, RowLegal, SignalLegal, TodoLegal, Buys, Closes
<1> QED BY <1>1 DEF NextRun

LEMMA OpenFacts ==
  ASSUME TypeInv
  PROVE  /\ OpenPositions \subseteq DOMAIN positions /\ OpenPositions \subseteq Nat
         /\ Tradable \subseteq DOMAIN signals /\ DOMAIN signals \subseteq Nat
         /\ signals \in Seq(Signal)
<1>1. OpenPositions \subseteq DOMAIN positions /\ Tradable \subseteq DOMAIN signals
  BY DEF OpenPositions, Tradable
<1>2. signals \in Seq(Signal)
  BY DEF TypeInv, TypeOK
<1> QED BY <1>1, <1>2, RunFacts, DomainFacts DEF TypeInv, TypeOK

LEMMA SettlementRuns ==
  ASSUME TypeInv, NEW a \in Actors, StartSettlement(a)
  PROVE  NextRun(a)
<1> DEFINE strong == {s \in Tradable : Strong(s)}
           q == [Idle EXCEPT !.op = "forced", !.pc = "next", !.rows = signals,
                             !.todo = strong, !.seen = strong]
<1>1. Set(a, q) /\ kind # "day_trader"
  BY DEF StartSettlement
<1>2. strong \subseteq DOMAIN signals /\ strong \subseteq Nat /\ signals \in Seq(Signal)
  BY OpenFacts
<1> HIDE DEF strong
<1>3. /\ q \in Run /\ q.op = "forced" /\ q.pc = "next" /\ q.rows = signals
      /\ q.todo = strong /\ q.seen = strong /\ q.position = 0 /\ q.signal = 0
  BY <1>2, IdleFacts DEF Run, Idle, Steps, OpsOf, Buys
<1> HIDE DEF q
<1>4. q.op \in OpsOf(kind) /\ q.pc \in StepsOf(q.op)
  BY <1>1, <1>3 DEF OpsOf, StepsOf, Buys
<1> QED BY <1>1, <1>2, <1>3, <1>4, FreshRun DEF Buys, Closes

LEMMA SelectRun ==
  ASSUME TypeInv, NEW a \in Actors, SelectSignals(a)
  PROVE  NextRun(a)
<1> DEFINE p == actor[a]
           all == IF kind = "analyst" THEN Tradable ELSE {}
           left == {s \in all : PositionsOf(s) = {}}
           q == [p EXCEPT !.op = "backfill", !.pc = "next", !.rows = signals,
                          !.todo = left, !.seen = @ \cup all]
<1>1. /\ p \in Run /\ Legal(p, kind, DOMAIN positions, DOMAIN signals, Real)
      /\ p.op = "forced" /\ p.pc = "next"
  BY RunFacts DEF SelectSignals
<1>2. /\ signals \in Seq(Signal) /\ all \subseteq DOMAIN signals /\ left \subseteq all
      /\ DOMAIN signals \subseteq Nat
  BY OpenFacts
<1>n. kind # "day_trader" /\ p.seen \subseteq DOMAIN signals
  <2> HIDE DEF p
  <2> QED BY <1>1, StepOps DEF Legal, TodoLegal, Buys
<1>3. Set(a, q)
  BY DEF SelectSignals
<1> HIDE DEF left, all
<1>4. /\ q \in Run /\ q.op = "backfill" /\ q.pc = "next" /\ q.rows = signals
      /\ q.todo = left /\ q.seen = p.seen \cup all
      /\ q.position = p.position /\ q.signal = p.signal
  BY <1>1, <1>2 DEF Run, Steps, OpsOf, Buys
<1> HIDE DEF q, p
<1>5. Legal(q, kind, DOMAIN positions, DOMAIN signals, Real)
  BY <1>1, <1>2, <1>n, <1>4
     DEF Legal, StepsOf, OpsOf, OpenSteps, RowLegal, SignalLegal, TodoLegal, Buys, Closes
<1> QED BY <1>3, <1>4, <1>5 DEF NextRun

LEMMA NextSignalRun ==
  ASSUME TypeInv, NEW a \in Actors, NEW s \in actor[a].todo, NextSignal(a, s)
  PROVE  NextRun(a)
<1> DEFINE p == actor[a]
           pc == IF p.op = "forced" THEN "portfolio" ELSE "period"
           q == [p EXCEPT !.pc = pc, !.signal = s, !.todo = @ \ {s}]
<1>1. /\ p \in Run /\ Legal(p, kind, DOMAIN positions, DOMAIN signals, Real)
      /\ p.op \in Buys /\ p.pc = "next" /\ s \in p.todo
  BY RunFacts DEF NextSignal, Buys
<1>2. s \in DOMAIN signals /\ s \in DOMAIN p.rows /\ s \in Nat
  BY <1>1, RunFacts DEF Legal, TodoLegal
<1>3. Set(a, q)
  BY DEF NextSignal
<1>4. pc \in Steps /\ pc \in StepsOf(p.op) /\ pc \in {"portfolio", "period"}
  BY <1>1 DEF Steps, StepsOf, OpenSteps, Buys
<1> HIDE DEF pc
<1>5. /\ q \in Run /\ q.op = p.op /\ q.pc = pc /\ q.rows = p.rows
      /\ q.todo \subseteq p.todo /\ q.seen = p.seen
      /\ q.position = p.position /\ q.signal = s
  BY <1>1, <1>2, <1>4 DEF Run
<1> HIDE DEF q, p
<1>6. Legal(q, kind, DOMAIN positions, DOMAIN signals, Real)
  BY <1>1, <1>2, <1>4, <1>5 DEF Legal, RowLegal, SignalLegal, TodoLegal, Buys, Closes
<1> QED BY <1>3, <1>5, <1>6 DEF NextRun

LEMMA PeriodRun ==
  ASSUME TypeInv, NEW a \in Actors, NEW b \in BOOLEAN, actor[a].pc = "period",
         Set(a, [actor[a] EXCEPT !.pc = "portfolio", !.paper = b])
  PROVE  NextRun(a)
<1> DEFINE p == actor[a]
           q == [p EXCEPT !.pc = "portfolio", !.paper = b]
<1>1. /\ p \in Run /\ Legal(p, kind, DOMAIN positions, DOMAIN signals, Real)
      /\ p.op = "backfill" /\ p.pc = "period"
  BY RunFacts, StepOps
<1>2. Set(a, q)
  OBVIOUS
<1>3. /\ q \in Run /\ q.op = p.op /\ q.pc = "portfolio" /\ q.rows = p.rows
      /\ q.todo = p.todo /\ q.seen = p.seen
      /\ q.position = p.position /\ q.signal = p.signal
  BY <1>1 DEF Run, Steps, OpenSteps
<1> HIDE DEF q, p
<1>4. Legal(q, kind, DOMAIN positions, DOMAIN signals, Real)
  BY <1>1, <1>3 DEF Legal, StepsOf, OpenSteps, RowLegal, SignalLegal, TodoLegal, Buys, Closes
<1> QED BY <1>2, <1>3, <1>4 DEF NextRun

LEMMA ExpiredRun ==
  ASSUME TypeInv, NEW a \in Actors, NEW expired \in SUBSET OpenPositions,
         SelectExpired(a, expired)
  PROVE  NextRun(a)
<1> DEFINE p == actor[a]
           q == [p EXCEPT !.pc = "next", !.todo = expired]
<1>1. /\ p \in Run /\ Legal(p, kind, DOMAIN positions, DOMAIN signals, Real)
      /\ p.op = "resolve" /\ p.pc = "expired"
  BY RunFacts, StepOps DEF SelectExpired
<1>2. Set(a, q)
  BY DEF SelectExpired
<1>3. expired \subseteq DOMAIN positions /\ expired \subseteq Nat
  BY OpenFacts, RunFacts
<1>4. /\ q \in Run /\ q.op = p.op /\ q.pc = "next" /\ q.rows = p.rows
      /\ q.todo = expired /\ q.seen = p.seen
      /\ q.position = p.position /\ q.signal = p.signal
  BY <1>1, <1>3 DEF Run, Steps
<1> HIDE DEF q, p
<1>5. Legal(q, kind, DOMAIN positions, DOMAIN signals, Real)
  BY <1>1, <1>3, <1>4 DEF Legal, StepsOf, CloseSteps, RowLegal, SignalLegal, TodoLegal, Buys, Closes
<1> QED BY <1>2, <1>4, <1>5 DEF NextRun

LEMMA ListRuns ==
  ASSUME TypeInv, NEW a \in Actors, StartWatch(a) \/ StartReset(a)
  PROVE  NextRun(a)
<1> DEFINE q(op) == [Idle EXCEPT !.op = op, !.pc = "next", !.todo = OpenPositions]
<1>1. PICK op \in {"watch", "reset"} : Set(a, q(op)) /\ op \in OpsOf(kind)
  BY DEF StartWatch, StartReset, OpsOf
<1>2. OpenPositions \subseteq DOMAIN positions /\ OpenPositions \subseteq Nat
  BY OpenFacts
<1>3. /\ q(op) \in Run /\ q(op).op = op /\ q(op).pc = "next" /\ q(op).todo = OpenPositions
      /\ q(op).seen = {} /\ q(op).position = 0 /\ q(op).signal = 0
  BY <1>2, IdleFacts DEF Run, Idle, Steps, OpsOf, Buys
<1> HIDE DEF q
<1>4. "next" \in StepsOf(op) /\ op \in Closes /\ op \notin Buys
  BY <1>1 DEF StepsOf, Buys, Closes
<1> QED BY <1>1, <1>2, <1>3, <1>4, FreshRun

LEMMA StrategyRuns ==
  ASSUME TypeInv, NEW a \in Actors, NEW op \in {"strategy", "flat"}, StartStrategies(a, op)
  PROVE  NextRun(a)
<1> DEFINE q == [Idle EXCEPT !.op = op, !.pc = "positions", !.balance = cash]
<1>1. Set(a, q) /\ kind = "day_trader"
  BY DEF StartStrategies
<1>2. cash \in Int
  BY DEF TypeInv, TypeOK
<1>3. /\ q \in Run /\ q.op = op /\ q.pc = "positions" /\ q.todo = {}
      /\ q.seen = {} /\ q.position = 0 /\ q.signal = 0
  BY <1>2, IdleFacts DEF Run, Idle, Steps, OpsOf, Buys
<1> HIDE DEF q
<1>4. op \in OpsOf(kind) /\ "positions" \in StepsOf(op) /\ op \notin Buys
      /\ op \in Closes \cup {"strategy"}
  BY <1>1 DEF OpsOf, StepsOf, Closes, Buys
<1> QED BY <1>1, <1>3, <1>4, FreshRun

LEMMA DecideRun ==
  ASSUME TypeInv, NEW a \in Actors, NEW direction \in Directions, NEW price \in Prices,
         Decide(a, direction, price)
  PROVE  NextRun(a)
<1> PICK zero \in Int : zero = 0
  OBVIOUS
<1> DEFINE p == actor[a]
           quantity == calculatePositionSize(p.balance, price, TradePercent)
           open == [p EXCEPT !.pc = "insert", !.direction = direction, !.balance = zero,
                             !.quantity = quantity, !.price = price]
           close(i) == [p EXCEPT !.pc = "close", !.position = i, !.price = price,
                                 !.balance = zero]
<1>1. /\ p \in Run /\ Legal(p, kind, DOMAIN positions, DOMAIN signals, Real)
      /\ p.op = "strategy" /\ p.pc = "positions" /\ p.balance \in Int
  BY RunFacts DEF Decide, Run
<1>2. quantity \in Nat /\ (quantity # 0 => price # 0)
  <2>1. price \in Nat /\ TradePercent \in Nat
    BY ConstantsAssumption
  <2> QED BY <1>1, <2>1, SizeType
<1>3. \/ Set(a, Idle)
      \/ quantity # 0 /\ Set(a, open)
      \/ \E i \in OpenPositions : price # 0 /\ Set(a, close(i))
  BY DEF Decide
<1> HIDE DEF quantity
<1>4. CASE quantity # 0 /\ Set(a, open)
  <2>1. /\ open \in Run /\ open.op = p.op /\ open.pc = "insert" /\ open.rows = p.rows
        /\ open.todo = p.todo /\ open.seen = p.seen /\ open.position = p.position
        /\ open.signal = p.signal /\ open.quantity = quantity /\ open.price = price
    BY <1>1, <1>2 DEF Run, Steps, OpenSteps
  <2> HIDE DEF open, p
  <2>2. Legal(open, kind, DOMAIN positions, DOMAIN signals, Real)
    BY <1>1, <1>2, <1>4, <2>1
       DEF Legal, StepsOf, CloseSteps, RowLegal, SignalLegal, TodoLegal, Buys, Closes
  <2> QED BY <1>4, <2>1, <2>2 DEF NextRun
<1>5. ASSUME NEW i \in OpenPositions, price # 0, Set(a, close(i)) PROVE NextRun(a)
  <2> DEFINE q == close(i)
  <2>0. i \in DOMAIN positions /\ i \in Nat
    BY OpenFacts
  <2>1. /\ q \in Run /\ q.op = p.op /\ q.pc = "close" /\ q.rows = p.rows
        /\ q.todo = p.todo /\ q.seen = p.seen /\ q.position = i
        /\ q.signal = p.signal /\ q.price = price
    BY <1>1, <2>0 DEF Run, Steps, CloseSteps
  <2>2. Set(a, q)
    BY <1>5
  <2> HIDE DEF q, p
  <2>3. Legal(q, kind, DOMAIN positions, DOMAIN signals, Real)
    BY <1>1, <1>5, <2>0, <2>1
       DEF Legal, StepsOf, CloseSteps, RowLegal, SignalLegal, TodoLegal, Buys, Closes
  <2> QED BY <2>1, <2>2, <2>3 DEF NextRun
<1> QED BY <1>3, <1>4, <1>5, ToIdle

LEMMA FlatRun ==
  ASSUME TypeInv, NEW a \in Actors, SelectFlat(a)
  PROVE  NextRun(a)
<1> PICK zero \in Int : zero = 0
  OBVIOUS
<1> DEFINE p == actor[a]
           q == [p EXCEPT !.pc = "next", !.todo = OpenPositions, !.seen = OpenPositions,
                          !.balance = zero]
<1>1. /\ p \in Run /\ Legal(p, kind, DOMAIN positions, DOMAIN signals, Real)
      /\ p.op = "flat" /\ p.pc = "positions"
  BY RunFacts DEF SelectFlat
<1>2. Set(a, q)
  BY DEF SelectFlat
<1>3. OpenPositions \subseteq DOMAIN positions /\ OpenPositions \subseteq Nat
  BY OpenFacts
<1>4. /\ q \in Run /\ q.op = p.op /\ q.pc = "next" /\ q.rows = p.rows
      /\ q.todo = OpenPositions /\ q.seen = OpenPositions
      /\ q.position = p.position /\ q.signal = p.signal
  BY <1>1, <1>3 DEF Run, Steps
<1> HIDE DEF q, p
<1>5. Legal(q, kind, DOMAIN positions, DOMAIN signals, Real)
  BY <1>1, <1>3, <1>4 DEF Legal, StepsOf, CloseSteps, RowLegal, SignalLegal, TodoLegal, Buys, Closes
<1> QED BY <1>2, <1>4, <1>5 DEF NextRun

LEMMA ResetRuns ==
  ASSUME TypeInv, NEW a \in Actors,
         \/ ReadBalance(a)
         \/ actor[a].pc = "ledger" /\ Set(a, [actor[a] EXCEPT !.pc = "topup"])
  PROVE  NextRun(a)
<1> DEFINE p == actor[a]
<1>1. /\ p \in Run /\ Legal(p, kind, DOMAIN positions, DOMAIN signals, Real)
      /\ p.op = "reset" /\ p.pc \in {"next", "ledger"}
  BY RunFacts, StepOps DEF ReadBalance
<1>2. cash \in Int
  BY DEF TypeInv, TypeOK
<1>3. PICK pc \in {"ledger", "topup"}, balance \in Int :
        Set(a, [p EXCEPT !.pc = pc, !.balance = balance])
  <2>1. CASE ReadBalance(a)
    BY <1>2, <2>1 DEF ReadBalance
  <2>2. CASE Set(a, [p EXCEPT !.pc = "topup"])
    <3>1. [p EXCEPT !.pc = "topup"] = [p EXCEPT !.pc = "topup", !.balance = p.balance]
          /\ p.balance \in Int
      BY <1>1 DEF Run
    <3> QED BY <2>2, <3>1
  <2> QED BY <2>1, <2>2
<1> DEFINE q == [p EXCEPT !.pc = pc, !.balance = balance]
<1>4. /\ q \in Run /\ q.op = p.op /\ q.pc = pc /\ q.rows = p.rows
      /\ q.todo = p.todo /\ q.seen = p.seen
      /\ q.position = p.position /\ q.signal = p.signal
  BY <1>1 DEF Run, Steps
<1>5. Set(a, q)
  BY <1>3
<1> HIDE DEF q, p
<1>6. Legal(q, kind, DOMAIN positions, DOMAIN signals, Real)
  BY <1>1, <1>4 DEF Legal, StepsOf, CloseSteps, RowLegal, SignalLegal, TodoLegal, Buys, Closes
<1> QED BY <1>4, <1>5, <1>6 DEF NextRun

LEMMA BookedRun ==
  ASSUME TypeInv, NEW a \in Actors, actor[a].pc = "credit", Set(a, Booked(actor[a]))
  PROVE  NextRun(a)
<1> DEFINE p == actor[a]
           q == Booked(p)
<1>1. /\ p \in Run /\ Legal(p, kind, DOMAIN positions, DOMAIN signals, Real)
      /\ p.pc = "credit" /\ p.op \in {"strategy"} \cup Closes
  BY RunFacts, StepOps DEF CloseSteps
<1>2. /\ q \in Run /\ q.op = p.op /\ q.pc = "check" /\ q.rows = p.rows
      /\ q.todo = p.todo /\ q.seen = p.seen
      /\ q.position = 0 /\ q.signal = p.signal
  BY <1>1 DEF Run, Steps, CloseSteps, Booked
<1>3. Set(a, q)
  OBVIOUS
<1> HIDE DEF q, p
<1>4. Legal(q, kind, DOMAIN positions, DOMAIN signals, Real)
  BY <1>1, <1>2 DEF Legal, StepsOf, CloseSteps, RowLegal, SignalLegal, TodoLegal, Buys, Closes
<1> QED BY <1>2, <1>3, <1>4 DEF NextRun

(* A failed close goes on to the money of the position all the same. *)
LEMMA FailedClose ==
  ASSUME TypeInv, NEW a \in Actors, actor[a].pc = "close",
         ~positions[actor[a].position].paper,
         Set(a, [[actor[a] EXCEPT !.seen = @ \ {actor[a].position}] EXCEPT !.pc = "credit"])
  PROVE  NextRun(a)
<1> DEFINE p == actor[a]
           given == Unseen(p, p.position)
           q == [given EXCEPT !.pc = "credit"]
<1>1. /\ p \in Run /\ Legal(p, kind, DOMAIN positions, DOMAIN signals, Real)
      /\ p.pc = "close" /\ p.op \in {"strategy"} \cup Closes
  BY RunFacts, StepOps DEF CloseSteps
<1>2. /\ given \in Run /\ given.op = p.op /\ given.todo = p.todo
      /\ given.seen \subseteq p.seen /\ given.rows = p.rows /\ given.price = p.price
      /\ given.position = p.position /\ given.signal = p.signal
  BY <1>1 DEF Run, Unseen
<1>3. Set(a, q)
  BY DEF Unseen
<1>4. p.position \in Real /\ p.price # 0
  <2>1. p.position \in DOMAIN positions /\ p.price # 0
    BY <1>1 DEF Legal, RowLegal
  <2> QED BY <2>1 DEF Real
<1> HIDE DEF given
<1>5. /\ q \in Run /\ q.op = p.op /\ q.pc = "credit" /\ q.rows = p.rows
      /\ q.todo = p.todo /\ q.seen \subseteq p.seen /\ q.price = p.price
      /\ q.position = p.position /\ q.signal = p.signal
  BY <1>2 DEF Run, Steps, CloseSteps
<1> HIDE DEF q, p
<1>6. Legal(q, kind, DOMAIN positions, DOMAIN signals, Real)
  BY <1>1, <1>4, <1>5 DEF Legal, StepsOf, CloseSteps, RowLegal, SignalLegal, TodoLegal, Buys, Closes
<1> QED BY <1>3, <1>5, <1>6 DEF NextRun

LEMMA FailRun ==
  ASSUME TypeInv, NEW a \in Actors, StatementFails(a)
  PROVE  NextRun(a)
<1> DEFINE p == actor[a]
<1>1. Legal(p, kind, DOMAIN positions, DOMAIN signals, Real)
  BY RunFacts
<1>o. p.pc \in {"portfolio", "insert", "close", "cash", "check", "status"} =>
        p.op \notin {"idle", "paper"}
  BY <1>1, StepOps DEF CloseSteps, Buys, Closes
<1>2. CASE p.pc = "lookup" /\ Set(a, [p EXCEPT !.pc = "insert"])
  BY <1>2, FindRun
<1>3. CASE p.pc = "period" /\ Set(a, [p EXCEPT !.pc = "portfolio", !.paper = TRUE])
  BY <1>3, PeriodRun
<1>4. CASE /\ p.pc \in {"portfolio", "insert"}
           /\ Set(a, Continue([p EXCEPT !.seen = @ \ {p.signal}]))
  BY <1>o, <1>4, ToContinueLess
<1>5. CASE /\ p.pc = "next" /\ p.op \in {"resolve", "flat", "reset"}
           /\ \E i \in p.todo : Set(a, [p EXCEPT !.todo = @ \ {i}, !.seen = @ \ {i}])
  <2>1. PICK i \in p.todo : Set(a, [p EXCEPT !.todo = p.todo \ {i}, !.seen = @ \ {i}])
    BY <1>5
  <2> QED BY <1>5, <2>1, TakenRun DEF Closes
<1>6. CASE /\ p.pc = "close"
           /\ Set(a, LET given == [p EXCEPT !.seen = @ \ {p.position}]
                     IN IF positions[p.position].paper THEN Continue(given)
                        ELSE [given EXCEPT !.pc = "credit"])
  <2>1. CASE positions[p.position].paper
    BY <1>o, <1>6, <2>1, ToContinueLess
  <2>2. CASE ~positions[p.position].paper
    BY <1>6, <2>2, FailedClose
  <2> QED BY <2>1, <2>2
<1>7. CASE p.pc = "credit" /\ Set(a, Booked(p))
  BY <1>7, BookedRun
<1>8. CASE p.pc \in {"cash", "topup"} /\ Set(a, IF p.pc = "cash" THEN Continue(p) ELSE Idle)
  <2>1. CASE p.pc = "cash"
    BY <1>o, <1>8, <2>1, ToContinue
  <2>2. CASE p.pc = "topup"
    BY <1>8, <2>2, ToIdle
  <2> QED BY <1>8, <2>1, <2>2
<1>9. CASE p.pc \in {"check", "status"} /\ Set(a, Continue(p))
  BY <1>o, <1>9, ToContinue
<1> QED BY <1>2, <1>3, <1>4, <1>5, <1>6, <1>7, <1>8, <1>9 DEF StatementFails

-----------------------------------------------------------------------------
(* Types *)

LEMMA RunsTypes ==
  ASSUME actor \in [Actors -> Run], RunsLegal,
         Len(positions) \in Nat, DOMAIN positions = 1..Len(positions),
         Len(signals) \in Nat, DOMAIN signals = 1..Len(signals)
  PROVE  \A a \in Actors :
           /\ actor[a].op = "idle" <=> actor[a].pc = "idle"
           /\ actor[a].position \in 0..Len(positions)
           /\ actor[a].signal \in 0..Len(signals)
<1> SUFFICES ASSUME NEW a \in Actors
             PROVE  /\ actor[a].op = "idle" <=> actor[a].pc = "idle"
                    /\ actor[a].position \in 0..Len(positions)
                    /\ actor[a].signal \in 0..Len(signals)
  OBVIOUS
<1>1. Legal(actor[a], kind, DOMAIN positions, DOMAIN signals, Real)
  BY DEF RunsLegal
<1>2. actor[a].op = "idle" <=> actor[a].pc = "idle"
  BY <1>1, StepOps
<1>3. /\ actor[a].position \in (DOMAIN positions) \cup {0}
      /\ actor[a].signal \in (DOMAIN signals) \cup {0}
  BY <1>1 DEF Legal, RowLegal, SignalLegal
<1> QED BY <1>2, <1>3

Causes == {"closed twice", "lost update", "overwritten", "profit cut"}

(* Everything but the runs, and the types without them. *)
Tables ==
  /\ kind \in Kinds
  /\ status \in Statuses
  /\ cash \in Int
  /\ realized \in Int
  /\ positions \in Seq(Position)
  /\ Len(positions) <= MaxPositions
  /\ \A i \in DOMAIN positions :
       /\ (positions[i].signal = 0) <=> (kind = "day_trader")
       /\ positions[i].signal <= Len(signals)
  /\ signals \in Seq(Signal)
  /\ Len(signals) <= MaxSignals
  /\ ledger \in [DOMAIN ledger -> Nat]
  /\ DOMAIN ledger \subseteq 0..MaxDays
  /\ today \in 0..MaxDays
  /\ judged \in [cash : Int, sure : BOOLEAN]
  /\ drift \subseteq Causes

LEMMA TypesAre == TypeInv <=> Tables /\ actor \in [Actors -> Run] /\ RunsLegal
<1>1. TypeInv => Tables
  BY DEF TypeInv, TypeOK, Tables, Causes
<1>2. TypeInv => actor \in [Actors -> Run] /\ RunsLegal
  BY DEF TypeInv
<1>3. ASSUME Tables, actor \in [Actors -> Run], RunsLegal PROVE TypeInv
  <2>1. /\ Len(positions) \in Nat /\ DOMAIN positions = 1..Len(positions)
        /\ Len(signals) \in Nat /\ DOMAIN signals = 1..Len(signals)
    BY <1>3, DomainFacts DEF Tables
  <2>2. \A a \in Actors :
           /\ actor[a].op = "idle" <=> actor[a].pc = "idle"
           /\ actor[a].position \in 0..Len(positions)
           /\ actor[a].signal \in 0..Len(signals)
    BY <1>3, <2>1, RunsTypes
  <2>3. TypeOK
    BY <1>3, <2>2 DEF TypeOK, Tables, Causes
  <2> QED BY <1>3, <2>3 DEF TypeInv, Tables
<1> QED BY <1>1, <1>2, <1>3

(* A run goes on, and the tables stay well typed. *)
LEMMA RunStep ==
  ASSUME TypeInv, NEW a \in Actors, NextRun(a), UNCHANGED <<kind, positions, signals>>
  PROVE  actor' \in [Actors -> Run] /\ RunsLegal'
<1>1. PICK q \in Run :
        Set(a, q) /\ Legal(q, kind, DOMAIN positions, DOMAIN signals, Real)
  BY DEF NextRun
<1>2. Real' = Real /\ kind' = kind /\ positions' = positions /\ signals' = signals
  BY DEF Real
<1> QED BY <1>1, <1>2, ActorStep

(* A table has been written to: its writer is at a legal step of the new one. *)
StepsTo(a, q) ==
  /\ Set(a, q)
  /\ q \in Run
  /\ Legal(q, kind', DOMAIN positions', DOMAIN signals', Real')

LEMMA StepTo ==
  ASSUME TypeInv, NEW a \in Actors, NEW q, StepsTo(a, q), Tables', kind' = kind,
         DOMAIN positions \subseteq DOMAIN positions',
         DOMAIN signals \subseteq DOMAIN signals', Real \subseteq Real'
  PROVE  TypeInv'
<1>1. actor' \in [Actors -> Run] /\ RunsLegal'
  BY ActorStep DEF StepsTo
<1>2. (TypeInv <=> Tables /\ actor \in [Actors -> Run] /\ RunsLegal)'
  BY TypesAre, PTL
<1> QED BY <1>1, <1>2

(* What one row added, or one row written over, leaves of a table. *)
Written(u, v, n, x) ==
  /\ Len(u) <= Len(v)
  /\ DOMAIN u \subseteq DOMAIN v /\ n \in DOMAIN v
  /\ n \in Nat /\ v[n] = x
  /\ \A m \in (DOMAIN u) \ {n} : v[m] = u[m]
  /\ DOMAIN v = (DOMAIN u) \cup {n}

LEMMA Added ==
  ASSUME NEW S, NEW u \in Seq(S), NEW x \in S, NEW n, n = Len(u) + 1
  PROVE  LET v == Append(u, x)
         IN Written(u, v, n, x) /\ v \in Seq(S) /\ Len(v) = n
<1> DEFINE v == Append(u, x)
<1>1. /\ v \in Seq(S) /\ Len(v) = Len(u) + 1 /\ DOMAIN v = (DOMAIN u) \cup {Len(u) + 1}
      /\ v[Len(u) + 1] = x /\ \A i \in DOMAIN u : v[i] = u[i]
  BY AppendFacts
<1>2. Len(u) \in Nat
  OBVIOUS
<1> HIDE DEF v
<1>3. Len(u) <= Len(v) /\ n \in Nat
  BY <1>1, <1>2
<1>4. Written(u, v, n, x)
  BY <1>1, <1>3 DEF Written
<1> QED BY <1>1, <1>4 DEF v

Over(u, n, x) == [u EXCEPT ![n] = x]

LEMMA Replaced ==
  ASSUME NEW S, NEW u \in Seq(S), NEW x \in S, NEW n \in DOMAIN u,
         NEW v, v = Over(u, n, x)
  PROVE  Written(u, v, n, x) /\ v \in Seq(S) /\ Len(v) = Len(u)
<1>1. v \in Seq(S) /\ Len(v) = Len(u) /\ DOMAIN v = DOMAIN u
  BY ExceptFacts DEF Over
<1>2. v[n] = x /\ \A m \in (DOMAIN u) \ {n} : v[m] = u[m]
  BY DEF Over
<1>3. Len(u) \in Nat /\ n \in Nat
  BY DomainFacts
<1>4. Written(u, v, n, x)
  BY <1>1, <1>2, <1>3 DEF Written
<1> QED BY <1>1, <1>4

(* A signal is added, or one that is not settled is written over. *)
LEMMA Published ==
  ASSUME TypeInv, NEW new \in Signal,
         NEW s \in IF Active = {} THEN {Len(signals) + 1} ELSE Active, s <= MaxSignals,
         signals' = IF Active = {} THEN Append(signals, new) ELSE [signals EXCEPT ![s] = new]
  PROVE  /\ signals' \in Seq(Signal) /\ Len(signals') <= MaxSignals
         /\ Written(signals, signals', s, new)
<1>1. signals \in Seq(Signal) /\ Len(signals) <= MaxSignals
  BY DEF TypeInv, TypeOK
<1>2. CASE Active = {}
  <2>1. s = Len(signals) + 1 /\ signals' = Append(signals, new)
    BY <1>2
  <2>2. Written(signals, signals', s, new) /\ signals' \in Seq(Signal) /\ Len(signals') = s
    BY <1>1, <2>1, Added
  <2> QED BY <2>2
<1>3. CASE Active # {}
  <2>1. s \in DOMAIN signals /\ signals' = [signals EXCEPT ![s] = new]
    BY <1>3 DEF Active
  <2>2. /\ Written(signals, signals', s, new) /\ signals' \in Seq(Signal)
        /\ Len(signals') = Len(signals)
    <3>1. signals' = Over(signals, s, new)
      BY <2>1 DEF Over
    <3>2. signals \in Seq(Signal) /\ new \in Signal /\ s \in DOMAIN signals
      BY <1>1, <2>1
    <3>3. \A v : v = Over(signals, s, new) => v \in Seq(Signal)
      BY <3>2, Replaced
    <3>4. \A v : v = Over(signals, s, new) => Len(v) = Len(signals)
      BY <3>2, Replaced
    <3>5. \A v : v = Over(signals, s, new) => Written(signals, v, s, new)
      BY <3>2, Replaced
    <3> QED BY <3>1, <3>3, <3>4, <3>5
  <2> QED BY <1>1, <2>2
<1> QED BY <1>2, <1>3

LEMMA SignalsGrow ==
  ASSUME TypeInv, signals' \in Seq(Signal), Len(signals') <= MaxSignals,
         Len(signals) <= Len(signals'),
         UNCHANGED <<kind, books, ledger, today, drift, judged>>
  PROVE  Tables'
<1>1. Tables
  BY TypesAre
<1>2. /\ Len(signals) \in Nat /\ Len(signals') \in Nat
      /\ \A i \in DOMAIN positions : positions[i].signal \in 0..MaxSignals
  <2>1. \A i \in DOMAIN positions : positions[i] \in Position
    BY <1>1, DomainFacts DEF Tables
  <2> QED BY <1>1, <2>1, DomainFacts DEF Tables, Position
<1>3. \A i \in DOMAIN positions : positions[i].signal <= Len(signals')
  <2>1. \A i \in DOMAIN positions : positions[i].signal <= Len(signals)
    BY <1>1 DEF Tables
  <2>2. \A n \in 0..MaxSignals : n <= Len(signals) => n <= Len(signals')
    BY <1>2
  <2> QED BY <1>2, <2>1, <2>2
<1> QED BY <1>1, <1>3 DEF Tables, books

LEMMA PublishStep ==
  ASSUME TypeInv, NEW a \in Actors, NEW direction \in {"up", "down", "flat"},
         NEW strength \in Strengths, Publish(a, direction, strength)
  PROVE  TypeInv'
<1> DEFINE new == [direction |-> direction, strength |-> strength, day |-> today,
                   paper |-> FALSE, settled |-> FALSE]
           p(s) == [Idle EXCEPT !.op = "trader", !.signal = s]
           q(s) == IF strength = "weak" THEN Continue(p(s))
                   ELSE [p(s) EXCEPT !.pc = "portfolio", !.rows = signals']
<1>1. new \in Signal
  BY DEF TypeInv, TypeOK, Signal
<1>2. PICK s \in IF Active = {} THEN {Len(signals) + 1} ELSE Active :
        /\ s <= MaxSignals
        /\ signals' = IF Active = {} THEN Append(signals, new) ELSE [signals EXCEPT ![s] = new]
        /\ Set(a, q(s))
  BY DEF Publish
<1>3. /\ signals' \in Seq(Signal) /\ Len(signals') <= MaxSignals
      /\ Len(signals) <= Len(signals')
      /\ DOMAIN signals \subseteq DOMAIN signals' /\ s \in DOMAIN signals' /\ s \in Nat
  BY <1>1, <1>2, Published DEF Written
<1>4. /\ kind # "day_trader" /\ kind' = kind /\ positions' = positions
      /\ UNCHANGED <<kind, books, ledger, today, drift, judged>>
  BY DEF Publish, books, history
<1>5. Tables'
  BY <1>3, <1>4, SignalsGrow
<1>6. /\ p(s) \in Run /\ p(s).op = "trader" /\ p(s).signal = s /\ p(s).position = 0
      /\ p(s).todo = {} /\ p(s).seen = {}
  BY <1>3, IdleFacts DEF Run, Idle, OpsOf
<1>7. StepsTo(a, q(s))
  <2>1. CASE strength = "weak"
    <3>1. q(s) = Continue(p(s))
      BY <2>1
    <3> HIDE DEF p
    <3>2. /\ q(s) \in Run /\ q(s).op = "paper" /\ q(s).pc = "paper" /\ q(s).signal = s
          /\ q(s).position = 0
      BY <1>6, <3>1, ContinueFacts
    <3> HIDE DEF q
    <3>3. Legal(q(s), kind', DOMAIN positions', DOMAIN signals', Real')
      BY <1>3, <1>4, <3>2
         DEF Legal, StepsOf, OpsOf, RowLegal, SignalLegal, TodoLegal, Buys, Closes
    <3> QED BY <1>2, <3>2, <3>3 DEF StepsTo, q
  <2>2. CASE strength # "weak"
    <3> DEFINE r == [p(s) EXCEPT !.pc = "portfolio", !.rows = signals']
    <3>1. q(s) = r
      BY <2>2
    <3> HIDE DEF p
    <3>2. /\ r \in Run /\ r.op = "trader" /\ r.pc = "portfolio" /\ r.signal = s
          /\ r.position = 0 /\ r.rows = signals'
      BY <1>3, <1>6 DEF Run, Steps, OpenSteps
    <3> HIDE DEF r
    <3>3. Legal(r, kind', DOMAIN positions', DOMAIN signals', Real')
      BY <1>3, <1>4, <3>2
         DEF Legal, StepsOf, OpenSteps, OpsOf, RowLegal, SignalLegal, TodoLegal, Buys, Closes
    <3> QED BY <1>2, <3>1, <3>2, <3>3 DEF StepsTo
  <2> QED BY <2>1, <2>2
<1>8. Real' = Real
  BY <1>4 DEF Real
<1> QED BY <1>3, <1>4, <1>5, <1>7, <1>8, StepTo

LEMMA PaperStep ==
  ASSUME TypeInv, NEW a \in Actors, PublishPaper(a)
  PROVE  TypeInv'
<1> DEFINE s == actor[a].signal
           row == [signals[s] EXCEPT !.paper = TRUE]
<1>1. signals \in Seq(Signal) /\ Len(signals) \in Nat /\ Len(signals) <= MaxSignals
  BY DomainFacts DEF TypeInv, TypeOK
<1>2. /\ UNCHANGED <<kind, books, ledger, today, drift, judged>> /\ Set(a, Idle)
      /\ positions' = positions /\ kind' = kind
  BY DEF PublishPaper, books, history
<1>3. /\ signals' \in Seq(Signal) /\ Len(signals') = Len(signals)
      /\ DOMAIN signals' = DOMAIN signals
  <2>1. CASE signals' = signals
    BY <1>1, <2>1
  <2>2. CASE s \in Active /\ signals' = [signals EXCEPT ![s].paper = TRUE]
    <3>1. s \in DOMAIN signals
      BY <2>2 DEF Active
    <3>2. signals[s] \in Signal
      <4> HIDE DEF s
      <4> QED BY <1>1, <3>1, DomainFacts
    <3>3. row \in Signal /\ signals' = [signals EXCEPT ![s] = row]
      BY <2>2, <3>2 DEF Signal
    <3> HIDE DEF s, row
    <3> QED BY <1>1, <3>1, <3>3, ExceptFacts
  <2> QED BY <2>1, <2>2 DEF PublishPaper
<1>4. Tables'
  BY <1>1, <1>2, <1>3, SignalsGrow
<1>5. StepsTo(a, Idle)
  BY <1>2, IdleLegal DEF StepsTo
<1>6. Real' = Real
  BY <1>2 DEF Real
<1> QED BY <1>2, <1>3, <1>4, <1>5, <1>6, StepTo

LEMMA SettledStep ==
  ASSUME TypeInv, NEW a \in Actors, MarkSettled(a)
  PROVE  TypeInv'
<1> DEFINE q == [Idle EXCEPT !.op = "resolve", !.pc = "expired"]
<1>1. signals \in Seq(Signal) /\ Len(signals) \in Nat /\ Len(signals) <= MaxSignals
  BY DomainFacts DEF TypeInv, TypeOK
<1>2. /\ UNCHANGED <<kind, books, ledger, today, drift, judged>> /\ Set(a, q)
      /\ positions' = positions /\ kind' = kind
      /\ signals' = [s \in DOMAIN signals |-> [signals[s] EXCEPT !.settled = TRUE]]
  BY DEF MarkSettled, books
<1>3. /\ signals' \in Seq(Signal) /\ Len(signals') = Len(signals)
      /\ DOMAIN signals' = DOMAIN signals
  <2>1. \A s \in DOMAIN signals : signals[s] \in Signal
    BY <1>1, DomainFacts
  <2>2. \A s \in DOMAIN signals : [signals[s] EXCEPT !.settled = TRUE] \in Signal
    BY <2>1 DEF Signal
  <2>3. DOMAIN signals = 1..Len(signals)
    BY <1>1, DomainFacts
  <2>4. signals' \in [1..Len(signals) -> Signal]
    BY <1>2, <2>2, <2>3
  <2> QED BY <1>1, <2>3, <2>4
<1>4. Tables'
  BY <1>1, <1>2, <1>3, SignalsGrow
<1>5. kind # "day_trader"
  BY RunFacts, StepOps DEF MarkSettled, Buys
<1>6. StepsTo(a, q)
  <2>1. /\ q \in Run /\ q.op = "resolve" /\ q.pc = "expired" /\ q.position = 0
        /\ q.signal = 0 /\ q.todo = {} /\ q.seen = {}
    BY IdleFacts DEF Run, Idle, Steps, OpsOf
  <2> HIDE DEF q
  <2>2. Legal(q, kind', DOMAIN positions', DOMAIN signals', Real')
    BY <1>2, <1>5, <2>1 DEF Legal, StepsOf, OpsOf, RowLegal, SignalLegal, TodoLegal, Buys, Closes
  <2> QED BY <1>2, <2>1, <2>2 DEF StepsTo
<1>7. Real' = Real
  BY <1>2 DEF Real
<1> QED BY <1>2, <1>3, <1>4, <1>6, <1>7, StepTo

(* The row a run is about to insert. *)
Opening(p) ==
  [direction |-> p.direction, quantity |-> p.quantity, entry |-> p.price,
   exit |-> 0, paper |-> p.paper, signal |-> p.signal, status |-> "open"]

LEMMA OpeningFacts ==
  ASSUME TypeInv, NEW a \in Actors, actor[a].pc = "insert"
  PROVE  LET p == actor[a]
             row == Opening(p)
         IN /\ row \in Position /\ row.signal = p.signal /\ row.paper = p.paper
            /\ row.status = "open" /\ row.signal <= Len(signals)
            /\ (row.signal = 0) <=> (kind = "day_trader")
            /\ row.entry = p.price /\ row.quantity = p.quantity
            /\ row.direction = p.direction
<1> DEFINE p == actor[a]
           row == Opening(p)
<1>1. /\ p \in Run /\ Legal(p, kind, DOMAIN positions, DOMAIN signals, Real)
      /\ p.pc = "insert" /\ p.op \in {"trader", "strategy"} \cup Buys
      /\ (kind = "day_trader") <=> (p.op = "strategy")
  <2>1. /\ p \in Run /\ Legal(p, kind, DOMAIN positions, DOMAIN signals, Real)
        /\ p.pc = "insert"
    BY RunFacts
  <2> HIDE DEF p
  <2>2. p.op \in {"trader", "strategy"} \cup Buys
    BY <2>1, StepOps
  <2>3. p.op \in {"trader", "paper", "resolve", "watch"} \cup Buys => kind # "day_trader"
    BY <2>1, StepOps
  <2>4. p.op \in {"strategy", "flat"} => kind = "day_trader"
    BY <2>1, StepOps
  <2> QED BY <2>1, <2>2, <2>3, <2>4
<1>2. /\ Len(signals) \in Nat /\ DOMAIN signals = 1..Len(signals)
      /\ Len(signals) <= MaxSignals /\ MaxSignals \in Nat
  BY DomainFacts, Bounds DEF TypeInv, TypeOK
<1>3. /\ row.signal = p.signal /\ row.paper = p.paper /\ row.status = "open"
      /\ row.entry = p.price /\ row.quantity = p.quantity /\ row.direction = p.direction
  BY DEF Opening
<1>4. p.price # 0 /\ p.quantity # 0
  <2> HIDE DEF p
  <2> QED BY <1>1 DEF Legal, RowLegal
<1>5. p.signal \in 0..Len(signals) /\ ((p.signal = 0) <=> (p.op = "strategy"))
  <2> HIDE DEF p
  <2>1. /\ p.op = "strategy" => p.signal = 0
        /\ p.op # "strategy" => p.signal \in DOMAIN signals
    BY <1>1 DEF Legal, SignalLegal
  <2> QED BY <1>2, <2>1
<1>6. row \in Position
  <2>1. /\ p.direction \in Directions /\ p.quantity \in Nat \ {0}
        /\ p.price \in Prices \ {0} /\ p.paper \in BOOLEAN /\ p.signal \in 0..MaxSignals
    BY <1>1, <1>2, <1>4, <1>5 DEF Run
  <2> HIDE DEF p
  <2> QED BY <2>1 DEF Opening, Position
<1>7. p.signal <= Len(signals)
  BY <1>2, <1>5
<1> HIDE DEF p, row
<1>8. (row.signal = 0) <=> (kind = "day_trader")
  BY <1>1, <1>3, <1>5
<1>9. row.signal <= Len(signals)
  BY <1>3, <1>7
<1> QED BY <1>3, <1>6, <1>8, <1>9 DEF p, row

(* The table after an insert, or a change of one row. *)
LEMMA InsertFacts ==
  ASSUME TypeInv, NEW a \in Actors, InsertPosition(a)
  PROVE  LET n == Len(positions) + 1
         IN /\ positions' \in Seq(Position) /\ Len(positions') <= MaxPositions
            /\ Len(positions') = n
            /\ Written(positions, positions', n, Opening(actor[a]))
            /\ n \notin DOMAIN positions
<1> DEFINE n == Len(positions) + 1
           row == Opening(actor[a])
<1>1. positions \in Seq(Position) /\ Len(positions) \in Nat /\ MaxPositions \in Nat
  BY RunFacts, Bounds DEF TypeInv, TypeOK
<1>2. row \in Position
  BY OpeningFacts DEF InsertPosition
<1>3. positions' = Append(positions, row) /\ Len(positions) < MaxPositions
  BY DEF InsertPosition, Opening
<1> HIDE DEF row
<1>4. /\ Written(positions, Append(positions, row), n, row)
      /\ Append(positions, row) \in Seq(Position) /\ Len(Append(positions, row)) = n
  BY <1>1, <1>2, Added
<1>5. n <= MaxPositions /\ n \notin DOMAIN positions
  BY <1>1, <1>3, DomainFacts
<1> QED BY <1>3, <1>4, <1>5 DEF row

LEMMA RealGrows ==
  ASSUME NEW n, NEW x, Written(positions, positions', n, x),
         n \in DOMAIN positions => x.paper = positions[n].paper
  PROVE  /\ Real \subseteq Real'
         /\ Real' = Real \cup (IF x.paper THEN {} ELSE {n})
BY DEF Written, Real

LEMMA InsertStep ==
  ASSUME TypeInv, NEW a \in Actors, InsertPosition(a)
  PROVE  TypeInv'
<1> DEFINE n == Len(positions) + 1
           p == actor[a]
           row == Opening(p)
           q == IF p.paper THEN Continue(p) ELSE [p EXCEPT !.pc = "cash", !.position = n]
<1>1. /\ positions' \in Seq(Position) /\ Len(positions') <= MaxPositions
      /\ Written(positions, positions', n, row) /\ n \notin DOMAIN positions
  BY InsertFacts
<1>2. /\ row \in Position /\ row.paper = p.paper /\ row.signal <= Len(signals)
      /\ (row.signal = 0) <=> (kind = "day_trader")
  BY OpeningFacts DEF InsertPosition
<1>3. /\ UNCHANGED <<kind, status, cash, realized, signals, ledger, today, drift, judged>>
      /\ Set(a, q) /\ p.pc = "insert"
  BY DEF InsertPosition
<1>4. /\ p \in Run /\ Legal(p, kind, DOMAIN positions, DOMAIN signals, Real)
      /\ p.op \in {"trader", "strategy"} \cup Buys
  <2>1. p \in Run /\ Legal(p, kind, DOMAIN positions, DOMAIN signals, Real)
    BY RunFacts
  <2> HIDE DEF p
  <2> QED BY <1>3, <2>1, StepOps
<1> HIDE DEF row, n
<1>5. Tables'
  <2>1. Tables
    BY TypesAre
  <2>2. \A i \in DOMAIN positions' :
           /\ (positions'[i].signal = 0) <=> (kind = "day_trader")
           /\ positions'[i].signal <= Len(signals)
    <3> SUFFICES ASSUME NEW i \in DOMAIN positions'
                 PROVE  /\ (positions'[i].signal = 0) <=> (kind = "day_trader")
                        /\ positions'[i].signal <= Len(signals)
      OBVIOUS
    <3>1. CASE i = n
      BY <1>1, <1>2, <3>1 DEF Written
    <3>2. CASE i # n
      BY <1>1, <2>1, <3>2 DEF Written, Tables
    <3> QED BY <3>1, <3>2
  <2> QED BY <1>1, <1>3, <2>1, <2>2 DEF Tables
<1>6. /\ Real \subseteq Real'
      /\ ~p.paper => n \in Real'
  <2>1. Real' = Real \cup (IF row.paper THEN {} ELSE {n})
    BY <1>1, RealGrows
  <2> QED BY <1>2, <2>1
<1>7. /\ DOMAIN positions \subseteq DOMAIN positions' /\ n \in DOMAIN positions' /\ n \in Nat
      /\ kind' = kind /\ DOMAIN signals' = DOMAIN signals
  BY <1>1, <1>3 DEF Written
<1>8. StepsTo(a, q)
  <2>0. Legal(p, kind, DOMAIN positions', DOMAIN signals, Real')
    BY <1>4, <1>6, <1>7, LegalStays
  <2>1. CASE p.paper
    <3>1. Continue(p) \in Run /\ Legal(Continue(p), kind, DOMAIN positions', DOMAIN signals, Real')
      BY <1>4, <2>0, ContinueLegal DEF Buys
    <3> QED BY <1>3, <1>7, <2>1, <3>1 DEF StepsTo
  <2>2. CASE ~p.paper
    <3> DEFINE r == [p EXCEPT !.pc = "cash", !.position = n]
    <3>0. p \in Run /\ n \in Nat
      BY <1>4, <1>7
    <3>1. /\ r \in Run /\ r.op = p.op /\ r.pc = "cash" /\ r.signal = p.signal
          /\ r.todo = p.todo /\ r.seen = p.seen /\ r.rows = p.rows /\ r.position = n
      BY <3>0 DEF Run, Steps, OpenSteps
    <3> HIDE DEF r, p
    <3>2. Legal(r, kind, DOMAIN positions', DOMAIN signals, Real')
      BY <1>4, <1>6, <1>7, <2>0, <2>2, <3>1
         DEF Legal, StepsOf, OpenSteps, RowLegal, SignalLegal, TodoLegal, Buys, Closes
    <3>3. q = r
      BY <2>2 DEF r
    <3> QED BY <1>3, <1>7, <3>1, <3>2, <3>3 DEF StepsTo
  <2> QED BY <2>1, <2>2
<1> QED BY <1>5, <1>6, <1>7, <1>8, StepTo

(* The row a run has closed at its price. *)
Closed(p) == [positions[p.position] EXCEPT !.status = "closed", !.exit = p.price]

LEMMA RowFacts ==
  ASSUME TypeInv, NEW i \in DOMAIN positions
  PROVE  /\ positions[i] \in Position /\ i \in Nat \ {0}
         /\ (positions[i].signal = 0) <=> (kind = "day_trader")
         /\ positions[i].signal <= Len(signals)
BY DomainFacts DEF TypeInv, TypeOK

LEMMA ClosedFacts ==
  ASSUME TypeInv, NEW a \in Actors, actor[a].pc \in {"close", "credit"}
  PROVE  LET p == actor[a]
             row == positions[p.position]
         IN /\ p.position \in DOMAIN positions /\ row \in Position
            /\ Closed(p) \in Position /\ Closed(p).signal = row.signal
            /\ Closed(p).paper = row.paper /\ Closed(p).status = "closed"
            /\ Closed(p).exit = p.price /\ Closed(p).entry = row.entry
            /\ Closed(p).quantity = row.quantity /\ Closed(p).direction = row.direction
            /\ p.price \in Prices \cup {0}
<1> DEFINE p == actor[a]
<1>1. p \in Run /\ Legal(p, kind, DOMAIN positions, DOMAIN signals, Real)
  BY RunFacts
<1>2. p.position \in DOMAIN positions /\ p.price \in Prices \cup {0}
  BY <1>1 DEF Legal, RowLegal, Run, Real
<1>3. positions[p.position] \in Position
  <2> HIDE DEF p
  <2> QED BY <1>2, RowFacts
<1> QED BY <1>2, <1>3 DEF Closed, Position

LEMMA CloseFacts ==
  ASSUME TypeInv, NEW a \in Actors, ClosePosition(a)
  PROVE  /\ positions' \in Seq(Position) /\ Len(positions') = Len(positions)
         /\ Written(positions, positions', actor[a].position, Closed(actor[a]))
         /\ DOMAIN positions' = DOMAIN positions /\ Real' = Real
<1> DEFINE i == actor[a].position
           row == Closed(actor[a])
<1>1. positions \in Seq(Position)
  BY DEF TypeInv, TypeOK
<1>2. i \in DOMAIN positions /\ row \in Position /\ row.paper = positions[i].paper
  BY ClosedFacts DEF ClosePosition
<1>3. positions' = Over(positions, i, row)
  BY <1>1, <1>2 DEF ClosePosition, Over, Closed
<1> HIDE DEF row, i
<1>4. \A v : v = Over(positions, i, row) => v \in Seq(Position)
  BY <1>1, <1>2, Replaced
<1>5. \A v : v = Over(positions, i, row) => Len(v) = Len(positions)
  BY <1>1, <1>2, Replaced
<1>6. \A v : v = Over(positions, i, row) => Written(positions, v, i, row)
  BY <1>1, <1>2, Replaced
<1>7. Written(positions, positions', i, row)
  BY <1>3, <1>6
<1>8. Real' = Real
  BY <1>2, <1>7 DEF Written, Real
<1>9. DOMAIN positions' = DOMAIN positions
  BY <1>2, <1>7 DEF Written
<1> QED BY <1>3, <1>4, <1>5, <1>7, <1>8, <1>9 DEF i, row

LEMMA CloseStep ==
  ASSUME TypeInv, NEW a \in Actors, ClosePosition(a)
  PROVE  TypeInv'
<1> DEFINE p == actor[a]
           i == p.position
           row == Closed(p)
<1>1. /\ positions' \in Seq(Position) /\ Len(positions') = Len(positions)
      /\ Written(positions, positions', i, row)
      /\ DOMAIN positions' = DOMAIN positions /\ Real' = Real
  BY CloseFacts
<1>2. i \in DOMAIN positions /\ row.signal = positions[i].signal
  BY ClosedFacts DEF ClosePosition
<1>3. /\ UNCHANGED <<kind, status, cash, realized, signals, ledger, today, judged>>
      /\ drift' = drift \/ drift' = drift \cup {"closed twice"}
      /\ p.pc = "close"
      /\ Set(a, IF positions[i].paper THEN Continue(p) ELSE [p EXCEPT !.pc = "credit"])
  BY DEF ClosePosition
<1> HIDE DEF row
<1>4. Tables'
  <2>1. Tables
    BY TypesAre
  <2>2. \A j \in DOMAIN positions' :
           /\ (positions'[j].signal = 0) <=> (kind = "day_trader")
           /\ positions'[j].signal <= Len(signals)
    <3> SUFFICES ASSUME NEW j \in DOMAIN positions'
                 PROVE  positions'[j].signal = positions[j].signal
      BY <1>1, <2>1 DEF Tables
    <3> QED BY <1>1, <1>2 DEF Written
  <2> QED BY <1>1, <1>3, <2>1, <2>2 DEF Tables, Causes
<1>5. NextRun(a)
  <2>1. /\ p \in Run /\ Legal(p, kind, DOMAIN positions, DOMAIN signals, Real)
    BY RunFacts
  <2>2. p.op \in {"strategy"} \cup Closes
    <3> HIDE DEF p
    <3> QED BY <1>3, <2>1, StepOps DEF CloseSteps
  <2>3. CASE positions[i].paper
    BY <1>3, <2>2, <2>3, ToContinue DEF Closes
  <2>4. CASE ~positions[i].paper
    <3> DEFINE q == [p EXCEPT !.pc = "credit"]
    <3>1. /\ q.op = p.op /\ q.pc = "credit" /\ q.rows = p.rows /\ q.position = p.position
          /\ q.signal = p.signal /\ q.quantity = p.quantity /\ q.price = p.price
      BY <2>1 DEF Run
    <3>2. i \in Real
      BY <1>2, <2>4 DEF Real
    <3>3. RowLegal(q, DOMAIN positions, Real) /\ SignalLegal(q, DOMAIN signals)
      <4> HIDE DEF q, p
      <4> QED BY <1>3, <2>1, <3>1, <3>2 DEF Legal, RowLegal, SignalLegal, p
    <3>4. "credit" \in Steps /\ "credit" \in StepsOf(p.op) /\ p.op # "idle"
      BY <2>2 DEF Steps, StepsOf, CloseSteps, Closes
    <3> QED BY <1>3, <2>4, <3>3, <3>4, ToStep
  <2> QED BY <2>3, <2>4
<1>6. PICK q \in Run : Set(a, q) /\ Legal(q, kind, DOMAIN positions, DOMAIN signals, Real)
  BY <1>5 DEF NextRun
<1>7. StepsTo(a, q)
  BY <1>1, <1>3, <1>6 DEF StepsTo
<1> QED BY <1>1, <1>3, <1>4, <1>7, StepTo

LEMMA BooksStep ==
  ASSUME TypeInv, NEW a \in Actors, NextRun(a), UNCHANGED <<kind, positions, signals>>,
         status' \in Statuses, cash' \in Int, realized' \in Int,
         ledger' \in [DOMAIN ledger' -> Nat], DOMAIN ledger' \subseteq 0..MaxDays,
         today' \in 0..MaxDays, judged' \in [cash : Int, sure : BOOLEAN],
         drift' \subseteq Causes
  PROVE  TypeInv'
<1>1. Tables'
  BY TypesAre DEF Tables
<1>2. actor' \in [Actors -> Run] /\ RunsLegal'
  BY RunStep
<1>3. (TypeInv <=> Tables /\ actor \in [Actors -> Run] /\ RunsLegal)'
  BY TypesAre, PTL
<1> QED BY <1>1, <1>2, <1>3

LEMMA RunOnly ==
  ASSUME TypeInv, NEW a \in Actors, NextRun(a),
         UNCHANGED <<kind, books, signals, ledger, today>>,
         drift' \subseteq Causes, judged' \in [cash : Int, sure : BOOLEAN]
  PROVE  TypeInv'
<1>1. Tables
  BY TypesAre
<1>2. UNCHANGED <<kind, status, cash, realized, positions, signals, ledger, today>>
  BY DEF books
<1> QED BY <1>1, <1>2, BooksStep DEF Tables

LEMMA JudgeType ==
  ASSUME TypeInv, NEW balance \in Int
  PROVE  /\ Sure(balance) \in [cash : Int, sure : BOOLEAN]
         /\ Unsure \in [cash : Int, sure : BOOLEAN]
         /\ judged \in [cash : Int, sure : BOOLEAN]
BY DEF Sure, Unsure, TypeInv

LEMMA JudgedType ==
  ASSUME TypeInv, NEW a, NEW balance \in Int
  PROVE  /\ Judge(a, balance) => judged' \in [cash : Int, sure : BOOLEAN]
         /\ Judged(a, balance) \in [cash : Int, sure : BOOLEAN]
<1>1. /\ Sure(balance) \in [cash : Int, sure : BOOLEAN]
      /\ Unsure \in [cash : Int, sure : BOOLEAN]
      /\ judged \in [cash : Int, sure : BOOLEAN]
  BY JudgeType
<1>2. Judge(a, balance) => judged' \in {judged, Sure(balance), Unsure}
  BY DEF Judge
<1>3. Judged(a, balance) \in {Sure(balance), Unsure}
  BY DEF Judged
<1> QED BY <1>1, <1>2, <1>3

(* What positions move is a whole number. *)
LEMMA AmountTypes ==
  ASSUME NEW p \in Position
  PROVE  Paid(p) \in Int /\ Returned(p) \in Int /\ calculatePnl(p) \in Int
<1>1. /\ p.quantity \in Int /\ p.entry \in Int /\ p.exit \in Int
  <2>1. p.quantity \in Nat /\ p.entry \in Prices /\ (p.exit \in Prices \/ p.exit = 0)
    BY DEF Position
  <2>2. \A x \in Prices : x \in Int
    BY ConstantsAssumption
  <2>3. p.quantity \in Int
    BY <2>1
  <2>4. p.exit \in Int
    BY <2>1, <2>2
  <2> QED BY <2>1, <2>2, <2>3, <2>4
<1>2. p.quantity * p.entry \in Int /\ p.quantity * p.exit \in Int
  BY <1>1
<1>3. \A x \in Int : x * 1 \in Int /\ x * (-1) \in Int
  OBVIOUS
<1>4. Paid(p) \in Int
  <2>1. CASE p.direction = "short"
    BY <1>2, <2>1 DEF Paid
  <2>2. CASE p.direction # "short"
    BY <1>2, <2>2 DEF Paid
  <2> QED BY <2>1, <2>2
<1>5. Returned(p) \in Int
  <2>1. CASE p.direction = "short"
    BY <1>2, <2>1 DEF Returned
  <2>2. CASE p.direction # "short"
    BY <1>2, <2>2 DEF Returned
  <2> QED BY <2>1, <2>2
<1>6. calculatePnl(p) \in Int
  <2>1. p.exit - p.entry \in Int /\ p.entry - p.exit \in Int
    BY <1>1
  <2>2. CASE p.direction = "long"
    BY <1>1, <2>1, <2>2 DEF calculatePnl
  <2>3. CASE p.direction # "long"
    BY <1>1, <2>1, <2>3 DEF calculatePnl
  <2> QED BY <2>2, <2>3
<1> QED BY <1>4, <1>5, <1>6

LEMMA MoneyStep ==
  ASSUME TypeInv, NEW a \in Actors, MoveCash(a) \/ Credit(a) \/ TopUp(a)
  PROVE  TypeInv'
<1> DEFINE p == actor[a]
<1>1. Tables
  BY TypesAre
<1>2. /\ p \in Run /\ Legal(p, kind, DOMAIN positions, DOMAIN signals, Real)
      /\ cash \in Int /\ realized \in Int /\ InitialBalance \in Int
  BY <1>1, RunFacts, Bounds DEF Tables
<1>3. CASE MoveCash(a)
  <2>1. p.pc = "cash"
    BY <1>3 DEF MoveCash
  <2>2. p.position \in DOMAIN positions /\ p.op \notin {"idle", "paper"}
    <3> HIDE DEF p
    <3> QED BY <1>2, <2>1, StepOps, RunFacts DEF Legal, RowLegal, Buys, Real
  <2>3. Paid(positions[p.position]) \in Int
    <3> HIDE DEF p
    <3> QED BY <2>2, RowFacts, AmountTypes
  <2>4. cash' \in Int
    BY <1>2, <1>3, <2>3 DEF MoveCash
  <2>5. judged' \in [cash : Int, sure : BOOLEAN]
    BY <1>3, <2>4, JudgedType DEF MoveCash
  <2>6. NextRun(a)
    BY <1>3, <2>2, ToContinue DEF MoveCash
  <2> QED BY <1>1, <1>3, <2>4, <2>5, <2>6, BooksStep DEF MoveCash, Tables
<1>4. CASE Credit(a)
  <2>1. p.pc = "credit"
    BY <1>4 DEF Credit
  <2>2. Closing(p) \in Position
    <3>1. p.position \in DOMAIN positions /\ p.price \in Prices \cup {0}
      BY <2>1, ClosedFacts
    <3>2. positions[p.position] \in Position
      BY <3>1, RowFacts
    <3> QED BY <3>1, <3>2 DEF Closing, Position
  <2>3. Returned(Closing(p)) \in Int /\ calculatePnl(Closing(p)) \in Int
    BY <2>2, AmountTypes
  <2>4. cash' \in Int /\ realized' \in Int
    BY <1>2, <1>4, <2>3 DEF Credit
  <2>5. judged' \in [cash : Int, sure : BOOLEAN]
    BY <1>4, <2>4, JudgedType DEF Credit
  <2>6. NextRun(a)
    BY <1>4, <2>1, BookedRun DEF Credit
  <2> QED BY <1>1, <1>4, <2>4, <2>5, <2>6, BooksStep DEF Credit, Tables
<1>5. CASE TopUp(a)
  <2>1. cash' \in Int
    BY <1>2, <1>5 DEF TopUp
  <2>2. judged' \in [cash : Int, sure : BOOLEAN]
    BY <1>5, <2>1, JudgedType DEF TopUp
  <2>3. NextRun(a)
    BY <1>5, ToIdle DEF TopUp
  <2>4. drift' \subseteq Causes
    BY <1>1, <1>5 DEF TopUp, Tables, Causes
  <2> QED BY <1>1, <1>5, <2>1, <2>2, <2>3, <2>4, BooksStep DEF TopUp, Tables
<1> QED BY <1>3, <1>4, <1>5

LEMMA LedgerStep ==
  ASSUME TypeInv, NEW a \in Actors, InsertBailout(a)
  PROVE  TypeInv'
<1> DEFINE p == actor[a]
           amount == AtLeastZero(InitialBalance - p.balance)
<1>1. Tables
  BY TypesAre
<1>2. /\ UNCHANGED <<kind, status, cash, realized, positions, signals, today, drift, judged>>
      /\ p.pc = "ledger"
  BY DEF InsertBailout, books, history
<1>3. CASE today \in DOMAIN ledger
  <2>1. NextRun(a) /\ ledger' = ledger
    BY <1>3, ToIdle DEF InsertBailout
  <2> QED BY <1>1, <1>2, <2>1, BooksStep DEF Tables
<1>4. CASE today \notin DOMAIN ledger
  <2>1. NextRun(a)
    BY <1>2, <1>4, ResetRuns DEF InsertBailout
  <2>2. amount \in Nat
    <3>1. p.balance \in Int /\ InitialBalance \in Int
      BY RunFacts, Bounds DEF Run
    <3> QED BY <3>1 DEF AtLeastZero
  <2>3. ledger' = [d \in DOMAIN ledger \cup {today} |-> IF d = today THEN amount ELSE ledger[d]]
    BY <1>4 DEF InsertBailout
  <2> HIDE DEF amount
  <2>4. /\ ledger' \in [DOMAIN ledger' -> Nat] /\ DOMAIN ledger' \subseteq 0..MaxDays
    BY <1>1, <2>2, <2>3 DEF Tables
  <2> QED BY <1>1, <1>2, <2>1, <2>4, BooksStep DEF Tables
<1> QED BY <1>3, <1>4

LEMMA StatusStep ==
  ASSUME TypeInv, NEW a \in Actors, UpdateStatus(a)
  PROVE  TypeInv'
<1>1. Tables
  BY TypesAre
<1>2. NextRun(a) /\ status' \in Statuses
  BY UpdateRun DEF UpdateStatus
<1>3. UNCHANGED <<kind, cash, realized, positions, signals, ledger, today, drift, judged>>
  BY DEF UpdateStatus, history
<1> QED BY <1>1, <1>2, <1>3, BooksStep DEF Tables

LEMMA FailStep ==
  ASSUME TypeInv, NEW a \in Actors, StatementFails(a)
  PROVE  TypeInv'
<1>1. Tables
  BY TypesAre
<1>2. NextRun(a)
  BY FailRun
<1>3. UNCHANGED <<kind, books, signals, ledger, today>>
  BY DEF StatementFails
<1>4. drift' \subseteq drift \cup {"lost update"}
  BY DEF StatementFails
<1>5. judged' \in {judged, Unsure, Judged(a, cash)}
  BY DEF StatementFails
<1>6. judged' \in [cash : Int, sure : BOOLEAN]
  <2>1. cash \in Int /\ judged \in [cash : Int, sure : BOOLEAN]
    BY <1>1 DEF Tables
  <2>2. Unsure \in [cash : Int, sure : BOOLEAN]
    BY <2>1, JudgeType
  <2>3. Judged(a, cash) \in [cash : Int, sure : BOOLEAN]
    BY <2>1, JudgedType
  <2> QED BY <1>5, <2>1, <2>2, <2>3
<1>7. drift' \subseteq Causes
  BY <1>1, <1>4 DEF Tables, Causes
<1> QED BY <1>2, <1>3, <1>6, <1>7, RunOnly

LEMMA CrashStep ==
  ASSUME TypeInv, Crash
  PROVE  TypeInv'
<1>1. Tables
  BY TypesAre
<1>2. /\ actor' = [a \in Actors |-> Idle]
      /\ UNCHANGED <<kind, status, cash, realized, positions, signals, ledger, today>>
      /\ drift' \subseteq drift \cup {"lost update"}
      /\ judged' \in {judged, Unsure}
  BY DEF Crash, books
<1>3. judged' \in [cash : Int, sure : BOOLEAN]
  <2>1. cash \in Int /\ judged \in [cash : Int, sure : BOOLEAN]
    BY <1>1 DEF Tables
  <2>2. Unsure \in [cash : Int, sure : BOOLEAN]
    BY <2>1, JudgeType
  <2> QED BY <1>2, <2>1, <2>2
<1>4. Tables'
  BY <1>1, <1>2, <1>3 DEF Tables, Causes
<1>5. actor' \in [Actors -> Run] /\ RunsLegal'
  BY <1>2, IdleLegal DEF RunsLegal
<1>6. (TypeInv <=> Tables /\ actor \in [Actors -> Run] /\ RunsLegal)'
  BY TypesAre, PTL
<1> QED BY <1>4, <1>5, <1>6

LEMMA DayStep ==
  ASSUME TypeInv, NewDay \/ UNCHANGED vars
  PROVE  TypeInv'
<1>1. Tables /\ actor \in [Actors -> Run] /\ RunsLegal
  BY TypesAre
<1>2. /\ UNCHANGED <<kind, status, cash, realized, positions, signals, ledger, drift, judged>>
      /\ actor' = actor
  BY DEF NewDay, vars, books, history
<1>3. today' \in 0..MaxDays
  BY <1>1, Bounds DEF NewDay, vars, Tables
<1>4. Tables'
  BY <1>1, <1>2, <1>3 DEF Tables
<1>5. RunsLegal'
  BY <1>1, <1>2 DEF RunsLegal, Real
<1>6. (TypeInv <=> Tables /\ actor \in [Actors -> Run] /\ RunsLegal)'
  BY TypesAre, PTL
<1> QED BY <1>1, <1>2, <1>4, <1>5, <1>6

LEMMA QuietStep ==
  ASSUME TypeInv, NEW a \in Actors,
         \/ StartSettlement(a)
         \/ \E s \in actor[a].todo : NextSignal(a, s)
         \/ SelectSignals(a)
         \/ isInPaperTradingPeriod(a)
         \/ \E expired \in SUBSET OpenPositions : SelectExpired(a, expired)
         \/ DayTick(a)
         \/ StartReset(a)
         \/ ReadBalance(a)
         \/ \E price \in Prices : SizePosition(a, price)
         \/ \E price \in Prices : \E i \in actor[a].todo : NextToClose(a, i, price)
         \/ FindPosition(a)
         \/ CheckStatus(a)
         \/ Finish(a)
  PROVE  TypeInv'
<1>1. NextRun(a)
  <2>1. CASE isInPaperTradingPeriod(a)
    <3> DEFINE b == today < PaperDays \/ 5 * cash <= 4 * InitialBalance
    <3>1. actor[a].pc = "period" /\ Set(a, [actor[a] EXCEPT !.pc = "portfolio", !.paper = b])
      BY <2>1 DEF isInPaperTradingPeriod
    <3>2. b \in BOOLEAN
      OBVIOUS
    <3> HIDE DEF b
    <3> QED BY <3>1, <3>2, PeriodRun
  <2>2. CASE Finish(a)
    BY <2>2, ToIdle DEF Finish
  <2>3. CASE DayTick(a)
    BY <2>3, ListRuns, StrategyRuns, DecideRun, FlatRun DEF DayTick
  <2>4. CASE StartReset(a) \/ ReadBalance(a)
    BY <2>4, ListRuns, ResetRuns
  <2>5. CASE \/ StartSettlement(a)
             \/ \E s \in actor[a].todo : NextSignal(a, s)
             \/ SelectSignals(a)
             \/ \E expired \in SUBSET OpenPositions : SelectExpired(a, expired)
    BY <2>5, SettlementRuns, NextSignalRun, SelectRun, ExpiredRun
  <2>6. CASE \/ \E price \in Prices : SizePosition(a, price)
             \/ \E price \in Prices : \E i \in actor[a].todo : NextToClose(a, i, price)
             \/ FindPosition(a)
             \/ CheckStatus(a)
    BY <2>6, SizeRun, NextToCloseRun, FindRun, CheckRun
  <2> QED BY <2>1, <2>2, <2>3, <2>4, <2>5, <2>6
<1>2. UNCHANGED <<kind, books, signals, ledger, today, drift, judged>>
  BY DEF StartSettlement, NextSignal, SelectSignals, isInPaperTradingPeriod, SelectExpired,
         DayTick, StartWatch, StartStrategies, Decide, SelectFlat, StartReset, ReadBalance,
         SizePosition, NextToClose, FindPosition, CheckStatus, Finish, history, books
<1>3. Tables
  BY TypesAre
<1> QED BY <1>1, <1>2, <1>3, RunOnly DEF Tables

LEMMA InitTypes == Init => TypeInv
<1> SUFFICES ASSUME Init PROVE TypeInv
  OBVIOUS
<1>1. InitialBalance \in Int /\ MaxPositions \in Nat /\ MaxSignals \in Nat /\ MaxDays \in Nat
  BY Bounds
<1>2. positions \in Seq(Position) /\ Len(positions) = 0 /\ DOMAIN positions = {}
  BY DEF Init
<1>3. signals \in Seq(Signal) /\ Len(signals) = 0 /\ DOMAIN signals = {}
  BY DEF Init
<1>4. ledger \in [DOMAIN ledger -> Nat] /\ DOMAIN ledger \subseteq 0..MaxDays
  BY DEF Init
<1>5. Tables
  BY <1>1, <1>2, <1>3, <1>4 DEF Init, Tables, Statuses
<1>6. actor \in [Actors -> Run] /\ RunsLegal
  BY IdleLegal DEF Init, RunsLegal
<1> QED BY <1>5, <1>6, TypesAre

(* The actions one by one, each with who takes it. *)
LEMMA Cases ==
  ASSUME Next
  PROVE  \/ \E a \in Actors, verdict \in Verdicts : Publish(a, verdict[1], verdict[2])
         \/ \E a \in Actors : PublishPaper(a)
         \/ \E a \in Actors : StartSettlement(a)
         \/ \E a \in Actors : \E s \in actor[a].todo : NextSignal(a, s)
         \/ \E a \in Actors : SelectSignals(a)
         \/ \E a \in Actors : isInPaperTradingPeriod(a)
         \/ \E a \in Actors : MarkSettled(a)
         \/ \E a \in Actors, expired \in SUBSET OpenPositions : SelectExpired(a, expired)
         \/ \E a \in Actors : StartWatch(a)
         \/ \E a \in Actors, op \in {"strategy", "flat"} : StartStrategies(a, op)
         \/ \E a \in Actors, direction \in Directions, price \in Prices :
              Decide(a, direction, price)
         \/ \E a \in Actors : SelectFlat(a)
         \/ \E a \in Actors : StartReset(a)
         \/ \E a \in Actors : ReadBalance(a)
         \/ \E a \in Actors : InsertBailout(a)
         \/ \E a \in Actors : TopUp(a)
         \/ \E a \in Actors, price \in Prices : SizePosition(a, price)
         \/ \E a \in Actors, price \in Prices : \E i \in actor[a].todo : NextToClose(a, i, price)
         \/ \E a \in Actors : FindPosition(a)
         \/ \E a \in Actors : InsertPosition(a)
         \/ \E a \in Actors : MoveCash(a)
         \/ \E a \in Actors : ClosePosition(a)
         \/ \E a \in Actors : Credit(a)
         \/ \E a \in Actors : CheckStatus(a)
         \/ \E a \in Actors : UpdateStatus(a)
         \/ \E a \in Actors : Finish(a)
         \/ \E a \in Actors : StatementFails(a)
         \/ Crash
         \/ NewDay
<1>1. CASE \E a \in Pipelines : Pipeline(a)
  <2>1. PICK a \in Actors : Pipeline(a)
    BY <1>1 DEF Actors
  <2> QED BY <2>1 DEF Pipeline
<1>2. CASE \E a \in Settlements : Settlement(a)
  <2>1. PICK a \in Actors : Settlement(a)
    BY <1>2 DEF Actors
  <2> QED BY <2>1 DEF Settlement
<1>3. CASE \E a \in Ticks : DayTick(a)
  <2>1. PICK a \in Actors : DayTick(a)
    BY <1>3 DEF Actors
  <2> QED BY <2>1 DEF DayTick
<1>4. CASE \E a \in Resets : Reset(a)
  <2>1. PICK a \in Actors : Reset(a)
    BY <1>4 DEF Actors
  <2> QED BY <2>1 DEF Reset
<1>5. CASE \E a \in Actors : Statement(a) \/ StatementFails(a)
  <2>1. PICK a \in Actors : Statement(a) \/ StatementFails(a)
    BY <1>5
  <2> QED BY <2>1 DEF Statement
<1> QED BY <1>1, <1>2, <1>3, <1>4, <1>5 DEF Next

LEMMA TypeStep ==
  ASSUME TypeInv, [Next]_vars
  PROVE  TypeInv'
<1>1. ASSUME NEW a \in Actors, NEW verdict \in Verdicts, Publish(a, verdict[1], verdict[2])
      PROVE  TypeInv'
  <2>1. verdict[1] \in {"up", "down", "flat"} /\ verdict[2] \in Strengths
    BY ConstantsAssumption
  <2> QED BY <1>1, <2>1, PublishStep
<1>2. ASSUME Next PROVE TypeInv'
  <2>1. ASSUME NEW a \in Actors,
               PublishPaper(a) \/ MarkSettled(a) \/ InsertPosition(a) \/ ClosePosition(a)
        PROVE  TypeInv'
    BY <2>1, PaperStep, SettledStep, InsertStep, CloseStep
  <2>2. ASSUME NEW a \in Actors,
               \/ MoveCash(a) \/ Credit(a) \/ TopUp(a) \/ InsertBailout(a)
               \/ UpdateStatus(a) \/ StatementFails(a)
        PROVE  TypeInv'
    BY <2>2, MoneyStep, LedgerStep, StatusStep, FailStep
  <2>3. ASSUME NEW a \in Actors,
               \/ StartWatch(a) \/ SelectFlat(a)
               \/ \E op \in {"strategy", "flat"} : StartStrategies(a, op)
               \/ \E direction \in Directions, price \in Prices : Decide(a, direction, price)
        PROVE  TypeInv'
    BY <2>3, QuietStep DEF DayTick
  <2> QED BY <1>1, <1>2, <2>1, <2>2, <2>3, Cases, QuietStep, CrashStep, DayStep
<1> QED BY <1>2, DayStep

(* Whatever the runs do at once, the rows are rows the schema accepts, cash
   and profit whole numbers, and a run between two statements is at one its
   code has, holding rows that exist.                                      *)
THEOREM TypeCorrect == Spec => []TypeOK
<1>1. Init => TypeInv
  BY InitTypes
<1>2. TypeInv /\ [Next]_vars => TypeInv'
  BY TypeStep
<1>3. TypeInv => TypeOK
  BY DEF TypeInv
<1> QED BY <1>1, <1>2, <1>3, PTL DEF Spec

-----------------------------------------------------------------------------
(* What a run that opens positions does next *)

Trades == Buys \cup {"trader"}

Others(a) == \A b \in Actors \ {a} : actor'[b] = actor[b]

LEMMA SetFacts ==
  ASSUME TypeInv, NEW a \in Actors, NEW q, Set(a, q)
  PROVE  actor'[a] = q /\ Others(a)
BY DEF TypeInv, Set, Others

Same(p, q) == q.op = p.op /\ q.signal = p.signal /\ q.todo = p.todo /\ q.seen = p.seen

(* To the next signal of the list. *)
Onward(p, q) ==
  p.op \in Buys /\ q.op = p.op /\ q.pc = "next" /\ q.signal = 0 /\ q.todo = p.todo

LEMMA OnwardFacts ==
  ASSUME NEW p \in Run
  PROVE  LET q == Continue(p)
         IN /\ p.op \in Buys => Onward(p, q) /\ q.seen = p.seen
            /\ p.op \notin Buys => q.op \notin Trades /\ q.pc # "insert"
<1> DEFINE q == Continue(p)
<1>1. CASE p.op = "strategy"
  BY <1>1, ContinueFacts, IdleFacts DEF Buys, Trades
<1>2. CASE p.op = "trader"
  BY <1>2, ContinueFacts DEF Buys, Trades
<1>3. CASE p.op \notin {"strategy", "trader"}
  <2>1. /\ q.op = p.op /\ q.pc = "next" /\ q.signal = 0
        /\ q.todo = p.todo /\ q.seen = p.seen
    BY <1>3, ContinueFacts
  <2> HIDE DEF q
  <2> QED BY <1>3, <2>1 DEF Onward, Trades, q
<1> QED BY <1>1, <1>2, <1>3

(* The run p has become q: it trades no signal, starts to, takes the next one,
   goes one statement further with it, gives it up or is done with it.      *)
Trading(a) ==
  LET p == actor[a]
      q == actor'[a]
      on == Same(p, q) /\ p.op \in Trades
  IN \/ q.op \notin Trades
     \/ q.op = "trader" /\ q.pc = "portfolio"
     \/ q.op = "forced" /\ q.pc = "next" /\ q.todo = q.seen
     \/ /\ p.op \in Buys /\ p.pc = "next" /\ q.op = p.op /\ q.seen = p.seen
        /\ q.signal \in p.todo /\ q.todo = p.todo \ {q.signal}
        /\ q.pc = IF p.op = "forced" THEN "portfolio" ELSE "period"
     \/ /\ p.op = "forced" /\ p.pc = "next" /\ p.todo = {}
        /\ q.op = "backfill" /\ q.pc = "next"
        /\ \E all : /\ q.seen = p.seen \cup all
                    /\ q.todo = {s \in all : PositionsOf(s) = {}}
     \/ on /\ p.op = "backfill" /\ p.pc = "period" /\ q.pc = "portfolio"
     \/ on /\ p.pc = "portfolio" /\ q.pc = IF p.op = "backfill" THEN "insert" ELSE "lookup"
     \/ /\ on /\ p.pc = "lookup" /\ q.pc = "insert"
        /\ PositionsOf(p.signal) = {} \/ p.signal \in raced'
     \/ on /\ p.pc = "insert" /\ q.pc = "cash" /\ InsertPosition(a)
     \/ Onward(p, q) /\ q.seen = p.seen \ {p.signal}
     \/ /\ Onward(p, q) /\ q.seen = p.seen
        /\ \/ p.pc = "cash"
           \/ p.pc = "lookup" /\ PositionsOf(p.signal) # {}
           \/ p.pc = "insert" /\ InsertPosition(a)

LEMMA GivenUp ==
  ASSUME TypeInv, NEW a \in Actors,
         Set(a, Continue([actor[a] EXCEPT !.seen = @ \ {actor[a].signal}]))
  PROVE  Trading(a)
<1> DEFINE p == actor[a]
           r == Unseen(p, p.signal)
           q == actor'[a]
<1>1. p \in Run
  BY RunFacts
<1>2. /\ r \in Run /\ r.op = p.op /\ r.todo = p.todo /\ r.seen = p.seen \ {p.signal}
  BY <1>1 DEF Run, Unseen
<1>3. q = Continue(r)
  BY SetFacts DEF Unseen
<1> HIDE DEF r
<1>4. /\ r.op \in Buys => Onward(r, q) /\ q.seen = r.seen
      /\ r.op \notin Buys => q.op \notin Trades
  BY <1>2, <1>3, OnwardFacts
<1>5. p.op \in Buys => Onward(p, q) /\ q.seen = p.seen \ {p.signal}
  BY <1>2, <1>4 DEF Onward
<1>6. p.op \notin Buys => q.op \notin Trades
  BY <1>2, <1>4
<1> QED BY <1>5, <1>6 DEF Trading

LEMMA DoneWith ==
  ASSUME TypeInv, NEW a \in Actors, Set(a, Continue(actor[a])),
         \/ actor[a].op \notin Buys
         \/ actor[a].pc = "cash"
         \/ actor[a].pc = "lookup" /\ PositionsOf(actor[a].signal) # {}
         \/ actor[a].pc = "insert" /\ InsertPosition(a)
  PROVE  Trading(a)
<1> DEFINE p == actor[a]
           q == actor'[a]
<1>1. p \in Run /\ q = Continue(p)
  BY RunFacts, SetFacts
<1>2. /\ p.op \in Buys => Onward(p, q) /\ q.seen = p.seen
      /\ p.op \notin Buys => q.op \notin Trades
  BY <1>1, OnwardFacts
<1> QED BY <1>2 DEF Trading

LEMMA GoesOn ==
  ASSUME TypeInv, NEW a \in Actors, actor[a].op \in Trades,
         NEW pc, NEW q, Set(a, q), Same(actor[a], q), q.pc = pc,
         \/ actor[a].op = "backfill" /\ actor[a].pc = "period" /\ pc = "portfolio"
         \/ /\ actor[a].pc = "portfolio"
            /\ pc = IF actor[a].op = "backfill" THEN "insert" ELSE "lookup"
         \/ /\ actor[a].pc = "lookup" /\ pc = "insert"
            /\ PositionsOf(actor[a].signal) = {} \/ actor[a].signal \in raced'
         \/ actor[a].pc = "insert" /\ pc = "cash" /\ InsertPosition(a)
  PROVE  Trading(a)
<1>1. actor'[a] = q
  BY SetFacts
<1> QED BY <1>1 DEF Trading

LEMMA OpeningSteps ==
  ASSUME TypeInv, NEW a \in Actors,
         \/ \E price \in Prices : SizePosition(a, price)
         \/ FindPosition(a)
         \/ InsertPosition(a)
         \/ isInPaperTradingPeriod(a)
         \/ MoveCash(a)
  PROVE  Trading(a)
<1> DEFINE p == actor[a]
<1>1. p \in Run /\ Legal(p, kind, DOMAIN positions, DOMAIN signals, Real)
  BY RunFacts
<1>2. /\ p.pc = "portfolio" => p.op \in Trades
      /\ p.pc = "lookup" => p.op \in Trades
      /\ p.pc \in {"insert", "cash"} => p.op \in Trades \cup {"strategy"}
      /\ p.pc = "period" => p.op = "backfill"
  BY <1>1, StepOps DEF Trades, Buys
<1>3. ASSUME NEW price \in Prices, SizePosition(a, price) PROVE Trading(a)
  <2> DEFINE s == p.rows[p.signal]
             quantity == calculatePositionSize(cash, price, Percent[s.strength])
             pc == IF p.op = "backfill" THEN "insert" ELSE "lookup"
             d == IF s.direction = "down" THEN "short" ELSE "long"
             r == IF p.todo = {} THEN <<>> ELSE p.rows
             b == p.paper \/ (p.op = "backfill" /\ status = "suspended")
             q == [p EXCEPT !.pc = pc, !.direction = d, !.quantity = quantity,
                            !.price = price, !.rows = r, !.paper = b]
  <2>1. p.pc = "portfolio"
    BY <1>3 DEF SizePosition
  <2>2. \/ Set(a, Continue([p EXCEPT !.seen = @ \ {p.signal}]))
        \/ Set(a, q)
    BY <1>3 DEF SizePosition
  <2>3. CASE Set(a, q)
    <3> HIDE DEF s, quantity, pc, d, r, b
    <3>1. Same(p, q) /\ q.pc = pc
      BY <1>1 DEF Same, Run
    <3> HIDE DEF q
    <3> QED BY <1>2, <2>1, <2>3, <3>1, GoesOn DEF pc
  <2> QED BY <2>2, <2>3, GivenUp
<1>4. CASE FindPosition(a)
  <2>1. p.pc = "lookup"
    BY <1>4 DEF FindPosition
  <2>2. CASE PositionsOf(p.signal) = {}
    <3> DEFINE q == [p EXCEPT !.pc = "insert"]
    <3>1. Set(a, q)
      BY <1>4, <2>2 DEF FindPosition
    <3>2. Same(p, q) /\ q.pc = "insert"
      BY <1>1 DEF Same, Run
    <3> HIDE DEF q
    <3> QED BY <1>2, <2>1, <2>2, <3>1, <3>2, GoesOn
  <2>3. CASE PositionsOf(p.signal) # {}
    BY <1>4, <2>1, <2>3, DoneWith DEF FindPosition
  <2> QED BY <2>2, <2>3
<1>5. CASE InsertPosition(a)
  <2>1. p.pc = "insert"
    BY <1>5 DEF InsertPosition
  <2>2. CASE p.paper
    BY <1>5, <2>1, <2>2, DoneWith DEF InsertPosition
  <2>3. CASE ~p.paper
    <3> DEFINE n == Len(positions) + 1
               q == [p EXCEPT !.pc = "cash", !.position = n]
    <3>1. Set(a, q)
      BY <1>5, <2>3 DEF InsertPosition
    <3> HIDE DEF n
    <3>2. Same(p, q) /\ q.pc = "cash"
      BY <1>1 DEF Same, Run
    <3> HIDE DEF q
    <3>3. CASE p.op \in Trades
      BY <1>5, <2>1, <3>1, <3>2, <3>3, GoesOn
    <3>4. CASE p.op \notin Trades
      <4>1. actor'[a].op \notin Trades
        BY <3>1, <3>2, <3>4, SetFacts DEF Same
      <4> QED BY <4>1 DEF Trading
    <3> QED BY <3>3, <3>4
  <2> QED BY <2>2, <2>3
<1>6. CASE isInPaperTradingPeriod(a)
  <2> DEFINE b == today < PaperDays \/ 5 * cash <= 4 * InitialBalance
             q == [p EXCEPT !.pc = "portfolio", !.paper = b]
  <2>1. p.pc = "period" /\ Set(a, q)
    BY <1>6 DEF isInPaperTradingPeriod
  <2> HIDE DEF b
  <2>2. Same(p, q) /\ q.pc = "portfolio"
    BY <1>1 DEF Same, Run
  <2> HIDE DEF q
  <2> QED BY <1>2, <2>1, <2>2, GoesOn DEF Trades, Buys
<1>7. CASE MoveCash(a)
  BY <1>7, DoneWith DEF MoveCash
<1> QED BY <1>3, <1>4, <1>5, <1>6, <1>7

LEMMA FailingTrade ==
  ASSUME TypeInv, NEW a \in Actors, StatementFails(a), actor[a].op \in Trades
  PROVE  Trading(a)
<1> DEFINE p == actor[a]
<1>1. p \in Run /\ Legal(p, kind, DOMAIN positions, DOMAIN signals, Real)
  BY RunFacts
<1>2. /\ p.pc \notin {"close", "credit", "check", "status", "topup"}
      /\ p.pc = "period" => p.op = "backfill"
  <2> HIDE DEF p
  <2> QED BY <1>1, StepOps DEF CloseSteps, Trades, Buys, Closes, p
<1>3. CASE p.pc = "lookup" /\ Set(a, [p EXCEPT !.pc = "insert"]) /\ raced' = raced \cup {p.signal}
  <2> DEFINE q == [p EXCEPT !.pc = "insert"]
  <2>1. Same(p, q) /\ q.pc = "insert" /\ Set(a, q)
    BY <1>1, <1>3 DEF Same, Run
  <2> HIDE DEF q
  <2> QED BY <1>3, <2>1, GoesOn
<1>4. CASE p.pc = "period" /\ Set(a, [p EXCEPT !.pc = "portfolio", !.paper = TRUE])
  <2> DEFINE q == [p EXCEPT !.pc = "portfolio", !.paper = TRUE]
  <2>1. Same(p, q) /\ q.pc = "portfolio" /\ Set(a, q)
    BY <1>1, <1>4 DEF Same, Run
  <2> HIDE DEF q
  <2> QED BY <1>2, <1>4, <2>1, GoesOn
<1>5. CASE p.pc \in {"portfolio", "insert"} /\ Set(a, Continue([p EXCEPT !.seen = @ \ {p.signal}]))
  BY <1>5, GivenUp
<1>6. CASE p.pc = "cash" /\ Set(a, Continue(p))
  BY <1>6, DoneWith
<1> QED BY <1>2, <1>3, <1>4, <1>5, <1>6 DEF StatementFails, Trades, Buys

LEMMA ListSteps ==
  ASSUME TypeInv, NEW a \in Actors,
         \/ StartSettlement(a)
         \/ \E s \in actor[a].todo : NextSignal(a, s)
         \/ SelectSignals(a)
  PROVE  Trading(a)
<1> DEFINE p == actor[a]
<1>1. p \in Run
  BY RunFacts
<1>2. CASE StartSettlement(a)
  <2> DEFINE strong == {s \in Tradable : Strong(s)}
             q == [Idle EXCEPT !.op = "forced", !.pc = "next", !.rows = signals,
                               !.todo = strong, !.seen = strong]
  <2>1. Set(a, q)
    BY <1>2 DEF StartSettlement
  <2> HIDE DEF strong
  <2>2. q.op = "forced" /\ q.pc = "next" /\ q.todo = q.seen
    BY DEF Idle
  <2> HIDE DEF q
  <2> QED BY <2>1, <2>2, SetFacts DEF Trading
<1>3. ASSUME NEW s \in p.todo, NextSignal(a, s) PROVE Trading(a)
  <2> DEFINE pc == IF p.op = "forced" THEN "portfolio" ELSE "period"
             q == [p EXCEPT !.pc = pc, !.signal = s, !.todo = @ \ {s}]
  <2>1. Set(a, q) /\ p.pc = "next" /\ p.op \in Buys
    BY <1>3 DEF NextSignal, Buys
  <2> HIDE DEF pc
  <2>2. /\ q.op = p.op /\ q.seen = p.seen /\ q.signal = s /\ q.todo = p.todo \ {s}
        /\ q.pc = pc
    BY <1>1 DEF Run
  <2> HIDE DEF q
  <2> QED BY <2>1, <2>2, SetFacts DEF Trading, pc
<1>4. CASE SelectSignals(a)
  <2> DEFINE all == IF kind = "analyst" THEN Tradable ELSE {}
             left == {s \in all : PositionsOf(s) = {}}
             q == [p EXCEPT !.op = "backfill", !.pc = "next", !.rows = signals,
                            !.todo = left, !.seen = @ \cup all]
  <2>1. Set(a, q) /\ p.op = "forced" /\ p.pc = "next" /\ p.todo = {}
    BY <1>4 DEF SelectSignals
  <2> HIDE DEF left, all
  <2>2. q.op = "backfill" /\ q.pc = "next" /\ q.seen = p.seen \cup all /\ q.todo = left
    BY <1>1 DEF Run
  <2> HIDE DEF q
  <2>3. actor'[a] = q
    BY <2>1, SetFacts
  <2> QED BY <2>1, <2>2, <2>3 DEF Trading, left
<1> QED BY <1>2, <1>3, <1>4

LEMMA PublishTrading ==
  ASSUME TypeInv, NEW a \in Actors, NEW direction, NEW strength, Publish(a, direction, strength)
  PROVE  Trading(a)
<1> DEFINE p(s) == [Idle EXCEPT !.op = "trader", !.signal = s]
           q(s) == IF strength = "weak" THEN Continue(p(s))
                   ELSE [p(s) EXCEPT !.pc = "portfolio", !.rows = signals']
<1>1. PICK s : Set(a, q(s))
  BY DEF Publish
<1>2. q(s).op \notin Trades \/ (q(s).op = "trader" /\ q(s).pc = "portfolio")
  <2>1. CASE strength = "weak"
    <3>1. q(s) = [Idle EXCEPT !.op = "paper", !.pc = "paper", !.signal = s]
      BY <2>1 DEF Continue, Idle
    <3>2. q(s).op = "paper"
      BY <3>1 DEF Idle
    <3> QED BY <3>2 DEF Trades, Buys
  <2>2. CASE strength # "weak"
    BY <2>2 DEF Idle
  <2> QED BY <2>1, <2>2
<1> HIDE DEF q
<1> QED BY <1>1, <1>2, SetFacts DEF Trading

(* The other statements leave a run that trades no signal. *)
LEMMA ClosingSteps ==
  ASSUME TypeInv, NEW a \in Actors,
         \/ MarkSettled(a) \/ PublishPaper(a) \/ Finish(a) \/ TopUp(a) \/ InsertBailout(a)
         \/ \E expired \in SUBSET OpenPositions : SelectExpired(a, expired)
         \/ DayTick(a) \/ StartReset(a) \/ ReadBalance(a)
         \/ \E price \in Prices : \E i \in actor[a].todo : NextToClose(a, i, price)
         \/ ClosePosition(a) \/ Credit(a) \/ CheckStatus(a) \/ UpdateStatus(a)
         \/ StatementFails(a) /\ actor[a].op \notin Trades
  PROVE  actor'[a].op \notin Trades /\ Others(a)
<1> DEFINE p == actor[a]
           p2 == actor'[a]
<1>1. p \in Run /\ Legal(p, kind, DOMAIN positions, DOMAIN signals, Real)
  BY RunFacts
<1>2. /\ p.pc \in {"ledger", "topup", "paper", "expired"} \cup CloseSteps => p.op \notin Trades
      /\ p.op \in Closes \cup {"strategy"} => p.op \notin Trades
      /\ "resolve" \notin Trades /\ "idle" \notin Trades
      /\ "watch" \notin Trades /\ "reset" \notin Trades /\ "flat" \notin Trades
      /\ "strategy" \notin Trades
  <2> HIDE DEF p
  <2> QED BY <1>1, StepOps DEF Trades, Buys, Closes
<1>3. ASSUME Set(a, Idle) PROVE p2.op \notin Trades /\ Others(a)
  BY <1>2, <1>3, IdleFacts, SetFacts
<1>4. ASSUME NEW q, Set(a, q), q.op \notin Trades PROVE p2.op \notin Trades /\ Others(a)
  BY <1>4, SetFacts
<1>5. ASSUME NEW r \in Run, r.op = p.op, p.op \notin Trades, Set(a, Continue(r))
      PROVE  p2.op \notin Trades /\ Others(a)
  BY <1>5, OnwardFacts, SetFacts DEF Trades
<1>6. CASE MarkSettled(a)
  <2> DEFINE q == [Idle EXCEPT !.op = "resolve", !.pc = "expired"]
  <2>1. Set(a, q) /\ q.op = "resolve"
    BY <1>6 DEF MarkSettled, Idle
  <2> HIDE DEF q
  <2> QED BY <1>2, <1>4, <2>1
<1>7. CASE PublishPaper(a) \/ Finish(a) \/ TopUp(a)
  BY <1>3, <1>7 DEF PublishPaper, Finish, TopUp
<1>8. CASE InsertBailout(a)
  <2> DEFINE q == [p EXCEPT !.pc = "topup"]
  <2>1. q.op = p.op /\ p.pc = "ledger" /\ (Set(a, Idle) \/ Set(a, q))
    BY <1>1, <1>8 DEF InsertBailout, Run
  <2> HIDE DEF q
  <2> QED BY <1>2, <1>3, <1>4, <2>1
<1>9. ASSUME NEW expired, SelectExpired(a, expired) PROVE p2.op \notin Trades /\ Others(a)
  <2> DEFINE q == [p EXCEPT !.pc = "next", !.todo = expired]
  <2>1. q.op = p.op /\ p.pc = "expired" /\ Set(a, q)
    BY <1>1, <1>9 DEF SelectExpired, Run
  <2> HIDE DEF q
  <2> QED BY <1>2, <1>4, <2>1
<1>10. CASE StartWatch(a) \/ StartReset(a)
  <2> DEFINE q(op) == [Idle EXCEPT !.op = op, !.pc = "next", !.todo = OpenPositions]
  <2>1. PICK op \in {"watch", "reset"} : Set(a, q(op))
    BY <1>10 DEF StartWatch, StartReset
  <2>2. q(op).op = op
    BY DEF Idle
  <2> HIDE DEF q
  <2> QED BY <1>2, <1>4, <2>1, <2>2
<1>11. ASSUME NEW op \in {"strategy", "flat"}, StartStrategies(a, op)
       PROVE  p2.op \notin Trades /\ Others(a)
  <2> DEFINE q == [Idle EXCEPT !.op = op, !.pc = "positions", !.balance = cash]
  <2>1. Set(a, q)
    BY <1>11 DEF StartStrategies
  <2>2. q.op = op
    BY DEF Idle
  <2> HIDE DEF q
  <2> QED BY <1>2, <1>4, <2>1, <2>2
<1>12. ASSUME NEW direction, NEW price, Decide(a, direction, price)
       PROVE  p2.op \notin Trades /\ Others(a)
  <2> DEFINE quantity == calculatePositionSize(p.balance, price, TradePercent)
             open == [p EXCEPT !.pc = "insert", !.direction = direction, !.balance = 0,
                               !.quantity = quantity, !.price = price]
             close(i) == [p EXCEPT !.pc = "close", !.position = i, !.price = price,
                                   !.balance = 0]
  <2>1. Set(a, Idle) \/ Set(a, open) \/ \E i : Set(a, close(i))
    BY <1>12 DEF Decide
  <2>2. p.op = "strategy"
    BY <1>12 DEF Decide
  <2> HIDE DEF quantity
  <2>3. open.op = p.op /\ \A i : close(i).op = p.op
    BY <1>1 DEF Run
  <2> HIDE DEF open, close
  <2> QED BY <1>2, <1>3, <1>4, <2>1, <2>2, <2>3
<1>13. CASE SelectFlat(a)
  <2> DEFINE q == [p EXCEPT !.pc = "next", !.todo = OpenPositions, !.seen = OpenPositions,
                            !.balance = 0]
  <2>1. q.op = p.op /\ p.op = "flat" /\ Set(a, q)
    BY <1>1, <1>13 DEF SelectFlat, Run
  <2> HIDE DEF q
  <2> QED BY <1>2, <1>4, <2>1
<1>14. CASE ReadBalance(a)
  <2> DEFINE q == [p EXCEPT !.pc = "ledger", !.balance = cash]
  <2>1. q.op = p.op /\ p.op = "reset" /\ Set(a, q)
    BY <1>1, <1>14 DEF ReadBalance, Run
  <2> HIDE DEF q
  <2> QED BY <1>2, <1>4, <2>1
<1>15. ASSUME NEW i \in p.todo, NEW price, NextToClose(a, i, price)
       PROVE  p2.op \notin Trades /\ Others(a)
  <2> DEFINE rest == p.todo \ {i}
             closed == [p EXCEPT !.pc = "close", !.position = i, !.price = price, !.todo = rest]
             less == [p EXCEPT !.todo = rest]
             none == [p EXCEPT !.todo = rest, !.seen = @ \ {i}]
  <2>1. p.op \in Closes /\ (Set(a, closed) \/ Set(a, less) \/ Set(a, none))
    BY <1>15 DEF NextToClose, Closes
  <2> HIDE DEF rest
  <2>2. closed.op = p.op /\ less.op = p.op /\ none.op = p.op
    BY <1>1 DEF Run
  <2> HIDE DEF closed, less, none
  <2> QED BY <1>2, <1>4, <2>1, <2>2
<1>16. CASE ClosePosition(a)
  <2> DEFINE q == [p EXCEPT !.pc = "credit"]
  <2>1. q.op = p.op /\ p.pc = "close" /\ (Set(a, Continue(p)) \/ Set(a, q))
    BY <1>1, <1>16 DEF ClosePosition, Run
  <2> HIDE DEF q
  <2> QED BY <1>1, <1>2, <1>4, <1>5, <2>1 DEF CloseSteps
<1>17. CASE Credit(a)
  <2>1. Booked(p).op = p.op /\ p.pc = "credit" /\ Set(a, Booked(p))
    BY <1>1, <1>17 DEF Credit, Booked, Run
  <2> QED BY <1>2, <1>4, <2>1 DEF CloseSteps
<1>18. CASE CheckStatus(a) \/ UpdateStatus(a)
  <2> DEFINE grade == determinePortfolioStatus(cash)
             q == [p EXCEPT !.pc = "status", !.grade = grade]
  <2>1. p.pc \in CloseSteps /\ (Set(a, Continue(p)) \/ Set(a, q))
    BY <1>18 DEF CheckStatus, UpdateStatus, CloseSteps
  <2> HIDE DEF grade
  <2>2. q.op = p.op
    BY <1>1 DEF Run
  <2> HIDE DEF q
  <2> QED BY <1>1, <1>2, <1>4, <1>5, <2>1, <2>2
<1>19. CASE StatementFails(a) /\ p.op \notin Trades
  <2> DEFINE r(s) == [p EXCEPT !.seen = @ \ {s}]
             insert == [p EXCEPT !.pc = "insert"]
             period == [p EXCEPT !.pc = "portfolio", !.paper = TRUE]
             taken(i) == [p EXCEPT !.todo = @ \ {i}, !.seen = @ \ {i}]
             credit == [r(p.position) EXCEPT !.pc = "credit"]
  <2>1. \/ Set(a, insert) \/ Set(a, period) \/ Set(a, Booked(p)) \/ Set(a, Idle)
        \/ Set(a, Continue(p)) \/ \E i : Set(a, taken(i)) \/ Set(a, credit)
        \/ \E s : Set(a, Continue(r(s)))
    BY <1>19 DEF StatementFails
  <2>2. /\ insert.op = p.op /\ period.op = p.op /\ Booked(p).op = p.op
        /\ \A i : taken(i).op = p.op
    BY <1>1 DEF Run, Booked
  <2>3. \A s : r(s).op = p.op /\ r(s) \in Run
    BY <1>1 DEF Run
  <2>4. credit.op = p.op
    <3> HIDE DEF r
    <3> QED BY <2>3 DEF Run
  <2> HIDE DEF insert, period, taken, credit, r
  <2>5. p.op \notin Trades
    BY <1>19
  <2> QED BY <1>1, <1>3, <1>4, <1>5, <2>1, <2>2, <2>3, <2>4, <2>5
<1> QED BY <1>6, <1>7, <1>8, <1>9, <1>10, <1>11, <1>12, <1>13, <1>14, <1>15, <1>16, <1>17,
          <1>18, <1>19 DEF DayTick

(* The positions of a signal stay those of the signal. *)
LEMMA SignalsKept ==
  ASSUME DOMAIN positions' = DOMAIN positions,
         \A i \in DOMAIN positions : positions'[i].signal = positions[i].signal
  PROVE  \A s : PositionsOf(s)' = PositionsOf(s)
BY DEF PositionsOf

LEMMA SignalsWritten ==
  ASSUME TypeInv, NEW a \in Actors, InsertPosition(a)
  PROVE  LET n == Len(positions) + 1
         IN \A s : PositionsOf(s)' = PositionsOf(s) \cup (IF s = actor[a].signal THEN {n} ELSE {})
<1> DEFINE n == Len(positions) + 1
           row == Opening(actor[a])
<1>1. Written(positions, positions', n, row) /\ n \notin DOMAIN positions
  BY InsertFacts
<1>2. row.signal = actor[a].signal
  BY OpeningFacts DEF InsertPosition
<1> HIDE DEF n, row
<1>3. ASSUME NEW s
      PROVE  PositionsOf(s)' = PositionsOf(s) \cup (IF s = actor[a].signal THEN {n} ELSE {})
  BY <1>1, <1>2 DEF Written, PositionsOf
<1> QED BY <1>3 DEF n

LEMMA NoSignalMoves ==
  ASSUME TypeInv, NEW a \in Actors, UNCHANGED positions \/ ClosePosition(a)
  PROVE  \A s : PositionsOf(s)' = PositionsOf(s)
<1>1. CASE UNCHANGED positions
  BY <1>1 DEF PositionsOf
<1>2. CASE ClosePosition(a)
  <2> DEFINE i == actor[a].position
             row == Closed(actor[a])
  <2>1. /\ Written(positions, positions', i, row) /\ DOMAIN positions' = DOMAIN positions
        /\ row.signal = positions[i].signal
    BY <1>2, CloseFacts, ClosedFacts DEF ClosePosition
  <2> HIDE DEF i, row
  <2>2. \A j \in DOMAIN positions : positions'[j].signal = positions[j].signal
    BY <2>1 DEF Written
  <2> QED BY <2>1, <2>2, SignalsKept
<1> QED BY <1>1, <1>2

(* What a step does to the positions of the signals: none, or one more. *)
PositionsMove(a) ==
  \/ \A s : PositionsOf(s)' = PositionsOf(s)
  \/ InsertPosition(a)

(* Every step, as far as the trading of signals goes. *)
LEMMA TradingSteps ==
  ASSUME TypeInv, [Next]_vars
  PROVE  \/ /\ \/ \A a \in Actors : actor'[a] = actor[a]
               \/ \A a \in Actors : actor'[a] = Idle
            /\ UNCHANGED <<raced, due>> /\ \A s : PositionsOf(s)' = PositionsOf(s)
         \/ \E a \in Actors :
              /\ Trading(a) /\ Others(a) /\ PositionsMove(a)
              /\ raced \subseteq raced'
              /\ UNCHANGED due \/ MarkSettled(a)
<1> DEFINE Goal == \E a \in Actors :
              /\ Trading(a) /\ Others(a) /\ PositionsMove(a)
              /\ raced \subseteq raced'
              /\ UNCHANGED due \/ MarkSettled(a)
<1>0. actor \in [Actors -> Run]
  BY DEF TypeInv
<1>1. ASSUME NEW a \in Actors, Trading(a), \E q : Set(a, q), UNCHANGED <<positions, due>>,
             raced \subseteq raced'
      PROVE  Goal
  BY <1>1, SetFacts, NoSignalMoves DEF PositionsMove
<1>2. ASSUME NEW a \in Actors, actor'[a].op \notin Trades /\ Others(a),
             UNCHANGED positions \/ ClosePosition(a), UNCHANGED raced,
             UNCHANGED due \/ MarkSettled(a)
      PROVE  Goal
  <2>1. Trading(a)
    BY <1>2 DEF Trading
  <2> QED BY <1>2, <2>1, NoSignalMoves DEF PositionsMove
<1> HIDE DEF Goal
<1>3. ASSUME NEW a \in Actors, NEW verdict \in Verdicts, Publish(a, verdict[1], verdict[2])
      PROVE  Goal
  <2>1. Trading(a)
    BY <1>3, PublishTrading
  <2> QED BY <1>1, <1>3, <2>1 DEF Publish, books, history
<1>4. ASSUME NEW a \in Actors,
             \/ StartSettlement(a)
             \/ \E s \in actor[a].todo : NextSignal(a, s)
             \/ SelectSignals(a)
      PROVE  Goal
  <2>1. Trading(a)
    BY <1>4, ListSteps
  <2>2. \E q : Set(a, q)
    BY <1>4 DEF StartSettlement, NextSignal, SelectSignals
  <2>3. UNCHANGED <<positions, due, raced>>
    BY <1>4 DEF StartSettlement, NextSignal, SelectSignals, books, history
  <2> QED BY <1>1, <2>1, <2>2, <2>3
<1>5. ASSUME NEW a \in Actors,
             \/ \E price \in Prices : SizePosition(a, price)
             \/ FindPosition(a) \/ isInPaperTradingPeriod(a) \/ MoveCash(a)
      PROVE  Goal
  <2>1. Trading(a)
    BY <1>5, OpeningSteps
  <2>2. \E q : Set(a, q)
    BY <1>5 DEF SizePosition, FindPosition, isInPaperTradingPeriod, MoveCash
  <2>3. UNCHANGED <<positions, due, raced>>
    BY <1>5 DEF SizePosition, FindPosition, isInPaperTradingPeriod, MoveCash, books, history
  <2> QED BY <1>1, <2>1, <2>2, <2>3
<1>6. ASSUME NEW a \in Actors, InsertPosition(a) PROVE Goal
  <2>1. Trading(a)
    BY <1>6, OpeningSteps
  <2>2. Others(a)
    BY <1>6, SetFacts DEF InsertPosition
  <2> QED BY <1>6, <2>1, <2>2 DEF InsertPosition, PositionsMove, Goal
<1>7. ASSUME NEW a \in Actors, StatementFails(a), actor[a].op \in Trades PROVE Goal
  <2>1. Trading(a)
    BY <1>7, FailingTrade
  <2>2. \E q : Set(a, q)
    BY <1>7 DEF StatementFails
  <2>3. UNCHANGED <<positions, due>> /\ raced \subseteq raced'
    BY <1>7 DEF StatementFails, books
  <2> QED BY <1>1, <2>1, <2>2, <2>3
<1>8. ASSUME NEW a \in Actors, StatementFails(a), actor[a].op \notin Trades PROVE Goal
  <2>1. actor'[a].op \notin Trades /\ Others(a)
    BY <1>8, ClosingSteps
  <2>2. UNCHANGED <<positions, due>> /\ raced \subseteq raced'
    BY <1>8 DEF StatementFails, books
  <2>3. Trading(a)
    BY <2>1 DEF Trading
  <2> QED BY <2>1, <2>2, <2>3, NoSignalMoves DEF PositionsMove, Goal
<1>9. ASSUME NEW a \in Actors,
             \/ MarkSettled(a) \/ PublishPaper(a) \/ Finish(a) \/ TopUp(a) \/ InsertBailout(a)
             \/ \E expired \in SUBSET OpenPositions : SelectExpired(a, expired)
             \/ StartReset(a) \/ ReadBalance(a)
      PROVE  Goal
  <2>1. actor'[a].op \notin Trades /\ Others(a)
    BY <1>9, ClosingSteps
  <2>2. UNCHANGED positions /\ UNCHANGED raced
    BY <1>9 DEF MarkSettled, PublishPaper, Finish, TopUp, InsertBailout, SelectExpired,
                StartReset, ReadBalance, books, history
  <2>3. UNCHANGED due \/ MarkSettled(a)
    BY <1>9 DEF MarkSettled, PublishPaper, Finish, TopUp, InsertBailout, SelectExpired,
                StartReset, ReadBalance, books, history
  <2> QED BY <1>2, <2>1, <2>2, <2>3
<1>d. ASSUME NEW a \in Actors, DayTick(a) PROVE Goal
  <2>1. actor'[a].op \notin Trades /\ Others(a)
    BY <1>d, ClosingSteps
  <2>2. UNCHANGED positions /\ UNCHANGED raced /\ UNCHANGED due
    BY <1>d DEF DayTick, StartWatch, StartStrategies, Decide, SelectFlat, books, history
  <2> QED BY <1>2, <2>1, <2>2
<1>c. ASSUME NEW a \in Actors,
             \/ \E price \in Prices : \E i \in actor[a].todo : NextToClose(a, i, price)
             \/ ClosePosition(a) \/ Credit(a) \/ CheckStatus(a) \/ UpdateStatus(a)
      PROVE  Goal
  <2>1. actor'[a].op \notin Trades /\ Others(a)
    BY <1>c, ClosingSteps
  <2>2. /\ UNCHANGED positions \/ ClosePosition(a)
        /\ UNCHANGED raced /\ UNCHANGED due
    BY <1>c DEF NextToClose, ClosePosition, Credit, CheckStatus, UpdateStatus, books, history
  <2> QED BY <1>2, <2>1, <2>2
<1>10. CASE Next
  <2>1. ASSUME NEW a \in Actors,
               \/ StartWatch(a) \/ SelectFlat(a)
               \/ \E op \in {"strategy", "flat"} : StartStrategies(a, op)
               \/ \E direction \in Directions, price \in Prices : Decide(a, direction, price)
        PROVE  Goal
    BY <1>d, <2>1 DEF DayTick
  <2>2. CASE Crash
    <3>1. /\ \A a \in Actors : actor'[a] = Idle
          /\ UNCHANGED <<raced, due, positions>>
      BY <2>2 DEF Crash, books
    <3> QED BY <3>1 DEF PositionsOf
  <2>3. CASE NewDay
    <3>1. UNCHANGED <<actor, raced, due, positions>>
      BY <2>3 DEF NewDay, books, history
    <3> QED BY <3>1 DEF PositionsOf
  <2> QED BY <1>3, <1>4, <1>5, <1>6, <1>7, <1>8, <1>9, <1>c, <1>10, <2>1, <2>2, <2>3, Cases
     DEF Goal
<1>11. CASE UNCHANGED vars
  <2>1. UNCHANGED <<actor, raced, due, positions>>
    BY <1>11 DEF vars, books, history
  <2> QED BY <2>1 DEF PositionsOf
<1> QED BY <1>10, <1>11

-----------------------------------------------------------------------------
(* One position per signal *)

(* A run that will insert a position on the signal without looking again. *)
Opens(p, s) ==
  \/ p.signal = s /\ p.pc = "insert"
  \/ /\ p.op = "backfill"
     /\ s \in p.todo \/ (p.signal = s /\ p.pc \in {"period", "portfolio"})

(* The backfill takes a signal off its list before it trades it. *)
OffTheList(p) == p.op = "backfill" /\ p.pc # "next" => p.signal \notin p.todo

SingleInv ==
  /\ \A a \in Actors : OffTheList(actor[a])
  /\ \A s \in (Nat \ {0}) \ raced :
       /\ Cardinality(PositionsOf(s)) <= 1
       /\ \A b \in Actors : Opens(actor[b], s) => PositionsOf(s) = {}

LEMMA NoOpening ==
  ASSUME NEW k, NEW ids, NEW numbers, NEW real, NEW p, Legal(p, k, ids, numbers, real),
         p.op \notin Trades
  PROVE  OffTheList(p) /\ \A s \in Nat \ {0} : ~Opens(p, s)
<1>1. p.pc = "insert" => p.op = "strategy"
  BY StepOps DEF Trades
<1>2. p.op = "strategy" => p.signal = 0
  BY DEF Legal, SignalLegal
<1>3. p.op # "backfill"
  BY DEF Trades, Buys
<1> QED BY <1>1, <1>2, <1>3 DEF Opens, OffTheList

LEMMA OpensLess ==
  ASSUME TypeInv, TypeInv', SingleInv, NEW a \in Actors, Trading(a), raced \subseteq raced'
  PROVE  /\ OffTheList(actor'[a])
         /\ \A s \in Nat \ {0} : Opens(actor'[a], s) =>
              \/ Opens(actor[a], s) \/ PositionsOf(s) = {} \/ s \in raced'
         /\ InsertPosition(a) => \A s \in Nat \ {0} : Opens(actor'[a], s) => s # actor[a].signal
<1> DEFINE p == actor[a]
           q == actor'[a]
           Goal == /\ OffTheList(q)
                   /\ \A s \in Nat \ {0} : Opens(q, s) =>
                        \/ Opens(p, s) \/ PositionsOf(s) = {} \/ s \in raced'
                   /\ InsertPosition(a) => \A s \in Nat \ {0} : Opens(q, s) => s # p.signal
<1>1. OffTheList(p)
  BY DEF SingleInv
<1>i. InsertPosition(a) => p.pc = "insert"
  BY DEF InsertPosition
<1>2. CASE q.op \notin Trades
  <2>1. OffTheList(q) /\ \A s \in Nat \ {0} : ~Opens(q, s)
    <3>1. Legal(q, kind', DOMAIN positions', DOMAIN signals', Real')
      BY DEF TypeInv, RunsLegal
    <3> HIDE DEF q
    <3> QED BY <1>2, <3>1, NoOpening
  <2> QED BY <2>1
<1>3. ASSUME q.op \in {"trader", "forced"}, q.pc # "insert" PROVE Goal
  BY <1>3 DEF Opens, OffTheList
<1>4. CASE q.op = "trader" /\ q.pc = "portfolio"
  BY <1>3, <1>4
<1>5. CASE q.op = "forced" /\ q.pc = "next" /\ q.todo = q.seen
  BY <1>3, <1>5
<1>6. CASE /\ p.op \in Buys /\ p.pc = "next" /\ q.op = p.op /\ q.seen = p.seen
           /\ q.signal \in p.todo /\ q.todo = p.todo \ {q.signal}
           /\ q.pc = IF p.op = "forced" THEN "portfolio" ELSE "period"
  BY <1>i, <1>6 DEF Opens, OffTheList, Buys
<1>7. CASE /\ p.op = "forced" /\ p.pc = "next" /\ p.todo = {}
           /\ q.op = "backfill" /\ q.pc = "next"
           /\ \E all : /\ q.seen = p.seen \cup all
                       /\ q.todo = {s \in all : PositionsOf(s) = {}}
  BY <1>i, <1>7 DEF Opens, OffTheList
<1>8. CASE Same(p, q) /\ p.op = "backfill" /\ p.pc = "period" /\ q.pc = "portfolio"
  BY <1>1, <1>i, <1>8 DEF Opens, OffTheList, Same
<1>9. CASE /\ Same(p, q) /\ p.pc = "portfolio" /\ p.op \in Trades
           /\ q.pc = IF p.op = "backfill" THEN "insert" ELSE "lookup"
  BY <1>1, <1>i, <1>9 DEF Opens, OffTheList, Same, Trades, Buys
<1>10. CASE /\ Same(p, q) /\ p.pc = "lookup" /\ q.pc = "insert"
            /\ PositionsOf(p.signal) = {} \/ p.signal \in raced'
  BY <1>1, <1>i, <1>10 DEF Opens, OffTheList, Same
<1>11. CASE Same(p, q) /\ p.pc = "insert" /\ q.pc = "cash"
  BY <1>1, <1>11 DEF Opens, OffTheList, Same
<1>12. CASE Onward(p, q)
  BY <1>1, <1>i, <1>12 DEF Opens, OffTheList, Onward
<1>13. Goal
  BY <1>2, <1>4, <1>5, <1>6, <1>7, <1>8, <1>9, <1>10, <1>11, <1>12 DEF Trading
<1> QED BY <1>13

LEMMA SingleTrade ==
  ASSUME TypeInv, TypeInv', SingleInv, NEW a \in Actors, Trading(a), Others(a),
         PositionsMove(a), raced \subseteq raced'
  PROVE  SingleInv'
<1> DEFINE p == actor[a]
           q == actor'[a]
<1>1. /\ OffTheList(q)
      /\ \A s \in Nat \ {0} : Opens(q, s) =>
           \/ Opens(p, s) \/ PositionsOf(s) = {} \/ s \in raced'
      /\ InsertPosition(a) => \A s \in Nat \ {0} : Opens(q, s) => s # p.signal
  BY OpensLess
<1>2. \A b \in Actors : OffTheList(actor'[b])
  BY <1>1 DEF SingleInv, Others
<1>3. ASSUME NEW s \in (Nat \ {0}) \ raced'
      PROVE  /\ Cardinality(PositionsOf(s)') <= 1
             /\ \A b \in Actors : Opens(actor'[b], s) => PositionsOf(s)' = {}
  <2>1. /\ Cardinality(PositionsOf(s)) <= 1
        /\ \A b \in Actors : Opens(actor[b], s) => PositionsOf(s) = {}
    BY <1>3 DEF SingleInv
  <2>2. \A b \in Actors : Opens(actor'[b], s) => PositionsOf(s) = {}
    <3> SUFFICES ASSUME NEW b \in Actors, Opens(actor'[b], s) PROVE PositionsOf(s) = {}
      OBVIOUS
    <3>1. CASE b = a
      BY <1>1, <1>3, <2>1, <3>1
    <3>2. CASE b # a
      BY <2>1, <3>2 DEF Others
    <3> QED BY <3>1, <3>2
  <2>3. CASE PositionsOf(s)' = PositionsOf(s)
    BY <2>1, <2>2, <2>3
  <2>4. CASE InsertPosition(a) /\ s # p.signal
    <3>1. PositionsOf(s)' = PositionsOf(s)
      BY <2>4, SignalsWritten
    <3> QED BY <2>3, <3>1
  <2>5. CASE InsertPosition(a) /\ s = p.signal
    <3> DEFINE n == Len(positions) + 1
    <3>1. PositionsOf(s)' = PositionsOf(s) \cup {n}
      BY <2>5, SignalsWritten
    <3> HIDE DEF n
    <3>2. Opens(p, s)
      BY <2>5 DEF Opens, InsertPosition
    <3>3. PositionsOf(s) = {}
      BY <2>1, <3>2
    <3>4. PositionsOf(s)' = {n}
      BY <3>1, <3>3
    <3>5. Cardinality(PositionsOf(s)') <= 1
      BY <3>4, FS_Singleton
    <3>6. \A b \in Actors \ {a} : ~AboutToOpen(b, s)
      BY <1>3, <2>5 DEF InsertPosition
    <3>7. \A b \in Actors \ {a} : ~Opens(actor'[b], s)
      BY <3>6 DEF AboutToOpen, Opens, Others
    <3>8. ~Opens(q, s)
      BY <1>1, <2>5
    <3> QED BY <3>5, <3>7, <3>8
  <2> QED BY <2>3, <2>4, <2>5 DEF PositionsMove
<1> QED BY <1>2, <1>3 DEF SingleInv

LEMMA SingleStep ==
  ASSUME TypeInv, TypeInv', SingleInv, [Next]_vars
  PROVE  SingleInv'
<1>1. CASE /\ \/ \A a \in Actors : actor'[a] = actor[a]
              \/ \A a \in Actors : actor'[a] = Idle
           /\ UNCHANGED <<raced, due>> /\ \A s : PositionsOf(s)' = PositionsOf(s)
  <2>1. \A a \in Actors : actor'[a] \in {actor[a], Idle}
    BY <1>1
  <2>2. \A a \in Actors : OffTheList(actor'[a])
    BY <2>1, IdleFacts DEF SingleInv, OffTheList
  <2>3. ~\E s \in Nat \ {0} : Opens(Idle, s)
    BY IdleFacts DEF Opens
  <2>4. ASSUME NEW s \in (Nat \ {0}) \ raced
        PROVE  /\ Cardinality(PositionsOf(s)) <= 1
               /\ \A b \in Actors : Opens(actor'[b], s) => PositionsOf(s) = {}
    BY <2>1, <2>3, <2>4 DEF SingleInv
  <2> QED BY <1>1, <2>2, <2>4 DEF SingleInv
<1> QED BY <1>1, TradingSteps, SingleTrade

LEMMA NoPositions ==
  ASSUME Init
  PROVE  /\ \A s : PositionsOf(s) = {}
         /\ OpenPositions = {} /\ Real = {}
         /\ actor = [a \in Actors |-> Idle]
<1>1. DOMAIN positions = {}
  BY DEF Init
<1> QED BY <1>1 DEF Init, PositionsOf, OpenPositions, Real

(* A signal is traded once however the pipeline and the settlements overlap:
   by each of the paths that open positions for the signals, the last look
   at the table is followed by its own insert or by a race that is known.   *)
THEOREM TradedOnce == Spec => []OnePositionPerSignal
<1>1. Init => TypeInv /\ SingleInv
  <2> SUFFICES ASSUME Init PROVE SingleInv
    BY InitTypes
  <2>1. \A a \in Actors : actor[a] = Idle
    BY NoPositions
  <2>2. OffTheList(Idle)
    BY IdleFacts DEF OffTheList
  <2>3. ASSUME NEW s
        PROVE  Cardinality(PositionsOf(s)) <= 1 /\ PositionsOf(s) = {}
    <3>1. PositionsOf(s) = {}
      BY NoPositions
    <3> QED BY <3>1, FS_EmptySet
  <2> QED BY <2>1, <2>2, <2>3 DEF SingleInv
<1>2. TypeInv /\ SingleInv /\ [Next]_vars => (TypeInv /\ SingleInv)'
  <2> SUFFICES ASSUME TypeInv, SingleInv, [Next]_vars PROVE TypeInv' /\ SingleInv'
    OBVIOUS
  <2>1. TypeInv'
    BY TypeStep
  <2> QED BY <2>1, SingleStep
<1>3. TypeInv /\ SingleInv => OnePositionPerSignal
  <2> SUFFICES ASSUME TypeInv, SingleInv PROVE OnePositionPerSignal
    OBVIOUS
  <2>1. \A s \in DOMAIN signals : s \in Nat \ {0}
    BY DomainFacts DEF TypeInv, TypeOK
  <2> QED BY <2>1 DEF SingleInv, OnePositionPerSignal
<1> QED BY <1>1, <1>2, <1>3, PTL DEF Spec

-----------------------------------------------------------------------------
(* What a settlement has dealt with is traded *)

(* The signal a run is at. *)
InHand(p) == IF p.pc \in {"period", "portfolio", "lookup", "insert"} THEN {p.signal} ELSE {}

TradedInv ==
  /\ SettledSignalsAreTraded
  /\ \A a \in Actors : actor[a].op \in Buys =>
       \A s \in actor[a].seen :
         PositionsOf(s) # {} \/ s \in actor[a].todo \cup InHand(actor[a])

LEMMA TradedTrade ==
  ASSUME TypeInv, TradedInv, NEW a \in Actors, Trading(a), Others(a), PositionsMove(a),
         UNCHANGED due \/ MarkSettled(a)
  PROVE  TradedInv'
<1> DEFINE p == actor[a]
           q == actor'[a]
           Treated(r, s) == PositionsOf(s)' # {} \/ s \in r.todo \cup InHand(r)
           Goal == q.op \in Buys => \A s \in q.seen : Treated(q, s)
<1>1. /\ \A s : PositionsOf(s) \subseteq PositionsOf(s)'
      /\ InsertPosition(a) => \A s : s = p.signal => PositionsOf(s)' # {}
  <2>1. CASE \A s : PositionsOf(s)' = PositionsOf(s) /\ ~InsertPosition(a)
    BY <2>1
  <2>2. CASE InsertPosition(a)
    <3> DEFINE n == Len(positions) + 1
    <3>1. \A s : PositionsOf(s)' = PositionsOf(s) \cup (IF s = p.signal THEN {n} ELSE {})
      BY <2>2, SignalsWritten
    <3> HIDE DEF n, p
    <3> QED BY <3>1
  <2>3. CASE \A s : PositionsOf(s)' = PositionsOf(s)
    BY <2>1, <2>2, <2>3
  <2> QED BY <2>2, <2>3 DEF PositionsMove
<1>2. p.op \in Buys => \A s \in p.seen : PositionsOf(s) # {} \/ s \in p.todo \cup InHand(p)
  BY DEF TradedInv
<1>3. \A s \in due' : PositionsOf(s)' # {}
  <2>1. CASE UNCHANGED due
    BY <1>1, <2>1 DEF TradedInv, SettledSignalsAreTraded
  <2>2. CASE MarkSettled(a)
    <3>1. /\ p.op \in Buys /\ p.todo = {} /\ InHand(p) = {}
          /\ due' = due \cup p.seen
      BY <2>2 DEF MarkSettled, InHand, Buys
    <3>2. \A s \in p.seen : PositionsOf(s) # {}
      BY <1>2, <3>1
    <3> QED BY <1>1, <3>1, <3>2 DEF TradedInv, SettledSignalsAreTraded
  <2> QED BY <2>1, <2>2
<1>4. ASSUME NEW b \in Actors \ {a}, actor'[b].op \in Buys
      PROVE  \A s \in actor'[b].seen : Treated(actor'[b], s)
  BY <1>1, <1>4 DEF TradedInv, Others
<1>p. InsertPosition(a) => p.pc = "insert"
  BY DEF InsertPosition
<1>5. Goal
  <2>1. CASE q.op \notin Trades
    BY <2>1 DEF Trades
  <2>2. CASE q.op = "trader" /\ q.pc = "portfolio"
    BY <2>2 DEF Buys
  <2>3. CASE q.op = "forced" /\ q.pc = "next" /\ q.todo = q.seen
    BY <2>3
  <2>4. CASE /\ p.op \in Buys /\ p.pc = "next" /\ q.op = p.op /\ q.seen = p.seen
             /\ q.signal \in p.todo /\ q.todo = p.todo \ {q.signal}
             /\ q.pc = IF p.op = "forced" THEN "portfolio" ELSE "period"
    <3>1. InHand(p) = {} /\ InHand(q) = {q.signal}
      BY <2>4 DEF InHand
    <3> QED BY <1>1, <1>2, <2>4, <3>1
  <2>5. CASE /\ p.op = "forced" /\ p.pc = "next" /\ p.todo = {}
             /\ q.op = "backfill" /\ q.pc = "next"
             /\ \E all : /\ q.seen = p.seen \cup all
                         /\ q.todo = {s \in all : PositionsOf(s) = {}}
    <3>1. InHand(p) = {} /\ p.op \in Buys
      BY <2>5 DEF InHand, Buys
    <3> QED BY <1>1, <1>2, <2>5, <3>1
  <2>6. CASE /\ Same(p, q) /\ p.pc \in {"period", "portfolio", "lookup"}
             /\ q.pc \in {"portfolio", "insert", "lookup"}
    <3>1. InHand(p) = InHand(q)
      BY <2>6 DEF InHand, Same
    <3> QED BY <1>1, <1>2, <2>6, <3>1 DEF Same
  <2>7. CASE Same(p, q) /\ p.pc = "insert" /\ q.pc = "cash" /\ InsertPosition(a)
    <3>1. InHand(p) = {p.signal}
      BY <2>7 DEF InHand
    <3> QED BY <1>1, <1>2, <2>7, <3>1 DEF Same
  <2>8. CASE Onward(p, q) /\ q.seen = p.seen \ {p.signal}
    <3>1. InHand(p) \subseteq {p.signal}
      BY DEF InHand
    <3> QED BY <1>1, <1>2, <2>8, <3>1 DEF Onward
  <2>9. CASE /\ Onward(p, q) /\ q.seen = p.seen
             /\ \/ p.pc = "cash"
                \/ p.pc = "lookup" /\ PositionsOf(p.signal) # {}
                \/ p.pc = "insert" /\ InsertPosition(a)
    <3>1. \A s \in InHand(p) : PositionsOf(s)' # {}
      <4>1. CASE p.pc = "cash"
        BY <4>1 DEF InHand
      <4>2. CASE p.pc = "lookup" /\ PositionsOf(p.signal) # {}
        <5>1. \A s : s = p.signal => PositionsOf(s) # {}
          BY <4>2
        <5>2. InHand(p) = {p.signal}
          BY <4>2 DEF InHand
        <5> QED BY <1>1, <5>1, <5>2
      <4>3. CASE p.pc = "insert" /\ InsertPosition(a)
        <5>1. InHand(p) = {p.signal}
          BY <4>3 DEF InHand
        <5> QED BY <1>1, <4>3, <5>1
      <4> QED BY <2>9, <4>1, <4>2, <4>3
    <3> QED BY <1>1, <1>2, <2>9, <3>1 DEF Onward
  <2> QED BY <2>1, <2>2, <2>3, <2>4, <2>5, <2>6, <2>7, <2>8, <2>9 DEF Trading
<1>6. \A b \in Actors : actor'[b].op \in Buys => \A s \in actor'[b].seen : Treated(actor'[b], s)
  BY <1>4, <1>5
<1> QED BY <1>3, <1>6 DEF TradedInv, SettledSignalsAreTraded

LEMMA TradedStep ==
  ASSUME TypeInv, TradedInv, [Next]_vars
  PROVE  TradedInv'
<1>1. CASE /\ \/ \A a \in Actors : actor'[a] = actor[a]
              \/ \A a \in Actors : actor'[a] = Idle
           /\ UNCHANGED <<raced, due>> /\ \A s : PositionsOf(s)' = PositionsOf(s)
  <2>1. Idle.op \notin Buys
    BY IdleFacts DEF Buys
  <2>2. \A a \in Actors : actor'[a].op \in Buys => actor'[a] = actor[a]
    BY <1>1, <2>1
  <2> QED BY <1>1, <2>2 DEF TradedInv, SettledSignalsAreTraded
<1> QED BY <1>1, TradingSteps, TradedTrade

(* A settlement that has run through leaves none of the signals it selected
   without a position, whichever of the trader, the forced buy and the
   backfill of any settlement opened it; only a size of zero and a failed
   statement take a signal off that promise.                               *)
THEOREM SettlementsTrade == Spec => []SettledSignalsAreTraded
<1>1. Init => TypeInv /\ TradedInv
  <2> SUFFICES ASSUME Init PROVE TradedInv
    BY InitTypes
  <2>1. \A a \in Actors : actor[a] = Idle
    BY NoPositions
  <2>2. due = {}
    BY DEF Init
  <2> QED BY <2>1, <2>2, IdleFacts DEF TradedInv, SettledSignalsAreTraded, Buys
<1>2. TypeInv /\ TradedInv /\ [Next]_vars => (TypeInv /\ TradedInv)'
  <2> SUFFICES ASSUME TypeInv, TradedInv, [Next]_vars PROVE TypeInv' /\ TradedInv'
    OBVIOUS
  <2> QED BY TypeStep, TradedStep
<1>3. TradedInv => SettledSignalsAreTraded
  BY DEF TradedInv
<1> QED BY <1>1, <1>2, <1>3, PTL DEF Spec

-----------------------------------------------------------------------------
(* What a run that moves money does next *)

Money == {"cash", "credit", "topup", "check", "status"}

(* What the closing of the session has found is closed, still to be closed,
   or given up, from one statement to the next.                            *)
Flattens(a, q) ==
  LET p == actor[a]
  IN q.op = "flat" =>
       \/ q.pc = "positions"
       \/ q.pc = "next" /\ q.todo = q.seen
       \/ /\ p.op = "flat" /\ p.pc # "positions" /\ q.pc # "positions"
          /\ \A i \in q.seen :
               /\ i \in p.seen
               /\ i \in p.todo =>
                    \/ i \in q.todo \/ i \notin OpenPositions
                    \/ q.pc = "close" /\ q.position = i
               /\ p.pc = "close" /\ i = p.position => ClosePosition(a)

(* No money is moved, none is to be moved by the run. *)
Calm(a) ==
  /\ actor[a].pc \notin Money /\ actor'[a].pc \notin Money
  /\ Others(a) /\ Flattens(a, actor'[a])

LEMMA CalmTo ==
  ASSUME TypeInv, NEW a \in Actors, NEW q, Set(a, q), actor[a].pc \notin Money,
         q.pc \notin Money, Flattens(a, q)
  PROVE  Calm(a)
BY SetFacts DEF Calm

LEMMA CalmToIdle ==
  ASSUME TypeInv, NEW a \in Actors, Set(a, Idle), actor[a].pc \notin Money
  PROVE  Calm(a)
<1>1. Idle.pc \notin Money /\ Flattens(a, Idle)
  BY IdleFacts DEF Money, Flattens
<1> QED BY <1>1, CalmTo

LEMMA CalmOnward ==
  ASSUME TypeInv, NEW a \in Actors, NEW r \in Run, r.op # "flat"
  PROVE  Continue(r).pc \notin Money /\ Flattens(a, Continue(r))
<1> DEFINE q == Continue(r)
<1>1. CASE r.op = "strategy"
  BY <1>1, IdleFacts, ContinueFacts DEF Money, Flattens
<1>2. CASE r.op = "trader"
  BY <1>2, ContinueFacts DEF Money, Flattens
<1>3. CASE r.op \notin {"strategy", "trader"}
  <2>1. q.op = r.op /\ q.pc = "next"
    BY <1>3, ContinueFacts
  <2> QED BY <1>3, <2>1 DEF Money, Flattens
<1> QED BY <1>1, <1>2, <1>3

LEMMA CalmLists ==
  ASSUME TypeInv, NEW a \in Actors,
         \/ StartSettlement(a)
         \/ \E s \in actor[a].todo : NextSignal(a, s)
         \/ SelectSignals(a)
         \/ MarkSettled(a)
         \/ \E expired \in SUBSET OpenPositions : SelectExpired(a, expired)
         \/ StartWatch(a)
         \/ \E op \in {"strategy", "flat"} : StartStrategies(a, op)
         \/ SelectFlat(a)
         \/ StartReset(a)
         \/ ReadBalance(a)
  PROVE  Calm(a)
<1> DEFINE p == actor[a]
<1>1. p \in Run /\ Legal(p, kind, DOMAIN positions, DOMAIN signals, Real)
  BY RunFacts
<1>s. Start(a) => p.pc \notin Money
  BY IdleFacts DEF Start, Money
<1>2. CASE StartSettlement(a)
  <2> DEFINE strong == {s \in Tradable : Strong(s)}
             q == [Idle EXCEPT !.op = "forced", !.pc = "next", !.rows = signals,
                               !.todo = strong, !.seen = strong]
  <2>1. Set(a, q) /\ p.pc \notin Money
    BY <1>2, <1>s DEF StartSettlement
  <2> HIDE DEF strong
  <2>2. q.op = "forced" /\ q.pc = "next"
    BY DEF Idle
  <2> HIDE DEF q
  <2>3. q.pc \notin Money /\ Flattens(a, q)
    BY <2>2 DEF Money, Flattens
  <2> QED BY <2>1, <2>3, CalmTo
<1>3. ASSUME NEW s \in p.todo, NextSignal(a, s) PROVE Calm(a)
  <2> DEFINE pc == IF p.op = "forced" THEN "portfolio" ELSE "period"
             q == [p EXCEPT !.pc = pc, !.signal = s, !.todo = @ \ {s}]
  <2>1. Set(a, q) /\ p.pc = "next" /\ p.op \in Buys /\ pc \in {"portfolio", "period"}
    BY <1>3 DEF NextSignal, Buys
  <2> HIDE DEF pc
  <2>2. q.op = p.op /\ q.pc = pc
    BY <1>1 DEF Run
  <2> HIDE DEF q
  <2>3. p.pc \notin Money /\ q.pc \notin Money /\ Flattens(a, q)
    BY <2>1, <2>2 DEF Money, Flattens, Buys
  <2> QED BY <2>1, <2>3, CalmTo
<1>4. CASE SelectSignals(a)
  <2> DEFINE all == IF kind = "analyst" THEN Tradable ELSE {}
             left == {s \in all : PositionsOf(s) = {}}
             q == [p EXCEPT !.op = "backfill", !.pc = "next", !.rows = signals,
                            !.todo = left, !.seen = @ \cup all]
  <2>1. Set(a, q) /\ p.pc = "next"
    BY <1>4 DEF SelectSignals
  <2> HIDE DEF left, all
  <2>2. q.op = "backfill" /\ q.pc = "next"
    BY <1>1 DEF Run
  <2> HIDE DEF q
  <2>3. p.pc \notin Money /\ q.pc \notin Money /\ Flattens(a, q)
    BY <2>1, <2>2 DEF Money, Flattens
  <2> QED BY <2>1, <2>3, CalmTo
<1>5. CASE MarkSettled(a)
  <2> DEFINE q == [Idle EXCEPT !.op = "resolve", !.pc = "expired"]
  <2>1. Set(a, q) /\ p.pc = "next" /\ q.op = "resolve" /\ q.pc = "expired"
    BY <1>5 DEF MarkSettled, Idle
  <2> HIDE DEF q
  <2>2. p.pc \notin Money /\ q.pc \notin Money /\ Flattens(a, q)
    BY <2>1 DEF Money, Flattens
  <2> QED BY <2>1, <2>2, CalmTo
<1>6. ASSUME NEW expired, SelectExpired(a, expired) PROVE Calm(a)
  <2> DEFINE q == [p EXCEPT !.pc = "next", !.todo = expired]
  <2>1. Set(a, q) /\ p.pc = "expired" /\ q.op = p.op /\ q.pc = "next"
    BY <1>1, <1>6 DEF SelectExpired, Run
  <2>2. p.op = "resolve"
    <3> HIDE DEF p
    <3> QED BY <1>1, <2>1, StepOps
  <2> HIDE DEF q
  <2>3. p.pc \notin Money /\ q.pc \notin Money /\ Flattens(a, q)
    BY <2>1, <2>2 DEF Money, Flattens
  <2> QED BY <2>1, <2>3, CalmTo
<1>7. CASE StartWatch(a) \/ StartReset(a)
  <2> DEFINE q(op) == [Idle EXCEPT !.op = op, !.pc = "next", !.todo = OpenPositions]
  <2>1. PICK op \in {"watch", "reset"} : Set(a, q(op))
    BY <1>7 DEF StartWatch, StartReset
  <2>2. q(op).op = op /\ q(op).pc = "next"
    BY DEF Idle
  <2> HIDE DEF q
  <2>3. p.pc \notin Money
    BY <1>7, <1>s DEF StartWatch, StartReset
  <2>4. q(op).pc \notin Money /\ Flattens(a, q(op))
    BY <2>1, <2>2 DEF Money, Flattens
  <2> QED BY <2>1, <2>3, <2>4, CalmTo
<1>8. ASSUME NEW op \in {"strategy", "flat"}, StartStrategies(a, op) PROVE Calm(a)
  <2> DEFINE q == [Idle EXCEPT !.op = op, !.pc = "positions", !.balance = cash]
  <2>1. Set(a, q) /\ p.pc \notin Money
    BY <1>8, <1>s DEF StartStrategies
  <2>2. q.pc = "positions"
    BY DEF Idle
  <2> HIDE DEF q
  <2>3. q.pc \notin Money /\ Flattens(a, q)
    BY <2>2 DEF Money, Flattens
  <2> QED BY <2>1, <2>3, CalmTo
<1>9. CASE SelectFlat(a)
  <2> DEFINE q == [p EXCEPT !.pc = "next", !.todo = OpenPositions, !.seen = OpenPositions,
                            !.balance = 0]
  <2>1. Set(a, q) /\ p.pc = "positions"
    BY <1>9 DEF SelectFlat
  <2>2. q.pc = "next" /\ q.todo = q.seen
    BY <1>1 DEF Run
  <2> HIDE DEF q
  <2>3. p.pc \notin Money /\ q.pc \notin Money /\ Flattens(a, q)
    BY <2>1, <2>2 DEF Money, Flattens
  <2> QED BY <2>1, <2>3, CalmTo
<1>10. CASE ReadBalance(a)
  <2> DEFINE q == [p EXCEPT !.pc = "ledger", !.balance = cash]
  <2>1. Set(a, q) /\ p.pc = "next" /\ q.op = p.op /\ q.pc = "ledger" /\ p.op = "reset"
    BY <1>1, <1>10 DEF ReadBalance, Run
  <2> HIDE DEF q
  <2>3. p.pc \notin Money /\ q.pc \notin Money /\ Flattens(a, q)
    BY <2>1 DEF Money, Flattens
  <2> QED BY <2>1, <2>3, CalmTo
<1> QED BY <1>2, <1>3, <1>4, <1>5, <1>6, <1>7, <1>8, <1>9, <1>10

(* A closing run takes a position off its list, or gives it up. *)
LEMMA CalmTaken ==
  ASSUME TypeInv, NEW a \in Actors, NEW i \in actor[a].todo, actor[a].pc = "next",
         NEW q, Set(a, q), q.op = actor[a].op,
         q.todo = actor[a].todo \ {i}, q.seen \subseteq actor[a].seen,
         \/ q.pc = "close" /\ q.position = i
         \/ q.pc = "next" /\ (i \notin OpenPositions \/ i \notin q.seen)
  PROVE  Calm(a)
<1>1. actor[a].pc \notin Money /\ q.pc \notin Money /\ Flattens(a, q)
  BY DEF Money, Flattens
<1> QED BY <1>1, CalmTo

LEMMA CalmNext ==
  ASSUME TypeInv, NEW a \in Actors,
         \/ \E price \in Prices : \E i \in actor[a].todo : NextToClose(a, i, price)
         \/ /\ actor[a].pc = "next"
            /\ \E i \in actor[a].todo :
                 Set(a, [actor[a] EXCEPT !.todo = @ \ {i}, !.seen = @ \ {i}])
  PROVE  Calm(a)
<1> DEFINE p == actor[a]
           rest(i) == p.todo \ {i}
           closed(i, price) == [p EXCEPT !.pc = "close", !.position = i, !.price = price,
                                         !.todo = rest(i)]
           less(i) == [p EXCEPT !.todo = rest(i)]
           none(i) == [p EXCEPT !.todo = rest(i), !.seen = @ \ {i}]
<1>1. p \in Run
  BY RunFacts
<1>2. PICK i \in p.todo :
        /\ p.pc = "next"
        /\ \/ \E price : Set(a, closed(i, price))
           \/ i \notin OpenPositions /\ Set(a, less(i))
           \/ Set(a, none(i))
  BY DEF NextToClose
<1> HIDE DEF rest
<1>3. /\ \A price : /\ closed(i, price).op = p.op /\ closed(i, price).todo = rest(i)
                     /\ closed(i, price).seen = p.seen /\ closed(i, price).pc = "close"
                     /\ closed(i, price).position = i
      /\ less(i).op = p.op /\ less(i).todo = rest(i) /\ less(i).seen = p.seen
      /\ less(i).pc = p.pc
      /\ none(i).op = p.op /\ none(i).todo = rest(i) /\ none(i).seen = p.seen \ {i}
      /\ none(i).pc = p.pc
  BY <1>1 DEF Run
<1> HIDE DEF closed, less, none
<1>4. ASSUME NEW price, Set(a, closed(i, price)) PROVE Calm(a)
  BY <1>2, <1>3, <1>4, CalmTaken DEF rest
<1>5. CASE i \notin OpenPositions /\ Set(a, less(i))
  BY <1>2, <1>3, <1>5, CalmTaken DEF rest
<1>6. CASE Set(a, none(i))
  <2>1. i \notin none(i).seen /\ none(i).seen \subseteq p.seen
    BY <1>3
  <2> QED BY <1>2, <1>3, <1>6, <2>1, CalmTaken DEF rest
<1> QED BY <1>2, <1>4, <1>5, <1>6

LEMMA CalmPublish ==
  ASSUME TypeInv, NEW a \in Actors, NEW direction, NEW strength, Publish(a, direction, strength)
  PROVE  Calm(a)
<1> DEFINE p(s) == [Idle EXCEPT !.op = "trader", !.signal = s]
           q(s) == IF strength = "weak" THEN Continue(p(s))
                   ELSE [p(s) EXCEPT !.pc = "portfolio", !.rows = signals']
<1>1. PICK s : Set(a, q(s))
  BY DEF Publish
<1>2. actor[a].pc \notin Money
  BY IdleFacts DEF Publish, Start, Money
<1>3. q(s).pc \in {"paper", "portfolio"} /\ q(s).op \in {"paper", "trader"}
  <2>1. CASE strength = "weak"
    <3>1. q(s) = [Idle EXCEPT !.op = "paper", !.pc = "paper", !.signal = s]
      BY <2>1 DEF Continue, Idle
    <3>2. q(s).op = "paper" /\ q(s).pc = "paper"
      BY <3>1 DEF Idle
    <3> QED BY <3>2
  <2>2. CASE strength # "weak"
    BY <2>2 DEF Idle
  <2> QED BY <2>1, <2>2
<1> HIDE DEF q
<1>4. q(s).pc \notin Money /\ Flattens(a, q(s))
  BY <1>3 DEF Money, Flattens
<1> QED BY <1>1, <1>2, <1>4, CalmTo

LEMMA CalmGivenUp ==
  ASSUME TypeInv, NEW a \in Actors, actor[a].op # "flat", actor[a].pc \notin Money, NEW s,
         Set(a, Continue([actor[a] EXCEPT !.seen = @ \ {s}]))
  PROVE  Calm(a)
<1> DEFINE r == Unseen(actor[a], s)
<1>1. actor[a] \in Run
  BY RunFacts
<1>2. r \in Run /\ r.op = actor[a].op /\ Set(a, Continue(r))
  BY <1>1 DEF Unseen, Run
<1> HIDE DEF r
<1>3. Continue(r).pc \notin Money /\ Flattens(a, Continue(r))
  BY <1>2, CalmOnward
<1> QED BY <1>2, <1>3, CalmTo

LEMMA CalmSame ==
  ASSUME TypeInv, NEW a \in Actors, actor[a].op # "flat", actor[a].pc \notin Money,
         NEW q, Set(a, q), q.op = actor[a].op, q.pc \notin Money
  PROVE  Calm(a)
<1>1. Flattens(a, q)
  BY DEF Flattens
<1> QED BY <1>1, CalmTo

LEMMA CalmOpening ==
  ASSUME TypeInv, NEW a \in Actors,
         \/ PublishPaper(a) \/ Finish(a) \/ isInPaperTradingPeriod(a) \/ FindPosition(a)
         \/ \E price \in Prices : SizePosition(a, price)
         \/ \E direction \in Directions, price \in Prices : Decide(a, direction, price)
         \/ /\ StatementFails(a)
            /\ actor[a].pc \in {"lookup", "period", "portfolio", "insert"}
  PROVE  Calm(a)
<1> DEFINE p == actor[a]
<1>1. p \in Run /\ Legal(p, kind, DOMAIN positions, DOMAIN signals, Real)
  BY RunFacts
<1>2. p.pc \in {"lookup", "period", "portfolio", "insert"} => p.op # "flat"
  <2> HIDE DEF p
  <2>1. /\ p.pc = "portfolio" => p.op \in {"trader"} \cup Buys
        /\ p.pc = "lookup" => p.op \in {"trader", "forced"}
        /\ p.pc = "insert" => p.op \in {"trader", "strategy"} \cup Buys
        /\ p.pc = "period" => p.op = "backfill"
    BY <1>1, StepOps
  <2> QED BY <2>1 DEF Buys
<1>3. p.pc \in {"lookup", "period", "portfolio", "insert"} => p.pc \notin Money
  BY DEF Money
<1>4. CASE PublishPaper(a) \/ Finish(a)
  <2>1. Set(a, Idle) /\ p.pc \in {"paper", "next"}
    BY <1>4 DEF PublishPaper, Finish
  <2>2. p.pc \notin Money
    BY <2>1 DEF Money
  <2> QED BY <2>1, <2>2, CalmToIdle
<1>5. ASSUME NEW b, p.pc = "period", Set(a, [p EXCEPT !.pc = "portfolio", !.paper = b])
      PROVE  Calm(a)
  <2> DEFINE q == [p EXCEPT !.pc = "portfolio", !.paper = b]
  <2>1. q.op = p.op /\ q.pc = "portfolio" /\ Set(a, q)
    BY <1>1, <1>5 DEF Run
  <2> HIDE DEF q
  <2>2. q.pc \notin Money
    BY <2>1 DEF Money
  <2> QED BY <1>2, <1>3, <1>5, <2>1, <2>2, CalmSame
<1>6. ASSUME p.pc = "lookup", Set(a, [p EXCEPT !.pc = "insert"]) PROVE Calm(a)
  <2> DEFINE q == [p EXCEPT !.pc = "insert"]
  <2>1. q.op = p.op /\ q.pc = "insert" /\ Set(a, q)
    BY <1>1, <1>6 DEF Run
  <2> HIDE DEF q
  <2>2. q.pc \notin Money
    BY <2>1 DEF Money
  <2> QED BY <1>2, <1>3, <1>6, <2>1, <2>2, CalmSame
<1>7. CASE isInPaperTradingPeriod(a)
  <2> DEFINE b == today < PaperDays \/ 5 * cash <= 4 * InitialBalance
  <2>1. p.pc = "period" /\ Set(a, [p EXCEPT !.pc = "portfolio", !.paper = b])
    BY <1>7 DEF isInPaperTradingPeriod
  <2> HIDE DEF b
  <2> QED BY <1>5, <2>1
<1>8. CASE FindPosition(a)
  <2>1. p.pc = "lookup" /\ (Set(a, [p EXCEPT !.pc = "insert"]) \/ Set(a, Continue(p)))
    BY <1>8 DEF FindPosition
  <2>2. CASE Set(a, Continue(p))
    <3>1. Continue(p).pc \notin Money /\ Flattens(a, Continue(p))
      BY <1>1, <1>2, <2>1, CalmOnward
    <3> QED BY <1>3, <2>1, <2>2, <3>1, CalmTo
  <2> QED BY <1>6, <2>1, <2>2
<1>9. ASSUME NEW price \in Prices, SizePosition(a, price) PROVE Calm(a)
  <2> DEFINE s == p.rows[p.signal]
             quantity == calculatePositionSize(cash, price, Percent[s.strength])
             pc == IF p.op = "backfill" THEN "insert" ELSE "lookup"
             d == IF s.direction = "down" THEN "short" ELSE "long"
             r == IF p.todo = {} THEN <<>> ELSE p.rows
             b == p.paper \/ (p.op = "backfill" /\ status = "suspended")
             q == [p EXCEPT !.pc = pc, !.direction = d, !.quantity = quantity,
                            !.price = price, !.rows = r, !.paper = b]
  <2>1. p.pc = "portfolio" /\ pc \notin Money
    BY <1>9 DEF SizePosition, Money
  <2>2. \/ Set(a, Continue([p EXCEPT !.seen = @ \ {p.signal}]))
        \/ Set(a, q)
    BY <1>9 DEF SizePosition
  <2>3. CASE Set(a, q)
    <3> HIDE DEF s, quantity, pc, d, r, b
    <3>1. q.op = p.op /\ q.pc = pc
      BY <1>1 DEF Run
    <3> HIDE DEF q
    <3> QED BY <1>2, <1>3, <2>1, <2>3, <3>1, CalmSame
  <2> QED BY <1>2, <1>3, <2>1, <2>2, <2>3, CalmGivenUp
<1>10. ASSUME NEW direction, NEW price, Decide(a, direction, price) PROVE Calm(a)
  <2> DEFINE quantity == calculatePositionSize(p.balance, price, TradePercent)
             open == [p EXCEPT !.pc = "insert", !.direction = direction, !.balance = 0,
                               !.quantity = quantity, !.price = price]
             close(i) == [p EXCEPT !.pc = "close", !.position = i, !.price = price,
                                   !.balance = 0]
  <2>1. Set(a, Idle) \/ Set(a, open) \/ \E i : Set(a, close(i))
    BY <1>10 DEF Decide
  <2>2. p.op = "strategy" /\ p.pc \notin Money
    BY <1>10 DEF Decide, Money
  <2> HIDE DEF quantity
  <2>3. /\ open.op = p.op /\ open.pc = "insert"
        /\ \A i : close(i).op = p.op /\ close(i).pc = "close"
    BY <1>1 DEF Run
  <2> HIDE DEF open, close
  <2>4. open.pc \notin Money /\ \A i : close(i).pc \notin Money
    BY <2>3 DEF Money
  <2>5. CASE Set(a, open)
    BY <2>2, <2>3, <2>4, <2>5, CalmSame
  <2>6. ASSUME NEW i, Set(a, close(i)) PROVE Calm(a)
    BY <2>2, <2>3, <2>4, <2>6, CalmSame
  <2> QED BY <2>1, <2>2, <2>5, <2>6, CalmToIdle
<1>11. CASE StatementFails(a) /\ p.pc \in {"lookup", "period", "portfolio", "insert"}
  <2>1. \/ p.pc = "lookup" /\ Set(a, [p EXCEPT !.pc = "insert"])
        \/ p.pc = "period" /\ Set(a, [p EXCEPT !.pc = "portfolio", !.paper = TRUE])
        \/ Set(a, Continue([p EXCEPT !.seen = @ \ {p.signal}]))
    BY <1>11 DEF StatementFails
  <2> QED BY <1>2, <1>3, <1>5, <1>6, <1>11, <2>1, CalmGivenUp
<1> QED BY <1>4, <1>7, <1>8, <1>9, <1>10, <1>11

(* A statement that moves money, or is about to, and what follows it. *)
Turns(a) == Others(a) /\ Flattens(a, actor'[a])

LEMMA TurnsOnward ==
  ASSUME TypeInv, NEW a \in Actors, NEW r \in Run, Set(a, Continue(r)),
         r.op = actor[a].op, r.todo = actor[a].todo, r.seen \subseteq actor[a].seen,
         actor[a].pc # "positions",
         actor[a].pc = "close" /\ actor[a].position \in r.seen => ClosePosition(a)
  PROVE  Turns(a) /\ actor'[a].pc \notin Money
<1> DEFINE q == Continue(r)
<1>1. CASE r.op # "flat"
  BY <1>1, CalmOnward, SetFacts DEF Turns
<1>2. CASE r.op = "flat"
  <2>1. /\ q.op = r.op /\ q.pc = "next" /\ q.todo = r.todo /\ q.seen = r.seen
    BY <1>2, ContinueFacts
  <2> HIDE DEF q
  <2>2. Flattens(a, q) /\ q.pc \notin Money
    BY <1>2, <2>1 DEF Flattens, Money
  <2> QED BY <2>2, SetFacts DEF Turns, q
<1> QED BY <1>1, <1>2

LEMMA TurnsSame ==
  ASSUME TypeInv, NEW a \in Actors, NEW q, Set(a, q),
         q.op = actor[a].op, q.todo = actor[a].todo, q.seen \subseteq actor[a].seen,
         actor[a].pc # "positions", q.pc # "positions",
         actor[a].pc = "close" /\ actor[a].position \in q.seen => ClosePosition(a)
  PROVE  Turns(a) /\ actor'[a] = q
<1>1. Flattens(a, q)
  BY DEF Flattens
<1> QED BY <1>1, SetFacts DEF Turns

LEMMA InsertShape ==
  ASSUME TypeInv, NEW a \in Actors, InsertPosition(a)
  PROVE  /\ Turns(a) /\ actor[a].pc = "insert"
         /\ actor[a].paper => actor'[a].pc \notin Money
         /\ ~actor[a].paper => /\ actor'[a].pc = "cash"
                               /\ actor'[a].position = Len(positions) + 1
<1> DEFINE p == actor[a]
           n == Len(positions) + 1
           q == [p EXCEPT !.pc = "cash", !.position = n]
<1>1. p \in Run /\ p.pc = "insert"
  BY RunFacts DEF InsertPosition
<1>2. CASE p.paper
  <2>1. Set(a, Continue(p))
    BY <1>2 DEF InsertPosition
  <2> QED BY <1>1, <1>2, <2>1, TurnsOnward
<1>3. CASE ~p.paper
  <2>1. Set(a, q)
    BY <1>3 DEF InsertPosition
  <2> HIDE DEF n
  <2>2. /\ q.op = p.op /\ q.todo = p.todo /\ q.seen = p.seen /\ q.pc = "cash"
        /\ q.position = n
    BY <1>1 DEF Run
  <2> HIDE DEF q
  <2> QED BY <1>1, <1>3, <2>1, <2>2, TurnsSame DEF n
<1> QED BY <1>2, <1>3

LEMMA CloseShape ==
  ASSUME TypeInv, NEW a \in Actors,
         ClosePosition(a) \/ (StatementFails(a) /\ actor[a].pc = "close")
  PROVE  /\ Turns(a) /\ actor[a].pc = "close"
         /\ positions[actor[a].position].paper => actor'[a].pc \notin Money
         /\ ~positions[actor[a].position].paper =>
              /\ actor'[a].pc = "credit" /\ actor'[a].position = actor[a].position
              /\ actor'[a].price = actor[a].price
<1> DEFINE p == actor[a]
           i == p.position
<1>1. p \in Run /\ p.pc = "close"
  BY RunFacts DEF ClosePosition
<1>2. PICK r \in Run :
        /\ r.op = p.op /\ r.todo = p.todo /\ r.seen \subseteq p.seen /\ r.position = i
        /\ r.price = p.price /\ (ClosePosition(a) \/ i \notin r.seen)
        /\ Set(a, IF positions[i].paper THEN Continue(r) ELSE [r EXCEPT !.pc = "credit"])
  <2>1. CASE ClosePosition(a)
    BY <1>1, <2>1 DEF ClosePosition
  <2>2. CASE StatementFails(a)
    <3> DEFINE r == Unseen(p, i)
    <3>1. /\ r \in Run /\ r.op = p.op /\ r.todo = p.todo /\ r.seen \subseteq p.seen
          /\ r.position = i /\ r.price = p.price /\ i \notin r.seen
      BY <1>1 DEF Run, Unseen
    <3>2. Set(a, IF positions[i].paper THEN Continue(r) ELSE [r EXCEPT !.pc = "credit"])
      BY <1>1, <2>2 DEF StatementFails, Unseen
    <3> HIDE DEF r
    <3> QED BY <3>1, <3>2
  <2> QED BY <2>1, <2>2
<1>3. CASE positions[i].paper
  <2>1. Set(a, Continue(r))
    BY <1>2, <1>3
  <2> QED BY <1>1, <1>2, <1>3, <2>1, TurnsOnward
<1>4. CASE ~positions[i].paper
  <2> DEFINE q == [r EXCEPT !.pc = "credit"]
  <2>1. Set(a, q)
    BY <1>2, <1>4
  <2>2. /\ q.op = r.op /\ q.todo = r.todo /\ q.seen = r.seen /\ q.pc = "credit"
        /\ q.position = r.position /\ q.price = r.price
    BY DEF Run
  <2> HIDE DEF q
  <2> QED BY <1>1, <1>2, <1>4, <2>1, <2>2, TurnsSame
<1> QED BY <1>3, <1>4

LEMMA CreditShape ==
  ASSUME TypeInv, NEW a \in Actors, actor[a].pc = "credit", Credit(a) \/ StatementFails(a)
  PROVE  Turns(a) /\ actor'[a].pc = "check"
<1> DEFINE p == actor[a]
           q == Booked(p)
<1>1. p \in Run
  BY RunFacts
<1>2. Set(a, q)
  BY DEF Credit, StatementFails
<1>3. q.op = p.op /\ q.todo = p.todo /\ q.seen = p.seen /\ q.pc = "check"
  BY <1>1 DEF Run, Booked
<1> HIDE DEF q
<1> QED BY <1>1, <1>2, <1>3, TurnsSame

LEMMA CheckShape ==
  ASSUME TypeInv, NEW a \in Actors, CheckStatus(a)
  PROVE  LET grade == determinePortfolioStatus(cash)
         IN /\ Turns(a) /\ actor[a].pc = "check"
            /\ grade = status => actor'[a].pc \notin Money
            /\ grade # status => actor'[a].pc = "status" /\ actor'[a].grade = grade
<1> DEFINE p == actor[a]
           grade == determinePortfolioStatus(cash)
           q == [p EXCEPT !.pc = "status", !.grade = grade]
<1>1. p \in Run /\ p.pc = "check"
  BY RunFacts DEF CheckStatus
<1>2. Set(a, IF grade = status THEN Continue(p) ELSE q)
  BY DEF CheckStatus
<1> HIDE DEF grade
<1>3. ASSUME grade = status PROVE Turns(a) /\ actor'[a].pc \notin Money
  <2>1. Set(a, Continue(p))
    BY <1>2, <1>3
  <2> QED BY <1>1, <1>3, <2>1, TurnsOnward
<1>4. ASSUME grade # status
      PROVE  Turns(a) /\ actor'[a].pc = "status" /\ actor'[a].grade = grade
  <2>1. Set(a, q)
    BY <1>2, <1>4
  <2>2. q.op = p.op /\ q.todo = p.todo /\ q.seen = p.seen /\ q.pc = "status" /\ q.grade = grade
    BY <1>1 DEF Run
  <2> HIDE DEF q
  <2> QED BY <1>1, <1>4, <2>1, <2>2, TurnsSame
<1> QED BY <1>1, <1>3, <1>4 DEF grade

LEMMA IdleShape ==
  ASSUME TypeInv, NEW a \in Actors, Set(a, Idle)
  PROVE  Turns(a) /\ actor'[a].pc \notin Money
BY SetFacts, IdleFacts DEF Turns, Flattens, Money

LEMMA OnwardShape ==
  ASSUME TypeInv, NEW a \in Actors,
         \/ MoveCash(a)
         \/ UpdateStatus(a)
         \/ TopUp(a)
         \/ StatementFails(a) /\ actor[a].pc \in {"cash", "topup", "check", "status"}
  PROVE  Turns(a) /\ actor'[a].pc \notin Money
<1> DEFINE p == actor[a]
<1>1. p \in Run
  BY RunFacts
<1>2. Set(a, Idle) \/ (Set(a, Continue(p)) /\ p.pc \in {"cash", "check", "status"})
  BY DEF MoveCash, UpdateStatus, TopUp, StatementFails
<1> QED BY <1>1, <1>2, IdleShape, TurnsOnward

LEMMA BailoutShape ==
  ASSUME TypeInv, NEW a \in Actors, InsertBailout(a)
  PROVE  /\ Turns(a) /\ actor[a].pc = "ledger"
         /\ today \in DOMAIN ledger => actor'[a].pc \notin Money
         /\ today \notin DOMAIN ledger => /\ actor'[a].pc = "topup"
                                         /\ actor'[a].balance = actor[a].balance
<1> DEFINE p == actor[a]
           q == [p EXCEPT !.pc = "topup"]
<1>1. p \in Run /\ p.pc = "ledger"
  BY RunFacts DEF InsertBailout
<1>2. CASE today \in DOMAIN ledger
  BY <1>1, <1>2, IdleShape DEF InsertBailout
<1>3. CASE today \notin DOMAIN ledger
  <2>1. Set(a, q)
    BY <1>3 DEF InsertBailout
  <2>2. /\ q.op = p.op /\ q.todo = p.todo /\ q.seen = p.seen /\ q.pc = "topup"
        /\ q.balance = p.balance
    BY <1>1 DEF Run
  <2> HIDE DEF q
  <2> QED BY <1>1, <1>3, <2>1, <2>2, TurnsSame
<1> QED BY <1>2, <1>3

(* Every step is one of these, with the run that takes it. *)
Steady == UNCHANGED <<status, cash, realized, positions, ledger, drift, judged>>

Moving(a) ==
  \/ InsertPosition(a) \/ MoveCash(a) \/ ClosePosition(a) \/ Credit(a) \/ CheckStatus(a)
  \/ UpdateStatus(a) \/ InsertBailout(a) \/ TopUp(a)
  \/ StatementFails(a) /\ actor[a].pc \in Money \cup {"close"}

LEMMA MoneySteps ==
  ASSUME TypeInv, [Next]_vars
  PROVE  \/ \E a \in Actors : Calm(a) /\ Steady /\ (UNCHANGED flat \/ Finish(a))
         \/ \E a \in Actors : Moving(a)
         \/ Crash
         \/ UNCHANGED actor /\ Steady /\ UNCHANGED flat
<1> DEFINE Goal == \/ \E a \in Actors : Calm(a) /\ Steady /\ (UNCHANGED flat \/ Finish(a))
                   \/ \E a \in Actors : Moving(a)
                   \/ Crash
                   \/ UNCHANGED actor /\ Steady /\ UNCHANGED flat
           Lists(a) ==
             \/ StartSettlement(a)
             \/ \E s \in actor[a].todo : NextSignal(a, s)
             \/ SelectSignals(a)
             \/ MarkSettled(a)
             \/ \E expired \in SUBSET OpenPositions : SelectExpired(a, expired)
             \/ StartWatch(a)
             \/ \E op \in {"strategy", "flat"} : StartStrategies(a, op)
             \/ SelectFlat(a)
             \/ StartReset(a)
             \/ ReadBalance(a)
           Looks(a) ==
             \/ PublishPaper(a) \/ isInPaperTradingPeriod(a) \/ FindPosition(a)
             \/ \E price \in Prices : SizePosition(a, price)
             \/ \E direction \in Directions, price \in Prices : Decide(a, direction, price)
           Writes(a) ==
             \/ InsertPosition(a) \/ MoveCash(a) \/ ClosePosition(a) \/ Credit(a)
             \/ CheckStatus(a) \/ UpdateStatus(a) \/ InsertBailout(a) \/ TopUp(a)
<1>1. ASSUME NEW a \in Actors, Calm(a), Steady, UNCHANGED flat \/ Finish(a) PROVE Goal
  BY <1>1
<1>2. ASSUME NEW a \in Actors, Moving(a) PROVE Goal
  BY <1>2
<1>3. Crash => Goal
  OBVIOUS
<1>4. UNCHANGED actor /\ Steady /\ UNCHANGED flat => Goal
  OBVIOUS
<1> HIDE DEF Goal
<1>5. ASSUME NEW a \in Actors, NEW verdict \in Verdicts, Publish(a, verdict[1], verdict[2])
      PROVE  Goal
  <2>1. Calm(a)
    BY <1>5, CalmPublish
  <2>2. Steady /\ UNCHANGED flat
    BY <1>5 DEF Publish, books, history, Steady
  <2> QED BY <1>1, <2>1, <2>2
<1>6. ASSUME NEW a \in Actors, Lists(a)
      PROVE  Goal
  <2>1. Calm(a)
    BY <1>6, CalmLists
  <2>2. Steady /\ UNCHANGED flat
    BY <1>6 DEF StartSettlement, NextSignal, SelectSignals, MarkSettled, SelectExpired,
                StartWatch, StartStrategies, SelectFlat, StartReset, ReadBalance,
                books, history, Steady
  <2> QED BY <1>1, <2>1, <2>2
<1>7. ASSUME NEW a \in Actors, Looks(a)
      PROVE  Goal
  <2>1. Calm(a)
    BY <1>7, CalmOpening
  <2>2. Steady /\ UNCHANGED flat
    BY <1>7 DEF PublishPaper, isInPaperTradingPeriod, FindPosition, SizePosition, Decide,
                books, history, Steady
  <2> QED BY <1>1, <2>1, <2>2
<1>8. ASSUME NEW a \in Actors, Finish(a) PROVE Goal
  <2>1. Calm(a)
    BY <1>8, CalmOpening
  <2>2. Steady
    BY <1>8 DEF Finish, books, Steady
  <2> QED BY <1>1, <1>8, <2>1, <2>2
<1>9. ASSUME NEW a \in Actors,
             \E price \in Prices : \E i \in actor[a].todo : NextToClose(a, i, price)
      PROVE  Goal
  <2>1. Calm(a)
    BY <1>9, CalmNext
  <2>2. Steady /\ UNCHANGED flat
    BY <1>9 DEF NextToClose, books, history, Steady
  <2> QED BY <1>1, <2>1, <2>2
<1>10. ASSUME NEW a \in Actors, StatementFails(a) PROVE Goal
  <2>1. \/ actor[a].pc \in {"lookup", "period", "portfolio", "insert"}
        \/ /\ actor[a].pc = "next"
           /\ \E i \in actor[a].todo :
                Set(a, [actor[a] EXCEPT !.todo = @ \ {i}, !.seen = @ \ {i}])
        \/ actor[a].pc \in Money \cup {"close"}
    BY <1>10 DEF StatementFails, Money
  <2>2. actor[a].pc \in {"lookup", "period", "portfolio", "insert", "next"} =>
          Steady /\ UNCHANGED flat
    BY <1>10 DEF StatementFails, books, Steady
  <2>3. CASE actor[a].pc \in {"lookup", "period", "portfolio", "insert"}
    BY <1>1, <1>10, <2>2, <2>3, CalmOpening
  <2>4. CASE /\ actor[a].pc = "next"
             /\ \E i \in actor[a].todo :
                  Set(a, [actor[a] EXCEPT !.todo = @ \ {i}, !.seen = @ \ {i}])
    BY <1>1, <2>2, <2>4, CalmNext
  <2>5. CASE actor[a].pc \in Money \cup {"close"}
    BY <1>2, <1>10, <2>5 DEF Moving
  <2> QED BY <2>1, <2>3, <2>4, <2>5
<1>11. ASSUME NEW a \in Actors, Writes(a)
       PROVE  Goal
  BY <1>2, <1>11 DEF Moving
<1>12. NewDay \/ UNCHANGED vars => UNCHANGED actor /\ Steady /\ UNCHANGED flat
  BY DEF NewDay, vars, books, history, Steady
<1>13. ASSUME Next PROVE Goal
  <2>1. \/ \E a \in Actors, verdict \in Verdicts : Publish(a, verdict[1], verdict[2])
        \/ \E a \in Actors : Lists(a) \/ Looks(a) \/ Writes(a)
        \/ \E a \in Actors : Finish(a) \/ StatementFails(a)
        \/ \E a \in Actors :
              \E price \in Prices : \E i \in actor[a].todo : NextToClose(a, i, price)
        \/ Crash
        \/ NewDay
    BY <1>13, Cases, ZenonT(60)
  <2> HIDE DEF Lists, Looks, Writes
  <2>2. CASE \E a \in Actors : Lists(a) \/ Looks(a) \/ Writes(a)
    BY <1>6, <1>7, <1>11, <2>2
  <2>3. CASE \E a \in Actors : Finish(a) \/ StatementFails(a)
    BY <1>8, <1>10, <2>3
  <2>4. CASE \E a \in Actors :
               \E price \in Prices : \E i \in actor[a].todo : NextToClose(a, i, price)
    BY <1>9, <2>4
  <2> QED BY <1>3, <1>4, <1>5, <1>12, <2>1, <2>2, <2>3, <2>4
<1>14. Goal
  BY <1>4, <1>12, <1>13
<1> QED BY <1>14 DEF Goal

LEMMA MovingTurns ==
  ASSUME TypeInv, NEW a \in Actors, Moving(a)
  PROVE  Turns(a) /\ UNCHANGED flat
<1>1. UNCHANGED flat
  BY DEF Moving, InsertPosition, MoveCash, ClosePosition, Credit, CheckStatus, UpdateStatus,
         InsertBailout, TopUp, StatementFails, history
<1>2. CASE InsertPosition(a)
  BY <1>1, <1>2, InsertShape
<1>3. CASE ClosePosition(a) \/ (StatementFails(a) /\ actor[a].pc = "close")
  BY <1>1, <1>3, CloseShape
<1>4. CASE Credit(a) \/ (StatementFails(a) /\ actor[a].pc = "credit")
  <2>1. actor[a].pc = "credit"
    BY <1>4 DEF Credit
  <2> QED BY <1>1, <1>4, <2>1, CreditShape
<1>5. CASE CheckStatus(a)
  BY <1>1, <1>5, CheckShape
<1>6. CASE InsertBailout(a)
  BY <1>1, <1>6, BailoutShape
<1>7. CASE \/ MoveCash(a)
           \/ UpdateStatus(a)
           \/ TopUp(a)
           \/ StatementFails(a) /\ actor[a].pc \in {"cash", "topup", "check", "status"}
  BY <1>1, <1>7, OnwardShape
<1> QED BY <1>1, <1>2, <1>3, <1>4, <1>5, <1>6, <1>7 DEF Moving, Money

-----------------------------------------------------------------------------
(* The closing of the session *)

(* No statement opens a position again, and the one that closes closes.    *)
LEMMA NoneReopens ==
  ASSUME TypeInv, [Next]_vars
  PROVE  /\ DOMAIN positions \subseteq DOMAIN positions'
         /\ DOMAIN positions \cap OpenPositions' \subseteq OpenPositions
         /\ \A a \in Actors : ClosePosition(a) => actor[a].position \notin OpenPositions'
<1>1. ASSUME NEW a \in Actors, ClosePosition(a)
      PROVE  /\ DOMAIN positions \subseteq DOMAIN positions'
             /\ DOMAIN positions \cap OpenPositions' \subseteq OpenPositions
             /\ actor[a].position \notin OpenPositions'
  <2>1. Closed(actor[a]).status = "closed"
    BY <1>1, ClosedFacts DEF ClosePosition
  <2>2. Written(positions, positions', actor[a].position, Closed(actor[a]))
    BY <1>1, CloseFacts
  <2> QED BY <2>1, <2>2 DEF Written, OpenPositions
<1>2. ASSUME NEW a \in Actors, InsertPosition(a)
      PROVE  /\ DOMAIN positions \subseteq DOMAIN positions'
             /\ DOMAIN positions \cap OpenPositions' \subseteq OpenPositions
  <2>1. /\ Written(positions, positions', Len(positions) + 1, Opening(actor[a]))
        /\ Len(positions) + 1 \notin DOMAIN positions
    BY <1>2, InsertFacts
  <2> QED BY <2>1 DEF Written, OpenPositions
<1>3. ASSUME UNCHANGED positions
      PROVE  /\ DOMAIN positions \subseteq DOMAIN positions'
             /\ DOMAIN positions \cap OpenPositions' \subseteq OpenPositions
  BY <1>3 DEF OpenPositions
<1>4. \/ \E a \in Actors : InsertPosition(a) \/ ClosePosition(a)
      \/ UNCHANGED positions
  <2>1. ASSUME NEW a \in Actors, Moving(a)
        PROVE  InsertPosition(a) \/ ClosePosition(a) \/ UNCHANGED positions
    BY <2>1 DEF Moving, MoveCash, Credit, CheckStatus, UpdateStatus,
                InsertBailout, TopUp, StatementFails, books
  <2>2. Steady \/ Crash => UNCHANGED positions
    BY DEF Steady, Crash, books
  <2> QED BY <2>1, <2>2, MoneySteps
<1> QED BY <1>1, <1>2, <1>3, <1>4

(* Of what a closing of the session found, that which is still open is what
   it has yet to take up, or is closing.                                   *)
FlatInv ==
  /\ SessionEndsFlat
  /\ flat \subseteq DOMAIN positions
  /\ \A a \in Actors :
       LET p == actor[a]
       IN p.op = "flat" /\ p.pc # "positions" =>
            \A i \in p.seen \cap OpenPositions :
              i \in p.todo \/ (p.pc = "close" /\ i = p.position)

LEMMA FlatRuns ==
  ASSUME TypeInv, FlatInv, [Next]_vars, NEW a \in Actors, Turns(a)
  PROVE  \A b \in Actors :
           LET q == actor'[b]
           IN q.op = "flat" /\ q.pc # "positions" =>
                \A i \in q.seen \cap OpenPositions' :
                  i \in q.todo \/ (q.pc = "close" /\ i = q.position)
<1> SUFFICES ASSUME NEW b \in Actors, actor'[b].op = "flat", actor'[b].pc # "positions",
                    NEW i \in actor'[b].seen, i \in OpenPositions'
             PROVE  \/ i \in actor'[b].todo
                    \/ actor'[b].pc = "close" /\ i = actor'[b].position
  OBVIOUS
<1> DEFINE p == actor[b]
           q == actor'[b]
<1>1. Legal(p, kind, DOMAIN positions, DOMAIN signals, Real)
  BY RunFacts
<1>2. p.op = "flat" => p.seen \subseteq DOMAIN positions
  BY <1>1 DEF Legal, TodoLegal, Closes
<1>3. ASSUME p.op = "flat", p.pc # "positions", i \in p.seen
      PROVE  /\ i \in OpenPositions
             /\ i \in p.todo \/ (p.pc = "close" /\ i = p.position)
             /\ ~(ClosePosition(b) /\ i = p.position)
  <2>1. i \in OpenPositions
    BY <1>2, <1>3, NoneReopens
  <2>2. ~(ClosePosition(b) /\ i = p.position)
    BY NoneReopens
  <2> QED BY <1>3, <2>1, <2>2 DEF FlatInv
<1>4. CASE b # a
  <2>1. q = p
    BY <1>4 DEF Turns, Others
  <2> QED BY <1>3, <2>1
<1>5. CASE b = a
  <2>1. Flattens(b, q)
    BY <1>5 DEF Turns
  <2>2. CASE q.pc = "next" /\ q.todo = q.seen
    BY <2>2
  <2>3. CASE /\ p.op = "flat" /\ p.pc # "positions"
             /\ i \in p.seen
             /\ i \in p.todo =>
                  \/ i \in q.todo \/ i \notin OpenPositions
                  \/ q.pc = "close" /\ q.position = i
             /\ p.pc = "close" /\ i = p.position => ClosePosition(b)
    BY <1>3, <2>3
  <2> QED BY <2>1, <2>2, <2>3 DEF Flattens
<1> QED BY <1>4, <1>5

LEMMA FlatStep ==
  ASSUME TypeInv, FlatInv, [Next]_vars
  PROVE  FlatInv'
<1>1. flat' \subseteq DOMAIN positions' /\ flat' \cap OpenPositions' = {}
  <2>1. ASSUME flat' \subseteq flat \cup (DOMAIN positions \ OpenPositions)
        PROVE  flat' \subseteq DOMAIN positions' /\ flat' \cap OpenPositions' = {}
    BY <2>1, NoneReopens DEF FlatInv, SessionEndsFlat
  <2>2. ASSUME NEW a \in Actors, Finish(a)
        PROVE  flat' \subseteq flat \cup (DOMAIN positions \ OpenPositions)
    <3>1. /\ Legal(actor[a], kind, DOMAIN positions, DOMAIN signals, Real)
      BY RunFacts
    <3>2. actor[a].op = "flat" => actor[a].seen \subseteq DOMAIN positions
      BY <3>1 DEF Legal, TodoLegal, Closes
    <3>3. /\ actor[a].pc = "next" /\ actor[a].todo = {}
          /\ flat' = IF actor[a].op = "flat" THEN flat \cup actor[a].seen ELSE flat
      BY <2>2 DEF Finish
    <3>4. actor[a].op = "flat" => actor[a].seen \cap OpenPositions = {}
      BY <3>3 DEF FlatInv
    <3> QED BY <3>2, <3>3, <3>4
  <2>3. (\E a \in Actors : Finish(a)) \/ UNCHANGED flat
    <3>1. Crash => UNCHANGED flat
      BY DEF Crash
    <3> QED BY <3>1, MoneySteps, MovingTurns
  <2> QED BY <2>1, <2>2, <2>3
<1>2. \A b \in Actors :
        LET q == actor'[b]
        IN q.op = "flat" /\ q.pc # "positions" =>
             \A i \in q.seen \cap OpenPositions' :
               i \in q.todo \/ (q.pc = "close" /\ i = q.position)
  <2>1. (\E a \in Actors : Turns(a)) \/ Crash \/ (UNCHANGED actor /\ Steady)
    BY MoneySteps, MovingTurns DEF Calm, Turns
  <2>2. CASE Crash
    BY <2>2, IdleFacts DEF Crash
  <2>3. CASE UNCHANGED actor /\ Steady
    <3>1. OpenPositions' = OpenPositions
      BY <2>3 DEF Steady, OpenPositions
    <3> QED BY <2>3, <3>1 DEF FlatInv
  <2> QED BY <2>1, <2>2, <2>3, FlatRuns
<1> QED BY <1>1, <1>2 DEF FlatInv, SessionEndsFlat

(* When a closing of the session is through, every position it found is
   closed, by itself or by the other tick or reset that was ahead of it;
   only a failed statement and an instrument without a price are excepted.  *)
THEOREM SessionsEndFlat == Spec => []SessionEndsFlat
<1>1. Init => TypeInv /\ FlatInv
  <2> SUFFICES ASSUME Init PROVE FlatInv
    BY InitTypes
  <2>1. \A a \in Actors : actor[a] = Idle
    BY NoPositions
  <2>2. flat = {}
    BY DEF Init
  <2> QED BY <2>1, <2>2, IdleFacts DEF FlatInv, SessionEndsFlat
<1>2. TypeInv /\ FlatInv /\ [Next]_vars => (TypeInv /\ FlatInv)'
  <2> SUFFICES ASSUME TypeInv, FlatInv, [Next]_vars PROVE TypeInv' /\ FlatInv'
    OBVIOUS
  <2> QED BY TypeStep, FlatStep
<1>3. FlatInv => SessionEndsFlat
  BY DEF FlatInv
<1> QED BY <1>1, <1>2, <1>3, PTL DEF Spec

-----------------------------------------------------------------------------
(* The status and the cash it is the status of *)

Judging == {"check", "status"}

(* While closes are being judged the cash is the one they are judged by, and
   a grade to be written is the grade of it; when none is, it is the status. *)
StatusInv ==
  judged.sure =>
    /\ \A a \in Actors :
         /\ actor[a].pc \in Judging => judged.cash = cash
         /\ actor[a].pc = "status" => actor[a].grade = determinePortfolioStatus(judged.cash)
    /\ (\A a \in Actors : actor[a].pc \notin Judging) =>
         status = determinePortfolioStatus(judged.cash)

LEMMA NoneJudged ==
  ASSUME StatusInv, NEW a \in Actors, Others(a), UNCHANGED <<status, cash, judged>>,
         actor[a].pc \notin Judging, actor'[a].pc \notin Judging
  PROVE  StatusInv'
<1>1. \A b \in Actors : \/ actor'[b] = actor[b]
                        \/ actor[b].pc \notin Judging /\ actor'[b].pc \notin Judging
  BY DEF Others
<1>2. (\A b \in Actors : actor'[b].pc \notin Judging) =>
        \A b \in Actors : actor[b].pc \notin Judging
  BY <1>1
<1>3. "status" \in Judging
  BY DEF Judging
<1> QED BY <1>1, <1>2, <1>3 DEF StatusInv

(* Cash moved by another than a close is judged by those that have still to
   read it.                                                                *)
LEMMA CashJudged ==
  ASSUME StatusInv, NEW a \in Actors, Others(a), UNCHANGED status, Judge(a, cash'),
         actor[a].pc \notin Judging, actor'[a].pc \notin Judging
  PROVE  StatusInv'
<1> DEFINE others == {b \in Actors \ {a} : actor[b].pc \in {"check", "status"}}
<1>1. \A b \in Actors : b = a \/ actor'[b] = actor[b]
  BY DEF Others
<1>2. CASE others = {}
  <2>1. judged' = judged
    BY <1>2 DEF Judge
  <2>2. \A b \in Actors : actor[b].pc \notin Judging /\ actor'[b].pc \notin Judging
    BY <1>1, <1>2 DEF Judging
  <2>3. "status" \in Judging
    BY DEF Judging
  <2> QED BY <2>1, <2>2, <2>3 DEF StatusInv
<1>3. CASE others # {} /\ judged.sure /\ \A b \in others : actor[b].pc = "check"
  <2>1. judged' = Sure(cash')
    BY <1>3 DEF Judge
  <2>2. judged'.cash = cash'
    BY <2>1 DEF Sure
  <2>3. \A b \in Actors : actor'[b].pc # "status"
    BY <1>1, <1>3 DEF Judging
  <2>4. \E b \in Actors : actor'[b].pc \in Judging
    BY <1>1, <1>3 DEF Judging
  <2> QED BY <2>2, <2>3, <2>4 DEF StatusInv
<1>4. CASE others # {} /\ ~(judged.sure /\ \A b \in others : actor[b].pc = "check")
  <2>1. judged' = Unsure
    BY <1>4 DEF Judge
  <2> QED BY <2>1 DEF Unsure, StatusInv
<1> QED BY <1>2, <1>3, <1>4

(* A close is judged by the cash it leaves, unless a grade that was read
   before is still to be written.                                          *)
LEMMA CloseJudged ==
  ASSUME NEW a \in Actors, Others(a), judged' = Judged(a, cash'), actor'[a].pc = "check"
  PROVE  StatusInv'
<1>1. \A b \in Actors : b = a \/ actor'[b] = actor[b]
  BY DEF Others
<1>2. CASE \E b \in Actors \ {a} : actor[b].pc = "status"
  BY <1>2 DEF Judged, Unsure, StatusInv
<1>3. CASE ~\E b \in Actors \ {a} : actor[b].pc = "status"
  <2>1. judged'.cash = cash'
    BY <1>3 DEF Judged, Sure
  <2>2. \A b \in Actors : actor'[b].pc # "status"
    BY <1>1, <1>3
  <2>3. \E b \in Actors : actor'[b].pc \in Judging
    BY DEF Judging
  <2> QED BY <2>1, <2>2, <2>3 DEF StatusInv
<1> QED BY <1>2, <1>3

LEMMA StatusChecked ==
  ASSUME TypeInv, StatusInv, NEW a \in Actors, CheckStatus(a)
  PROVE  StatusInv'
<1> DEFINE grade == determinePortfolioStatus(cash)
<1>1. /\ Turns(a) /\ actor[a].pc = "check"
      /\ grade = status => actor'[a].pc \notin Money
      /\ grade # status => actor'[a].pc = "status" /\ actor'[a].grade = grade
  BY CheckShape
<1>2. UNCHANGED <<status, cash, judged>>
  BY DEF CheckStatus, books, history
<1> SUFFICES ASSUME judged.sure PROVE StatusInv'
  BY <1>2 DEF StatusInv
<1>3. judged.cash = cash /\ grade = determinePortfolioStatus(judged.cash)
  BY <1>1 DEF StatusInv, Judging
<1> HIDE DEF grade
<1>4. \A b \in Actors : b = a \/ actor'[b] = actor[b]
  BY <1>1 DEF Turns, Others
<1>5. CASE grade = status
  <2>1. actor'[a].pc \notin Judging /\ actor'[a].pc # "status"
    BY <1>1, <1>5 DEF Money, Judging
  <2> QED BY <1>2, <1>3, <1>4, <1>5, <2>1 DEF StatusInv
<1>6. CASE grade # status
  <2>1. actor'[a].pc \in Judging
    BY <1>1, <1>6 DEF Judging
  <2> QED BY <1>1, <1>2, <1>3, <1>4, <1>6, <2>1 DEF StatusInv
<1> QED BY <1>5, <1>6

LEMMA StatusUpdated ==
  ASSUME TypeInv, StatusInv, NEW a \in Actors, UpdateStatus(a)
  PROVE  StatusInv'
<1>1. /\ Turns(a) /\ actor'[a].pc \notin Money
  BY OnwardShape
<1>2. UNCHANGED <<cash, judged>> /\ actor[a].pc = "status" /\ status' = actor[a].grade
  BY DEF UpdateStatus, history
<1> SUFFICES ASSUME judged.sure PROVE StatusInv'
  BY <1>2 DEF StatusInv
<1>3. judged.cash = cash /\ status' = determinePortfolioStatus(judged.cash)
  BY <1>2 DEF StatusInv, Judging
<1>4. \A b \in Actors : b = a \/ actor'[b] = actor[b]
  BY <1>1 DEF Turns, Others
<1>5. actor'[a].pc \notin Judging /\ actor'[a].pc # "status"
  BY <1>1 DEF Money, Judging
<1> QED BY <1>2, <1>3, <1>4, <1>5 DEF StatusInv

LEMMA StatusStays ==
  ASSUME TypeInv, StatusInv, [Next]_vars
  PROVE  StatusInv'
<1>1. ASSUME NEW a \in Actors, Calm(a), Steady PROVE StatusInv'
  BY <1>1, NoneJudged DEF Calm, Steady, Money, Judging
<1>2. ASSUME NEW a \in Actors, Moving(a) PROVE StatusInv'
  <2>1. Others(a)
    BY <1>2, MovingTurns DEF Turns
  <2>2. CASE InsertPosition(a)
    <3>1. UNCHANGED <<status, cash, judged>>
      BY <2>2 DEF InsertPosition
    <3>2. actor[a].pc \notin Judging /\ actor'[a].pc \notin Judging
      BY <2>2, InsertShape DEF Judging, Money
    <3> QED BY <2>1, <3>1, <3>2, NoneJudged
  <2>3. CASE ClosePosition(a) \/ (StatementFails(a) /\ actor[a].pc = "close")
    <3>1. UNCHANGED <<status, cash, judged>>
      BY <2>3 DEF ClosePosition, StatementFails, books
    <3>2. actor[a].pc \notin Judging /\ actor'[a].pc \notin Judging
      BY <2>3, CloseShape DEF Judging, Money
    <3> QED BY <2>1, <3>1, <3>2, NoneJudged
  <2>4. CASE InsertBailout(a)
    <3>1. UNCHANGED <<status, cash, judged>>
      BY <2>4 DEF InsertBailout, books, history
    <3>2. actor[a].pc \notin Judging /\ actor'[a].pc \notin Judging
      BY <2>4, BailoutShape DEF Judging, Money
    <3> QED BY <2>1, <3>1, <3>2, NoneJudged
  <2>5. CASE MoveCash(a) \/ TopUp(a)
    <3>1. UNCHANGED status /\ Judge(a, cash') /\ actor[a].pc \notin Judging
      BY <2>5 DEF MoveCash, TopUp, Judging
    <3>2. actor'[a].pc \notin Judging
      BY <2>5, OnwardShape DEF Judging, Money
    <3> QED BY <2>1, <3>1, <3>2, CashJudged
  <2>6. CASE Credit(a) \/ (StatementFails(a) /\ actor[a].pc = "credit")
    <3>1. actor[a].pc = "credit"
      BY <2>6 DEF Credit
    <3>2. actor'[a].pc = "check"
      BY <2>6, <3>1, CreditShape
    <3>3. judged' = Judged(a, cash')
      BY <2>6 DEF Credit, StatementFails, books
    <3> QED BY <2>1, <3>2, <3>3, CloseJudged
  <2>7. CASE StatementFails(a) /\ actor[a].pc \in {"cash", "topup"}
    <3>1. UNCHANGED <<status, cash, judged>>
      BY <2>7 DEF StatementFails, books
    <3>2. actor[a].pc \notin Judging /\ actor'[a].pc \notin Judging
      BY <2>7, OnwardShape DEF Judging, Money
    <3> QED BY <2>1, <3>1, <3>2, NoneJudged
  <2>8. CASE StatementFails(a) /\ actor[a].pc \in {"check", "status"}
    <3>1. judged' = Unsure
      BY <2>8 DEF StatementFails
    <3> QED BY <3>1 DEF Unsure, StatusInv
  <2> QED BY <1>2, <2>2, <2>3, <2>4, <2>5, <2>6, <2>7, <2>8, StatusChecked, StatusUpdated
        DEF Moving, Money
<1>3. CASE Crash
  <2>1. \A a \in Actors : actor'[a] = Idle
    BY <1>3 DEF Crash
  <2>2. Idle.pc \notin Judging /\ Idle.pc # "status"
    BY IdleFacts DEF Judging
  <2>3. UNCHANGED <<status, cash>>
    BY <1>3 DEF Crash, books
  <2>4. CASE \E a \in Actors : actor[a].pc \in {"credit", "check", "status"}
    <3>1. judged' = Unsure
      BY <1>3, <2>4 DEF Crash
    <3> QED BY <3>1 DEF Unsure, StatusInv
  <2>5. CASE ~\E a \in Actors : actor[a].pc \in {"credit", "check", "status"}
    <3>1. judged' = judged /\ \A a \in Actors : actor[a].pc \notin Judging
      BY <1>3, <2>5 DEF Crash, Judging
    <3> QED BY <2>1, <2>2, <2>3, <3>1 DEF StatusInv
  <2> QED BY <2>4, <2>5
<1>4. CASE UNCHANGED actor /\ Steady
  BY <1>4 DEF Steady, StatusInv
<1> QED BY <1>1, <1>2, <1>3, <1>4, MoneySteps

(* However closes, purchases and top-ups overlap, the status written last is
   the one of the cash the last close left, as long as no close was booked
   between the check of another and its write.                             *)
THEOREM StatusFollowsClose == Spec => []StatusIsOfTheLastClose
<1>1. Init => TypeInv /\ StatusInv
  <2> SUFFICES ASSUME Init PROVE StatusInv
    BY InitTypes
  <2>1. \A a \in Actors : actor[a] = Idle
    BY NoPositions
  <2>2. Idle.pc \notin Judging /\ Idle.pc # "status"
    BY IdleFacts DEF Judging
  <2>3. status = "active" /\ judged = [cash |-> InitialBalance, sure |-> TRUE]
    BY DEF Init
  <2>4. determinePortfolioStatus(InitialBalance) = "active"
    <3>1. \A n \in Nat : 5 * n >= 4 * n
      OBVIOUS
    <3> QED BY <3>1, ConstantsAssumption DEF determinePortfolioStatus
  <2> QED BY <2>1, <2>2, <2>3, <2>4 DEF StatusInv
<1>2. TypeInv /\ StatusInv /\ [Next]_vars => (TypeInv /\ StatusInv)'
  <2> SUFFICES ASSUME TypeInv, StatusInv, [Next]_vars PROVE TypeInv' /\ StatusInv'
    OBVIOUS
  <2> QED BY TypeStep, StatusStays
<1>3. StatusInv => StatusIsOfTheLastClose
  BY DEF StatusInv, StatusIsOfTheLastClose, At, Judging
<1> QED BY <1>1, <1>2, <1>3, PTL DEF Spec

-----------------------------------------------------------------------------
(* The books *)

(* What positions have cost and brought, and what runs have still to book. *)
Cost == [i \in Real |-> Paid(positions[i])]
Brought == [i \in Real \ OpenPositions |-> Returned(positions[i])]
Won == [i \in Real \ OpenPositions |-> calculatePnl(positions[i])]
Unpaid == [a \in At("cash") |-> Paid(positions[actor[a].position])]
Unreturned == [a \in At("credit") |-> Returned(Closing(actor[a]))]
Unbooked == [a \in At("credit") |-> calculatePnl(Closing(actor[a]))]
Promised == [a \in At("topup") |-> AtLeastZero(InitialBalance - actor[a].balance)]

Books ==
  /\ CashOfPositions = InitialBalance + Sum(Cost) - Sum(Unpaid) + Sum(Brought)
                       - Sum(Unreturned) + Sum(ledger) - Sum(Promised)
  /\ ProfitOfPositions = Sum(Won) - Sum(Unbooked)

LEMMA BooksAre == Books
BY DEF Books, CashOfPositions, ProfitOfPositions, Cost, Brought, Won, Unpaid, Unreturned,
       Unbooked, Promised

BooksTyped ==
  /\ IsFiniteSet(Real) /\ IsFiniteSet(Real \ OpenPositions) /\ IsFiniteSet(DOMAIN ledger)
  /\ IsFiniteSet(At("cash")) /\ IsFiniteSet(At("credit")) /\ IsFiniteSet(At("topup"))
  /\ Cost \in [Real -> Int]
  /\ Brought \in [Real \ OpenPositions -> Int]
  /\ Won \in [Real \ OpenPositions -> Int]
  /\ Unpaid \in [At("cash") -> Int]
  /\ Unreturned \in [At("credit") -> Int]
  /\ Unbooked \in [At("credit") -> Int]
  /\ Promised \in [At("topup") -> Int]
  /\ ledger \in [DOMAIN ledger -> Int]

LEMMA ClosingType ==
  ASSUME TypeInv, NEW a \in Actors, actor[a].pc = "credit"
  PROVE  Closing(actor[a]) \in Position
<1> DEFINE p == actor[a]
<1>1. /\ p.position \in DOMAIN positions /\ positions[p.position] \in Position
      /\ p.price \in Prices \cup {0}
  BY ClosedFacts
<1> QED BY <1>1 DEF Closing, Position

LEMMA FiniteActors == IsFiniteSet(Actors)
<1>1. /\ IsFiniteSet(Pipelines) /\ IsFiniteSet(Settlements)
      /\ IsFiniteSet(Ticks) /\ IsFiniteSet(Resets)
  BY ConstantsAssumption
<1>2. IsFiniteSet(Pipelines \cup Settlements)
  BY <1>1, FS_Union
<1>3. IsFiniteSet((Pipelines \cup Settlements) \cup Ticks)
  BY <1>1, <1>2, FS_Union
<1> QED BY <1>1, <1>3, FS_Union DEF Actors

LEMMA BooksType == TypeInv => BooksTyped
<1> SUFFICES ASSUME TypeInv PROVE BooksTyped
  OBVIOUS
<1>1. IsFiniteSet(DOMAIN positions)
  <2>0. positions \in Seq(Position)
    BY DEF TypeInv, TypeOK
  <2>1. DOMAIN positions = 1..Len(positions) /\ Len(positions) \in Int
    BY <2>0, DomainFacts
  <2>2. IsFiniteSet(1..Len(positions))
    BY <2>1, FS_Interval
  <2> QED BY <2>1, <2>2, FS_Subset
<1>2. IsFiniteSet(Real) /\ IsFiniteSet(Real \ OpenPositions)
  <2>1. Real \subseteq DOMAIN positions /\ Real \ OpenPositions \subseteq DOMAIN positions
    BY DEF Real
  <2> QED BY <1>1, <2>1, FS_Subset
<1>3. IsFiniteSet(DOMAIN ledger)
  <2>0. DOMAIN ledger \subseteq 0..MaxDays
    BY DEF TypeInv, TypeOK
  <2>1. DOMAIN ledger \subseteq 0..MaxDays /\ MaxDays \in Int
    BY <2>0, Bounds
  <2>2. IsFiniteSet(0..MaxDays)
    BY <2>1, FS_Interval
  <2> QED BY <2>1, <2>2, FS_Subset
<1>4. IsFiniteSet(At("cash")) /\ IsFiniteSet(At("credit")) /\ IsFiniteSet(At("topup"))
  <2>1. \A pc : At(pc) \subseteq Actors
    BY DEF At
  <2> QED BY <2>1, FiniteActors, FS_Subset
<1>5. \A i \in Real : positions[i] \in Position
  BY RowFacts DEF Real
<1>6. \A a \in At("cash") : actor[a].position \in Real
  BY RunFacts DEF At, Legal, RowLegal
<1>7. \A a \in At("credit") : Closing(actor[a]) \in Position
  BY ClosingType DEF At
<1>8. \A a \in At("topup") : AtLeastZero(InitialBalance - actor[a].balance) \in Int
  <2> SUFFICES ASSUME NEW a \in At("topup")
               PROVE  AtLeastZero(InitialBalance - actor[a].balance) \in Int
    OBVIOUS
  <2>1. actor[a].balance \in Int /\ InitialBalance \in Int
    BY RunFacts, Bounds DEF At, Run
  <2> QED BY <2>1 DEF AtLeastZero
<1>9. Cost \in [Real -> Int] /\ Brought \in [Real \ OpenPositions -> Int]
      /\ Won \in [Real \ OpenPositions -> Int]
  BY <1>5, AmountTypes DEF Cost, Brought, Won
<1>10. Unpaid \in [At("cash") -> Int]
  BY <1>5, <1>6, AmountTypes DEF Unpaid
<1>11. Unreturned \in [At("credit") -> Int] /\ Unbooked \in [At("credit") -> Int]
  BY <1>7, AmountTypes DEF Unreturned, Unbooked
<1>12. Promised \in [At("topup") -> Int]
  BY <1>8 DEF Promised
<1>13. ledger \in [DOMAIN ledger -> Int]
  <2>1. ledger \in [DOMAIN ledger -> Nat]
    BY DEF TypeInv, TypeOK
  <2> QED BY <2>1
<1> QED BY <1>2, <1>3, <1>4, <1>9, <1>10, <1>11, <1>12, <1>13 DEF BooksTyped

(* Amounts depend on what was dealt, not on the rest of the row. *)
LEMMA SameDeal ==
  ASSUME NEW p, NEW q,
         p.quantity = q.quantity, p.entry = q.entry, p.direction = q.direction
  PROVE  /\ Paid(p) = Paid(q)
         /\ p.exit = q.exit => Returned(p) = Returned(q) /\ calculatePnl(p) = calculatePnl(q)
BY DEF Paid, Returned, calculatePnl

(* What the rows and the ledger make of the cash, and what of it is under way. *)
Rows == Sum(Cost) + Sum(Brought) + Sum(ledger)
Owed == Sum(Unpaid) + Sum(Unreturned) + Sum(Promised)

Held(a) == Summand(Unpaid, a) + Summand(Unreturned, a) + Summand(Promised, a)

LEMMA HeldIs ==
  ASSUME NEW a \in Actors
  PROVE  /\ Summand(Unpaid, a) = IF actor[a].pc = "cash"
                                 THEN Paid(positions[actor[a].position]) ELSE 0
         /\ Summand(Unreturned, a) = IF actor[a].pc = "credit"
                                     THEN Returned(Closing(actor[a])) ELSE 0
         /\ Summand(Unbooked, a) = IF actor[a].pc = "credit"
                                   THEN calculatePnl(Closing(actor[a])) ELSE 0
         /\ Summand(Promised, a) = IF actor[a].pc = "topup"
                                   THEN AtLeastZero(InitialBalance - actor[a].balance) ELSE 0
<1>1. \A pc : a \in At(pc) <=> actor[a].pc = pc
  BY DEF At
<1>2. /\ DOMAIN Unpaid = At("cash") /\ DOMAIN Unreturned = At("credit")
      /\ DOMAIN Unbooked = At("credit") /\ DOMAIN Promised = At("topup")
  BY DEF Unpaid, Unreturned, Unbooked, Promised
<1> QED BY <1>1, <1>2 DEF Summand, Unpaid, Unreturned, Unbooked, Promised

HeldWell == \A a \in Actors :
  /\ actor[a].pc = "cash" => Held(a) = Paid(positions[actor[a].position])
  /\ actor[a].pc = "credit" => /\ Held(a) = Returned(Closing(actor[a]))
                               /\ Summand(Unbooked, a) = calculatePnl(Closing(actor[a]))
  /\ actor[a].pc # "credit" => Summand(Unbooked, a) = 0
  /\ actor[a].pc = "topup" => Held(a) = AtLeastZero(InitialBalance - actor[a].balance)
  /\ actor[a].pc \notin {"cash", "credit", "topup"} => Held(a) = 0
  /\ Held(a) \in Int /\ Summand(Unbooked, a) \in Int

LEMMA HeldType == TypeInv => HeldWell
<1> SUFFICES ASSUME TypeInv, NEW a \in Actors
             PROVE  /\ actor[a].pc = "cash" => Held(a) = Paid(positions[actor[a].position])
                    /\ actor[a].pc = "credit" =>
                         /\ Held(a) = Returned(Closing(actor[a]))
                         /\ Summand(Unbooked, a) = calculatePnl(Closing(actor[a]))
                    /\ actor[a].pc # "credit" => Summand(Unbooked, a) = 0
                    /\ actor[a].pc = "topup" =>
                         Held(a) = AtLeastZero(InitialBalance - actor[a].balance)
                    /\ actor[a].pc \notin {"cash", "credit", "topup"} => Held(a) = 0
                    /\ Held(a) \in Int /\ Summand(Unbooked, a) \in Int
  BY DEF HeldWell
<1>1. BooksTyped
  BY BooksType
<1>2. /\ Summand(Unpaid, a) \in Int /\ Summand(Unreturned, a) \in Int
      /\ Summand(Unbooked, a) \in Int /\ Summand(Promised, a) \in Int
  BY <1>1 DEF BooksTyped, Summand
<1> QED BY <1>2, HeldIs DEF Held

(* Rows keep what was dealt. *)
KeepsDeals == \A i \in DOMAIN positions :
  /\ i \in DOMAIN positions'
  /\ positions'[i].quantity = positions[i].quantity
  /\ positions'[i].entry = positions[i].entry
  /\ positions'[i].direction = positions[i].direction

(* Only the run that takes the step may have more or less under way. *)
LEMMA HeldMoves ==
  ASSUME TypeInv, TypeInv', NEW a \in Actors, Others(a), KeepsDeals
  PROVE  /\ Owed \in Int /\ Owed' \in Int
         /\ Owed' = Owed + Held(a)' - Held(a)
         /\ Sum(Unbooked) \in Int /\ Sum(Unbooked') \in Int
         /\ Sum(Unbooked') = Sum(Unbooked) + Summand(Unbooked', a) - Summand(Unbooked, a)
<1>1. BooksTyped
  BY BooksType
<1>2. BooksTyped'
  BY BooksType, PTL
<1>3. \A pc : At(pc) \ {a} = At(pc)' \ {a}
  BY DEF Others, At
<1>4. \A b \in Actors \ {a} : actor'[b] = actor[b]
  BY DEF Others
<1>5. \A pc : \A b \in At(pc) \ {a} : b \in Actors \ {a} /\ b \in At(pc)' /\ actor[b].pc = pc
  BY <1>3 DEF At
<1>6. \A b \in At("cash") \ {a} : Unpaid'[b] = Unpaid[b]
  <2> SUFFICES ASSUME NEW b \in At("cash") \ {a} PROVE Unpaid'[b] = Unpaid[b]
    OBVIOUS
  <2> DEFINE i == actor[b].position
  <2>1. /\ b \in Actors /\ b \in At("cash") /\ b \in At("cash")' /\ actor'[b] = actor[b]
        /\ actor[b].pc = "cash"
    BY <1>4, <1>5
  <2>2. i \in DOMAIN positions
    BY <2>1, RunFacts DEF Legal, RowLegal, Real
  <2>3. Unpaid[b] = Paid(positions[i]) /\ Unpaid'[b] = Paid(positions'[i])
    BY <2>1 DEF Unpaid
  <2>4. /\ positions'[i].quantity = positions[i].quantity
        /\ positions'[i].entry = positions[i].entry
        /\ positions'[i].direction = positions[i].direction
    BY <2>2 DEF KeepsDeals
  <2> HIDE DEF i
  <2>5. Paid(positions'[i]) = Paid(positions[i])
    BY <2>4, SameDeal
  <2> QED BY <2>3, <2>5
<1>7. \A b \in At("credit") \ {a} :
        Unreturned'[b] = Unreturned[b] /\ Unbooked'[b] = Unbooked[b]
  <2> SUFFICES ASSUME NEW b \in At("credit") \ {a}
               PROVE  Unreturned'[b] = Unreturned[b] /\ Unbooked'[b] = Unbooked[b]
    OBVIOUS
  <2> DEFINE i == actor[b].position
             x == [positions[i] EXCEPT !.exit = actor[b].price]
             y == [positions'[i] EXCEPT !.exit = actor[b].price]
  <2>1. /\ b \in Actors /\ b \in At("credit") /\ b \in At("credit")' /\ actor'[b] = actor[b]
        /\ actor[b].pc = "credit"
    BY <1>4, <1>5
  <2>2. i \in DOMAIN positions
    BY <2>1, RunFacts DEF Legal, RowLegal, Real
  <2>3. positions[i] \in Position /\ positions'[i] \in Position
    <3>1. i \in DOMAIN positions' /\ positions' \in Seq(Position)
      BY <2>2 DEF KeepsDeals, TypeInv, TypeOK
    <3> HIDE DEF i
    <3> QED BY <2>2, <3>1, RowFacts, DomainFacts
  <2>4. /\ Unreturned[b] = Returned(x) /\ Unreturned'[b] = Returned(y)
        /\ Unbooked[b] = calculatePnl(x) /\ Unbooked'[b] = calculatePnl(y)
    BY <2>1 DEF Unreturned, Unbooked, Closing
  <2>5. /\ x.quantity = y.quantity /\ x.entry = y.entry
        /\ x.direction = y.direction /\ x.exit = y.exit
    <3>1. /\ positions'[i].quantity = positions[i].quantity
          /\ positions'[i].entry = positions[i].entry
          /\ positions'[i].direction = positions[i].direction
      BY <2>2 DEF KeepsDeals
    <3> HIDE DEF i
    <3> QED BY <2>3, <3>1 DEF Position
  <2> HIDE DEF x, y
  <2>6. Returned(x) = Returned(y) /\ calculatePnl(x) = calculatePnl(y)
    BY <2>5, SameDeal
  <2> QED BY <2>4, <2>6
<1>8. \A b \in At("topup") \ {a} : Promised'[b] = Promised[b]
  BY <1>4, <1>5 DEF Promised
<1>9. /\ Sum(Unpaid) \in Int /\ Sum(Unpaid') \in Int
      /\ Summand(Unpaid, a) \in Int /\ Summand(Unpaid', a) \in Int
      /\ Sum(Unpaid') = Sum(Unpaid) + Summand(Unpaid', a) - Summand(Unpaid, a)
  <2>1. /\ IsFiniteSet(At("cash")) /\ IsFiniteSet(At("cash")')
        /\ Unpaid \in [At("cash") -> Int] /\ Unpaid' \in [At("cash")' -> Int]
    BY <1>1, <1>2 DEF BooksTyped
  <2>2. At("cash") \ {a} = At("cash")' \ {a}
    BY <1>3
  <2>3. \A b \in At("cash") \ {a} : Unpaid'[b] = Unpaid[b]
    BY <1>6
  <2> DEFINE S == At("cash")
             T == At("cash")'
             f == Unpaid
             g == Unpaid'
  <2>4. /\ IsFiniteSet(S) /\ IsFiniteSet(T) /\ f \in [S -> Int] /\ g \in [T -> Int]
        /\ S \ {a} = T \ {a} /\ \A b \in S \ {a} : g[b] = f[b]
    BY <2>1, <2>2, <2>3
  <2> HIDE DEF S, T, f, g
  <2>5. /\ Sum(f) \in Int /\ Sum(g) \in Int
        /\ Summand(f, a) \in Int /\ Summand(g, a) \in Int
        /\ Sum(g) = Sum(f) + Summand(g, a) - Summand(f, a)
    BY <2>4, SumMoves
  <2> QED BY <2>5 DEF f, g
<1>10. /\ Sum(Unreturned) \in Int /\ Sum(Unreturned') \in Int
       /\ Summand(Unreturned, a) \in Int /\ Summand(Unreturned', a) \in Int
       /\ Sum(Unreturned') = Sum(Unreturned) + Summand(Unreturned', a) - Summand(Unreturned, a)
  <2>1. /\ IsFiniteSet(At("credit")) /\ IsFiniteSet(At("credit")')
        /\ Unreturned \in [At("credit") -> Int] /\ Unreturned' \in [At("credit")' -> Int]
    BY <1>1, <1>2 DEF BooksTyped
  <2>2. At("credit") \ {a} = At("credit")' \ {a}
    BY <1>3
  <2>3. \A b \in At("credit") \ {a} : Unreturned'[b] = Unreturned[b]
    BY <1>7
  <2> DEFINE S == At("credit")
             T == At("credit")'
             f == Unreturned
             g == Unreturned'
  <2>4. /\ IsFiniteSet(S) /\ IsFiniteSet(T) /\ f \in [S -> Int] /\ g \in [T -> Int]
        /\ S \ {a} = T \ {a} /\ \A b \in S \ {a} : g[b] = f[b]
    BY <2>1, <2>2, <2>3
  <2> HIDE DEF S, T, f, g
  <2>5. /\ Sum(f) \in Int /\ Sum(g) \in Int
        /\ Summand(f, a) \in Int /\ Summand(g, a) \in Int
        /\ Sum(g) = Sum(f) + Summand(g, a) - Summand(f, a)
    BY <2>4, SumMoves
  <2> QED BY <2>5 DEF f, g
<1>11. /\ Sum(Unbooked) \in Int /\ Sum(Unbooked') \in Int
       /\ Summand(Unbooked, a) \in Int /\ Summand(Unbooked', a) \in Int
       /\ Sum(Unbooked') = Sum(Unbooked) + Summand(Unbooked', a) - Summand(Unbooked, a)
  <2>1. /\ IsFiniteSet(At("credit")) /\ IsFiniteSet(At("credit")')
        /\ Unbooked \in [At("credit") -> Int] /\ Unbooked' \in [At("credit")' -> Int]
    BY <1>1, <1>2 DEF BooksTyped
  <2>2. At("credit") \ {a} = At("credit")' \ {a}
    BY <1>3
  <2>3. \A b \in At("credit") \ {a} : Unbooked'[b] = Unbooked[b]
    BY <1>7
  <2> DEFINE S == At("credit")
             T == At("credit")'
             f == Unbooked
             g == Unbooked'
  <2>4. /\ IsFiniteSet(S) /\ IsFiniteSet(T) /\ f \in [S -> Int] /\ g \in [T -> Int]
        /\ S \ {a} = T \ {a} /\ \A b \in S \ {a} : g[b] = f[b]
    BY <2>1, <2>2, <2>3
  <2> HIDE DEF S, T, f, g
  <2>5. /\ Sum(f) \in Int /\ Sum(g) \in Int
        /\ Summand(f, a) \in Int /\ Summand(g, a) \in Int
        /\ Sum(g) = Sum(f) + Summand(g, a) - Summand(f, a)
    BY <2>4, SumMoves
  <2> QED BY <2>5 DEF f, g
<1>12. /\ Sum(Promised) \in Int /\ Sum(Promised') \in Int
       /\ Summand(Promised, a) \in Int /\ Summand(Promised', a) \in Int
       /\ Sum(Promised') = Sum(Promised) + Summand(Promised', a) - Summand(Promised, a)
  <2>1. /\ IsFiniteSet(At("topup")) /\ IsFiniteSet(At("topup")')
        /\ Promised \in [At("topup") -> Int] /\ Promised' \in [At("topup")' -> Int]
    BY <1>1, <1>2 DEF BooksTyped
  <2>2. At("topup") \ {a} = At("topup")' \ {a}
    BY <1>3
  <2>3. \A b \in At("topup") \ {a} : Promised'[b] = Promised[b]
    BY <1>8
  <2> DEFINE S == At("topup")
             T == At("topup")'
             f == Promised
             g == Promised'
  <2>4. /\ IsFiniteSet(S) /\ IsFiniteSet(T) /\ f \in [S -> Int] /\ g \in [T -> Int]
        /\ S \ {a} = T \ {a} /\ \A b \in S \ {a} : g[b] = f[b]
    BY <2>1, <2>2, <2>3
  <2> HIDE DEF S, T, f, g
  <2>5. /\ Sum(f) \in Int /\ Sum(g) \in Int
        /\ Summand(f, a) \in Int /\ Summand(g, a) \in Int
        /\ Sum(g) = Sum(f) + Summand(g, a) - Summand(f, a)
    BY <2>4, SumMoves
  <2> QED BY <2>5 DEF f, g
<1>13. /\ Owed = Sum(Unpaid) + Sum(Unreturned) + Sum(Promised)
       /\ Owed' = Sum(Unpaid') + Sum(Unreturned') + Sum(Promised')
       /\ Held(a) = Summand(Unpaid, a) + Summand(Unreturned, a) + Summand(Promised, a)
       /\ Held(a)' = Summand(Unpaid', a) + Summand(Unreturned', a) + Summand(Promised', a)
  BY DEF Owed, Held
<1> QED BY <1>9, <1>10, <1>11, <1>12, <1>13

(* A row that is new or written over is the only one to count differently. *)
LEMMA RowsMove ==
  ASSUME TypeInv, TypeInv', NEW n, NEW x, Written(positions, positions', n, x)
  PROVE  /\ Sum(Cost) \in Int /\ Sum(Cost') \in Int
         /\ Summand(Cost, n) \in Int /\ Summand(Cost', n) \in Int
         /\ Sum(Cost') = Sum(Cost) + Summand(Cost', n) - Summand(Cost, n)
         /\ Sum(Brought) \in Int /\ Sum(Brought') \in Int
         /\ Summand(Brought, n) \in Int /\ Summand(Brought', n) \in Int
         /\ Sum(Brought') = Sum(Brought) + Summand(Brought', n) - Summand(Brought, n)
         /\ Sum(Won) \in Int /\ Sum(Won') \in Int
         /\ Summand(Won, n) \in Int /\ Summand(Won', n) \in Int
         /\ Sum(Won') = Sum(Won) + Summand(Won', n) - Summand(Won, n)
<1>1. BooksTyped
  BY BooksType
<1>2. BooksTyped'
  BY BooksType, PTL
<1> DEFINE R == Real
           S == Real'
           K == Real \ OpenPositions
           L == (Real \ OpenPositions)'
<1>3. /\ IsFiniteSet(R) /\ IsFiniteSet(S) /\ IsFiniteSet(K) /\ IsFiniteSet(L)
      /\ Cost \in [R -> Int] /\ Cost' \in [S -> Int]
      /\ Brought \in [K -> Int] /\ Brought' \in [L -> Int]
      /\ Won \in [K -> Int] /\ Won' \in [L -> Int]
  BY <1>1, <1>2 DEF BooksTyped
<1>4. \A i \in DOMAIN positions \ {n} : i \in DOMAIN positions' /\ positions'[i] = positions[i]
  BY DEF Written
<1>5. R \ {n} = S \ {n} /\ K \ {n} = L \ {n}
  BY DEF Written, Real, OpenPositions
<1>6. R \subseteq DOMAIN positions /\ K \subseteq R
  BY DEF Real
<1>7. \A i \in R \ {n} : Cost'[i] = Cost[i]
  BY <1>4, <1>5, <1>6 DEF Cost
<1>8. \A i \in K \ {n} : Brought'[i] = Brought[i] /\ Won'[i] = Won[i]
  BY <1>4, <1>5, <1>6 DEF Brought, Won
<1> DEFINE c == Cost
           d == Cost'
           e == Brought
           f == Brought'
           g == Won
           h == Won'
<1>9. /\ IsFiniteSet(R) /\ IsFiniteSet(S) /\ c \in [R -> Int] /\ d \in [S -> Int]
      /\ R \ {n} = S \ {n} /\ \A i \in R \ {n} : d[i] = c[i]
  BY <1>3, <1>5, <1>7
<1>10. /\ IsFiniteSet(K) /\ IsFiniteSet(L) /\ e \in [K -> Int] /\ f \in [L -> Int]
      /\ K \ {n} = L \ {n} /\ \A i \in K \ {n} : f[i] = e[i]
  BY <1>3, <1>5, <1>8
<1>11. /\ IsFiniteSet(K) /\ IsFiniteSet(L) /\ g \in [K -> Int] /\ h \in [L -> Int]
      /\ K \ {n} = L \ {n} /\ \A i \in K \ {n} : h[i] = g[i]
  BY <1>3, <1>5, <1>8
<1> HIDE DEF R, S, K, L, c, d, e, f, g, h
<1>12. /\ Sum(c) \in Int /\ Sum(d) \in Int /\ Summand(c, n) \in Int /\ Summand(d, n) \in Int
       /\ Sum(d) = Sum(c) + Summand(d, n) - Summand(c, n)
  BY <1>9, SumMoves
<1>13. /\ Sum(e) \in Int /\ Sum(f) \in Int /\ Summand(e, n) \in Int /\ Summand(f, n) \in Int
       /\ Sum(f) = Sum(e) + Summand(f, n) - Summand(e, n)
  BY <1>10, SumMoves
<1>14. /\ Sum(g) \in Int /\ Sum(h) \in Int /\ Summand(g, n) \in Int /\ Summand(h, n) \in Int
       /\ Sum(h) = Sum(g) + Summand(h, n) - Summand(g, n)
  BY <1>11, SumMoves
<1> QED BY <1>12, <1>13, <1>14 DEF c, d, e, f, g, h

RowsTyped ==
  /\ Sum(Cost) \in Int /\ Sum(Brought) \in Int /\ Sum(Won) \in Int /\ Sum(ledger) \in Int
  /\ Sum(Unpaid) \in Int /\ Sum(Unreturned) \in Int /\ Sum(Promised) \in Int
  /\ Sum(Unbooked) \in Int /\ Rows \in Int /\ Owed \in Int
  /\ cash \in Int /\ realized \in Int

LEMMA RowsType == TypeInv => RowsTyped
<1> SUFFICES ASSUME TypeInv PROVE RowsTyped
  OBVIOUS
<1>1. BooksTyped
  BY BooksType
<1>2. Sum(Cost) \in Int /\ Sum(Brought) \in Int /\ Sum(Won) \in Int
  BY <1>1, SumType DEF BooksTyped
<1>3. Sum(Unpaid) \in Int /\ Sum(Unreturned) \in Int /\ Sum(Promised) \in Int
  BY <1>1, SumType DEF BooksTyped
<1>4. Sum(Unbooked) \in Int /\ Sum(ledger) \in Int
  BY <1>1, SumType DEF BooksTyped
<1>5. cash \in Int /\ realized \in Int
  BY DEF TypeInv, TypeOK
<1>6. Rows \in Int /\ Owed \in Int
  BY <1>2, <1>3, <1>4 DEF Rows, Owed
<1> QED BY <1>2, <1>3, <1>4, <1>5, <1>6 DEF RowsTyped

(* The books in these terms. *)
Balance ==
  /\ drift = {} => cash = InitialBalance + Rows - Owed
  /\ drift \cap {"closed twice", "lost update"} = {} => realized = Sum(Won) - Sum(Unbooked)

LEMMA BalanceIs == TypeInv => (BooksBalance <=> Balance)
<1> SUFFICES ASSUME TypeInv PROVE BooksBalance <=> Balance
  OBVIOUS
<1>1. CashOfPositions = InitialBalance + Rows - Owed
  <2>1. CashOfPositions = InitialBalance + Sum(Cost) - Sum(Unpaid) + Sum(Brought)
                          - Sum(Unreturned) + Sum(ledger) - Sum(Promised)
    BY BooksAre DEF Books
  <2> QED BY <2>1, RowsType, Bounds DEF Rows, Owed, RowsTyped
<1>2. ProfitOfPositions = Sum(Won) - Sum(Unbooked)
  BY BooksAre DEF Books
<1> QED BY <1>1, <1>2 DEF BooksBalance, Balance

(* A step is booked when cash and profit move by as much as the rows and what
   is under way do.                                                        *)
BooksMove(a) ==
  /\ Others(a) /\ KeepsDeals /\ drift \subseteq drift'
  /\ drift' = {} => cash' - cash = (Rows' - Rows) - (Held(a)' - Held(a))
  /\ drift' \cap {"closed twice", "lost update"} = {} =>
       realized' - realized = (Sum(Won') - Sum(Won))
                              - (Summand(Unbooked', a) - Summand(Unbooked, a))

LEMMA Balanced ==
  ASSUME TypeInv, TypeInv', Balance, NEW a \in Actors, BooksMove(a)
  PROVE  Balance'
<1> DEFINE r == Rows
           s == Rows'
           o == Owed
           n == Owed'
           h == Held(a)
           k == Held(a)'
           c == cash
           d == cash'
<1>1. RowsTyped /\ HeldWell
  BY RowsType, HeldType
<1>2. RowsTyped'
  BY RowsType, PTL
<1>3. HeldWell'
  BY HeldType, PTL
<1>4. /\ Owed' = Owed + Held(a)' - Held(a)
      /\ Sum(Unbooked') = Sum(Unbooked) + Summand(Unbooked', a) - Summand(Unbooked, a)
  BY HeldMoves DEF BooksMove
<1>5. ASSUME drift' = {} PROVE cash' = InitialBalance + Rows' - Owed'
  <2>1. /\ r \in Int /\ s \in Int /\ o \in Int /\ n \in Int /\ c \in Int /\ d \in Int
    BY <1>1, <1>2 DEF RowsTyped
  <2>2. h \in Int /\ k \in Int /\ InitialBalance \in Int
    BY <1>1, <1>3, Bounds DEF HeldWell
  <2>3. c = InitialBalance + r - o /\ d - c = (s - r) - (k - h) /\ n = o + k - h
    BY <1>4, <1>5 DEF Balance, BooksMove
  <2> HIDE DEF r, s, o, n, h, k, c, d
  <2>4. d = InitialBalance + s - n
    BY <2>1, <2>2, <2>3
  <2> QED BY <2>4 DEF s, n, d
<1> DEFINE u == Sum(Won)
           v == Sum(Won')
           x == Sum(Unbooked)
           y == Sum(Unbooked')
           g == Summand(Unbooked, a)
           q == Summand(Unbooked', a)
           e == realized
           f == realized'
<1>6. ASSUME drift' \cap {"closed twice", "lost update"} = {}
      PROVE  realized' = Sum(Won') - Sum(Unbooked')
  <2>1. /\ u \in Int /\ v \in Int /\ x \in Int /\ y \in Int /\ e \in Int /\ f \in Int
    BY <1>1, <1>2 DEF RowsTyped
  <2>2. g \in Int /\ q \in Int
    BY <1>1, <1>3 DEF HeldWell
  <2>3. e = u - x /\ f - e = (v - u) - (q - g) /\ y = x + q - g
    BY <1>4, <1>6 DEF Balance, BooksMove
  <2> HIDE DEF u, v, x, y, g, q, e, f
  <2>4. f = v - y
    BY <2>1, <2>2, <2>3
  <2> QED BY <2>4 DEF f, v, y
<1> QED BY <1>5, <1>6 DEF Balance

LEMMA RowsSame ==
  ASSUME UNCHANGED <<positions, ledger>>
  PROVE  Rows' = Rows /\ Sum(Won') = Sum(Won) /\ KeepsDeals
<1>1. Cost' = Cost /\ Brought' = Brought /\ Won' = Won
  BY DEF Cost, Brought, Won, Real, OpenPositions
<1> QED BY <1>1 DEF Rows, KeepsDeals

LEMMA QuietMove ==
  ASSUME TypeInv, TypeInv', NEW a \in Actors, Others(a),
         UNCHANGED <<positions, ledger, cash, realized, drift>>,
         actor[a].pc \notin {"cash", "credit", "topup"},
         actor'[a].pc \notin {"cash", "credit", "topup"}
  PROVE  BooksMove(a)
<1>1. RowsTyped /\ HeldWell
  BY RowsType, HeldType
<1>2. HeldWell'
  BY HeldType, PTL
<1>3. Held(a) = 0 /\ Summand(Unbooked, a) = 0
  BY <1>1 DEF HeldWell
<1>4. Held(a)' = 0 /\ Summand(Unbooked', a) = 0
  BY <1>2 DEF HeldWell
<1>5. Rows' = Rows /\ Sum(Won') = Sum(Won) /\ KeepsDeals
  BY RowsSame
<1>6. Rows \in Int /\ Sum(Won) \in Int /\ cash \in Int /\ realized \in Int
  BY <1>1 DEF RowsTyped
<1>7. cash' - cash = (Rows' - Rows) - (Held(a)' - Held(a))
  BY <1>3, <1>4, <1>5, <1>6
<1>8. realized' - realized = (Sum(Won') - Sum(Won))
                              - (Summand(Unbooked', a) - Summand(Unbooked, a))
  BY <1>3, <1>4, <1>5, <1>6
<1> QED BY <1>5, <1>7, <1>8 DEF BooksMove

(* What is lost is accounted for. *)
LEMMA LostMove ==
  ASSUME NEW a \in Actors, Others(a), KeepsDeals, drift \subseteq drift',
         drift' \cap {"closed twice", "lost update"} # {}
  PROVE  BooksMove(a)
BY DEF BooksMove

LEMMA CashMove ==
  ASSUME TypeInv, TypeInv', NEW a \in Actors, MoveCash(a)
  PROVE  BooksMove(a)
<1> DEFINE m == Paid(positions[actor[a].position])
<1>1. RowsTyped /\ HeldWell
  BY RowsType, HeldType
<1>2. HeldWell'
  BY HeldType, PTL
<1>3. /\ actor[a].pc = "cash" /\ cash' = cash + m
      /\ UNCHANGED <<positions, ledger, realized, drift>>
  BY DEF MoveCash
<1>4. Others(a) /\ actor'[a].pc \notin {"cash", "credit", "topup"}
  BY OnwardShape DEF Turns, Money
<1>5. Held(a) = m /\ m \in Int /\ Summand(Unbooked, a) = 0
  BY <1>1, <1>3 DEF HeldWell
<1>6. Held(a)' = 0 /\ Summand(Unbooked', a) = 0
  BY <1>2, <1>4 DEF HeldWell
<1>7. Rows' = Rows /\ Sum(Won') = Sum(Won) /\ KeepsDeals
  BY <1>3, RowsSame
<1>8. Rows \in Int /\ Sum(Won) \in Int /\ cash \in Int /\ realized \in Int
  BY <1>1 DEF RowsTyped
<1> HIDE DEF m
<1>9. cash' - cash = (Rows' - Rows) - (Held(a)' - Held(a))
  BY <1>3, <1>5, <1>6, <1>7, <1>8
<1>10. realized' - realized = (Sum(Won') - Sum(Won))
                              - (Summand(Unbooked', a) - Summand(Unbooked, a))
  BY <1>3, <1>5, <1>6, <1>7, <1>8
<1> QED BY <1>3, <1>4, <1>7, <1>9, <1>10 DEF BooksMove

LEMMA CreditMove ==
  ASSUME TypeInv, TypeInv', NEW a \in Actors, Credit(a)
  PROVE  BooksMove(a)
<1> DEFINE m == Returned(Closing(actor[a]))
           w == calculatePnl(Closing(actor[a]))
<1>1. RowsTyped /\ HeldWell
  BY RowsType, HeldType
<1>2. HeldWell'
  BY HeldType, PTL
<1>3. /\ actor[a].pc = "credit" /\ cash' = cash + m /\ realized' = realized + w
      /\ UNCHANGED <<positions, ledger, drift>>
  BY DEF Credit
<1>4. Others(a) /\ actor'[a].pc = "check"
  BY <1>3, CreditShape DEF Turns
<1>5. Held(a) = m /\ m \in Int /\ Summand(Unbooked, a) = w /\ w \in Int
  BY <1>1, <1>3 DEF HeldWell
<1>6. Held(a)' = 0 /\ Summand(Unbooked', a) = 0
  BY <1>2, <1>4 DEF HeldWell
<1>7. Rows' = Rows /\ Sum(Won') = Sum(Won) /\ KeepsDeals
  BY <1>3, RowsSame
<1>8. Rows \in Int /\ Sum(Won) \in Int /\ cash \in Int /\ realized \in Int
  BY <1>1 DEF RowsTyped
<1> HIDE DEF m, w
<1>9. cash' - cash = (Rows' - Rows) - (Held(a)' - Held(a))
  BY <1>3, <1>5, <1>6, <1>7, <1>8
<1>10. realized' - realized = (Sum(Won') - Sum(Won))
                              - (Summand(Unbooked', a) - Summand(Unbooked, a))
  BY <1>3, <1>5, <1>6, <1>7, <1>8
<1> QED BY <1>3, <1>4, <1>7, <1>9, <1>10 DEF BooksMove

LEMMA TopUpMove ==
  ASSUME TypeInv, TypeInv', NEW a \in Actors, TopUp(a)
  PROVE  BooksMove(a)
<1> DEFINE b == actor[a].balance
           m == AtLeastZero(InitialBalance - b)
<1>1. RowsTyped /\ HeldWell
  BY RowsType, HeldType
<1>2. HeldWell'
  BY HeldType, PTL
<1>3. /\ actor[a].pc = "topup" /\ cash' = InitialBalance
      /\ drift' = drift \cup (IF cash # b THEN {"overwritten"} ELSE {})
                        \cup (IF b > InitialBalance THEN {"profit cut"} ELSE {})
      /\ UNCHANGED <<positions, ledger, realized>>
  BY DEF TopUp
<1>4. Others(a) /\ actor'[a].pc \notin {"cash", "credit", "topup"}
  BY OnwardShape DEF Turns, Money
<1>5. Held(a) = m /\ m \in Int /\ Summand(Unbooked, a) = 0
  BY <1>1, <1>3 DEF HeldWell
<1>6. Held(a)' = 0 /\ Summand(Unbooked', a) = 0
  BY <1>2, <1>4 DEF HeldWell
<1>7. Rows' = Rows /\ Sum(Won') = Sum(Won) /\ KeepsDeals
  BY <1>3, RowsSame
<1>8. Rows \in Int /\ Sum(Won) \in Int /\ cash \in Int /\ realized \in Int
  BY <1>1 DEF RowsTyped
<1>9. drift' = {} => cash + m = InitialBalance
  <2> SUFFICES ASSUME drift' = {} PROVE cash + m = InitialBalance
    OBVIOUS
  <2>1. cash = b /\ ~(b > InitialBalance)
    BY <1>3
  <2>2. InitialBalance \in Int
    BY Bounds
  <2> QED BY <1>8, <2>1, <2>2 DEF AtLeastZero
<1>10. drift \subseteq drift'
  BY <1>3
<1> HIDE DEF m, b
<1>11. cash' = InitialBalance /\ realized' = realized
  BY <1>3
<1>12. InitialBalance \in Int
  BY Bounds
<1>13. drift' = {} => cash' - cash = (Rows' - Rows) - (Held(a)' - Held(a))
  <2> SUFFICES ASSUME drift' = {}
               PROVE  cash' - cash = (Rows' - Rows) - (Held(a)' - Held(a))
    OBVIOUS
  <2>1. cash + m = InitialBalance
    BY <1>9
  <2> QED BY <1>11, <1>12, <1>5, <1>6, <1>7, <1>8, <2>1
<1>14. realized' - realized = (Sum(Won') - Sum(Won))
                              - (Summand(Unbooked', a) - Summand(Unbooked, a))
  BY <1>11, <1>5, <1>6, <1>7, <1>8
<1> QED BY <1>4, <1>7, <1>10, <1>13, <1>14 DEF BooksMove

LEMMA BailoutMove ==
  ASSUME TypeInv, TypeInv', NEW a \in Actors, InsertBailout(a)
  PROVE  BooksMove(a)
<1> DEFINE m == AtLeastZero(InitialBalance - actor[a].balance)
<1>1. RowsTyped /\ HeldWell /\ BooksTyped
  BY RowsType, HeldType, BooksType
<1>2. HeldWell' /\ BooksTyped'
  BY HeldType, BooksType, PTL
<1>3. /\ Turns(a) /\ actor[a].pc = "ledger"
      /\ today \in DOMAIN ledger => actor'[a].pc \notin Money
      /\ today \notin DOMAIN ledger => /\ actor'[a].pc = "topup"
                                      /\ actor'[a].balance = actor[a].balance
  BY BailoutShape
<1>4. UNCHANGED <<positions, cash, realized, drift>>
  BY DEF InsertBailout, books, history
<1>5. CASE today \in DOMAIN ledger
  <2>1. ledger' = ledger
    BY <1>5 DEF InsertBailout
  <2> QED BY <1>3, <1>4, <1>5, <2>1, QuietMove DEF Turns, Money
<1>6. CASE today \notin DOMAIN ledger
  <2>1. ledger' = [d \in DOMAIN ledger \cup {today} |-> IF d = today THEN m ELSE ledger[d]]
    BY <1>6 DEF InsertBailout
  <2>2. Held(a) = 0 /\ Summand(Unbooked, a) = 0
    BY <1>1, <1>3 DEF HeldWell
  <2>3. Held(a)' = m /\ Summand(Unbooked', a) = 0 /\ m \in Int
    BY <1>2, <1>3, <1>6 DEF HeldWell
  <2>4. /\ IsFiniteSet(DOMAIN ledger) /\ IsFiniteSet(DOMAIN ledger')
        /\ ledger \in [DOMAIN ledger -> Int] /\ ledger' \in [DOMAIN ledger' -> Int]
    BY <1>1, <1>2 DEF BooksTyped
  <2>5. Sum(ledger') = Sum(ledger) + m
    <3> DEFINE f == ledger
               g == ledger'
               E == DOMAIN ledger'
    <3>1. PICK d : d = today
      OBVIOUS
    <3>2. /\ IsFiniteSet(E) /\ d \in E /\ f \in [E \ {d} -> Int] /\ g \in [E -> Int]
          /\ \A y \in E \ {d} : g[y] = f[y]
      BY <1>6, <2>1, <2>4, <3>1
    <3>3. g[d] = m
      BY <2>1, <3>1
    <3> HIDE DEF f, g, E, m
    <3>4. Sum(g) = Sum(f) + g[d]
      BY <3>2, SumExtend
    <3> QED BY <3>3, <3>4 DEF f, g
  <2>6. Cost' = Cost /\ Brought' = Brought /\ Won' = Won /\ KeepsDeals
    BY <1>4 DEF Cost, Brought, Won, Real, OpenPositions, KeepsDeals
  <2>7. Rows' = Rows + m /\ Rows \in Int
    <3>1. Rows' = Sum(Cost) + Sum(Brought) + Sum(ledger')
      BY <2>6 DEF Rows
    <3>2. Sum(Cost) \in Int /\ Sum(Brought) \in Int /\ Sum(ledger) \in Int
      BY <1>1 DEF RowsTyped
    <3> HIDE DEF m
    <3> QED BY <2>3, <2>5, <3>1, <3>2 DEF Rows
  <2>8. Sum(Won) \in Int /\ cash \in Int /\ realized \in Int
    BY <1>1 DEF RowsTyped
  <2>9. Others(a)
    BY <1>3 DEF Turns
  <2> HIDE DEF m
  <2>10. cash' - cash = (Rows' - Rows) - (Held(a)' - Held(a))
    BY <1>4, <2>2, <2>3, <2>6, <2>7, <2>8
  <2>11. realized' - realized = (Sum(Won') - Sum(Won))
                                - (Summand(Unbooked', a) - Summand(Unbooked, a))
    BY <1>4, <2>2, <2>3, <2>6, <2>7, <2>8
  <2> QED BY <1>4, <2>6, <2>9, <2>10, <2>11 DEF BooksMove
<1> QED BY <1>5, <1>6

LEMMA InsertMove ==
  ASSUME TypeInv, TypeInv', NEW a \in Actors, InsertPosition(a)
  PROVE  BooksMove(a)
<1> DEFINE p == actor[a]
           n == Len(positions) + 1
           x == Opening(p)
<1>1. RowsTyped /\ HeldWell
  BY RowsType, HeldType
<1>2. HeldWell'
  BY HeldType, PTL
<1>3. /\ Turns(a) /\ p.pc = "insert"
      /\ p.paper => actor'[a].pc \notin Money
      /\ ~p.paper => actor'[a].pc = "cash" /\ actor'[a].position = n
  BY InsertShape
<1>4. UNCHANGED <<cash, realized, ledger, drift>>
  BY DEF InsertPosition
<1>5. Written(positions, positions', n, x) /\ n \notin DOMAIN positions
  BY InsertFacts
<1>6. x.status = "open" /\ x.paper = p.paper
  BY DEF Opening
<1> HIDE DEF x, n
<1>7. /\ Summand(Cost, n) = 0 /\ Summand(Brought, n) = 0 /\ Summand(Won, n) = 0
  BY <1>5 DEF Summand, Cost, Brought, Won, Real
<1>8. /\ Summand(Brought', n) = 0 /\ Summand(Won', n) = 0
      /\ Summand(Cost', n) = IF p.paper THEN 0 ELSE Paid(x)
  <2>1. n \in OpenPositions' /\ (n \in Real' <=> ~p.paper) /\ positions'[n] = x
    BY <1>5, <1>6 DEF Written, OpenPositions, Real
  <2> QED BY <2>1 DEF Summand, Cost, Brought, Won
<1>9. KeepsDeals
  BY <1>5 DEF Written, KeepsDeals
<1>10. Held(a) = 0 /\ Summand(Unbooked, a) = 0
  BY <1>1, <1>3 DEF HeldWell
<1>11. Held(a)' = (IF p.paper THEN 0 ELSE Paid(x)) /\ Summand(Unbooked', a) = 0
  <2>1. ~p.paper => Held(a)' = Paid(positions'[n])
    BY <1>2, <1>3 DEF HeldWell
  <2>2. p.paper => Held(a)' = 0
    BY <1>2, <1>3 DEF HeldWell, Money
  <2>3. actor'[a].pc # "credit"
    BY <1>3 DEF Money
  <2>4. positions'[n] = x
    BY <1>5 DEF Written
  <2> QED BY <1>2, <2>1, <2>2, <2>3, <2>4 DEF HeldWell
<1>12. /\ Sum(Cost) \in Int /\ Sum(Cost') \in Int
       /\ Summand(Cost, n) \in Int /\ Summand(Cost', n) \in Int
       /\ Sum(Cost') = Sum(Cost) + Summand(Cost', n) - Summand(Cost, n)
       /\ Sum(Brought) \in Int /\ Sum(Brought') \in Int
       /\ Sum(Brought') = Sum(Brought) + Summand(Brought', n) - Summand(Brought, n)
       /\ Sum(Won) \in Int /\ Sum(Won') \in Int
       /\ Sum(Won') = Sum(Won) + Summand(Won', n) - Summand(Won, n)
  BY <1>5, RowsMove
<1> DEFINE m == IF p.paper THEN 0 ELSE Paid(x)
<1>13. m \in Int /\ Sum(Cost') = Sum(Cost) + m /\ Sum(Brought') = Sum(Brought)
       /\ Sum(Won') = Sum(Won)
  BY <1>7, <1>8, <1>12
<1>14. Held(a)' = m
  BY <1>11
<1> HIDE DEF m
<1>15. Rows' = Rows + m /\ Rows \in Int /\ cash \in Int /\ realized \in Int
  <2>1. Rows' = Sum(Cost') + Sum(Brought') + Sum(ledger)
    BY <1>4 DEF Rows
  <2>2. Sum(ledger) \in Int /\ Rows \in Int /\ cash \in Int /\ realized \in Int
    BY <1>1 DEF RowsTyped
  <2>3. Rows = Sum(Cost) + Sum(Brought) + Sum(ledger)
    BY DEF Rows
  <2> QED BY <1>12, <1>13, <2>1, <2>2, <2>3
<1>16. cash' - cash = (Rows' - Rows) - (Held(a)' - Held(a))
  BY <1>4, <1>10, <1>13, <1>14, <1>15
<1>17. realized' - realized = (Sum(Won') - Sum(Won))
                              - (Summand(Unbooked', a) - Summand(Unbooked, a))
  BY <1>4, <1>10, <1>11, <1>12, <1>13, <1>15
<1>18. Others(a) /\ drift' = drift
  BY <1>3, <1>4 DEF Turns
<1> QED BY <1>9, <1>16, <1>17, <1>18 DEF BooksMove

LEMMA CloseMove ==
  ASSUME TypeInv, TypeInv', NEW a \in Actors, ClosePosition(a)
  PROVE  BooksMove(a)
<1> DEFINE p == actor[a]
           i == p.position
           x == Closed(p)
           y == positions[i]
<1>1. RowsTyped /\ HeldWell
  BY RowsType, HeldType
<1>2. HeldWell'
  BY HeldType, PTL
<1>3. /\ Turns(a) /\ p.pc = "close"
      /\ y.paper => actor'[a].pc \notin Money
      /\ ~y.paper => /\ actor'[a].pc = "credit" /\ actor'[a].position = i
                     /\ actor'[a].price = p.price
  BY CloseShape
<1>4. /\ UNCHANGED <<cash, realized, ledger>>
      /\ drift' = IF i \in OpenPositions \/ y.paper THEN drift
                  ELSE drift \cup {"closed twice"}
  BY DEF ClosePosition
<1>5. Written(positions, positions', i, x) /\ Real' = Real
  BY CloseFacts
<1>6. /\ i \in DOMAIN positions /\ y \in Position /\ x \in Position /\ x.status = "closed"
      /\ x.exit = p.price /\ x.entry = y.entry /\ x.quantity = y.quantity
      /\ x.direction = y.direction
  BY <1>3, ClosedFacts
<1> HIDE DEF x, i
<1>7. KeepsDeals
  BY <1>5, <1>6 DEF Written, KeepsDeals
<1>8. Others(a) /\ drift \subseteq drift'
  BY <1>3, <1>4 DEF Turns
<1>9. CASE i \notin OpenPositions /\ ~y.paper
  <2>1. "closed twice" \in drift'
    BY <1>4, <1>9
  <2> QED BY <1>7, <1>8, <2>1, LostMove
<1>10. ASSUME i \in OpenPositions \/ y.paper PROVE BooksMove(a)
  <2> DEFINE m == IF y.paper THEN 0 ELSE Returned(x)
             w == IF y.paper THEN 0 ELSE calculatePnl(x)
  <2>1. positions'[i] = x /\ (i \in Real <=> ~y.paper) /\ i \notin OpenPositions'
    BY <1>5, <1>6 DEF Written, Real, OpenPositions
  <2>2. Summand(Cost', i) = Summand(Cost, i)
    <3>1. Paid(x) = Paid(y)
      BY <1>6, SameDeal
    <3> QED BY <1>5, <2>1, <3>1 DEF Summand, Cost
  <2>3. Summand(Brought, i) = 0 /\ Summand(Won, i) = 0
    BY <1>10, <2>1 DEF Summand, Brought, Won
  <2>4. Summand(Brought', i) = m /\ Summand(Won', i) = w
    BY <1>5, <2>1 DEF Summand, Brought, Won
  <2>5. Held(a) = 0 /\ Summand(Unbooked, a) = 0
    BY <1>1, <1>3 DEF HeldWell
  <2>6. Held(a)' = m /\ Summand(Unbooked', a) = w
    <3>1. CASE y.paper
      BY <1>2, <1>3, <3>1 DEF HeldWell, Money
    <3>2. CASE ~y.paper
      <4> DEFINE z == [positions'[i] EXCEPT !.exit = p.price]
      <4>1. Closing(actor[a])' = z
        BY <1>3, <3>2 DEF Closing
      <4>2. Held(a)' = Returned(z) /\ Summand(Unbooked', a) = calculatePnl(z)
        <5>1. actor'[a].pc = "credit"
          BY <1>3, <3>2
        <5>2. /\ Held(a)' = Returned(Closing(actor[a])')
              /\ Summand(Unbooked', a) = calculatePnl(Closing(actor[a])')
          BY <1>2, <5>1 DEF HeldWell
        <5> QED BY <4>1, <5>2
      <4>3. /\ z.quantity = x.quantity /\ z.entry = x.entry /\ z.direction = x.direction
            /\ z.exit = x.exit
        BY <1>6, <2>1 DEF Position
      <4> HIDE DEF z
      <4>4. Returned(z) = Returned(x) /\ calculatePnl(z) = calculatePnl(x)
        BY <4>3, SameDeal
      <4> QED BY <3>2, <4>2, <4>4
    <3> QED BY <3>1, <3>2
  <2>7. /\ Sum(Cost) \in Int /\ Sum(Cost') \in Int
        /\ Summand(Cost, i) \in Int /\ Summand(Cost', i) \in Int
        /\ Sum(Cost') = Sum(Cost) + Summand(Cost', i) - Summand(Cost, i)
        /\ Sum(Brought) \in Int /\ Sum(Brought') \in Int
        /\ Summand(Brought', i) \in Int
        /\ Sum(Brought') = Sum(Brought) + Summand(Brought', i) - Summand(Brought, i)
        /\ Sum(Won) \in Int /\ Sum(Won') \in Int /\ Summand(Won', i) \in Int
        /\ Sum(Won') = Sum(Won) + Summand(Won', i) - Summand(Won, i)
    BY <1>5, RowsMove
  <2> HIDE DEF m, w
  <2>8. /\ m \in Int /\ w \in Int /\ Sum(Cost') = Sum(Cost)
        /\ Sum(Brought') = Sum(Brought) + m /\ Sum(Won') = Sum(Won) + w
    BY <2>2, <2>3, <2>4, <2>7
  <2>9. Rows' = Rows + m /\ Rows \in Int /\ cash \in Int /\ realized \in Int
    <3>1. Rows' = Sum(Cost') + Sum(Brought') + Sum(ledger)
      BY <1>4 DEF Rows
    <3>2. Sum(ledger) \in Int /\ Rows \in Int /\ cash \in Int /\ realized \in Int
      BY <1>1 DEF RowsTyped
    <3>3. Rows = Sum(Cost) + Sum(Brought) + Sum(ledger)
      BY DEF Rows
    <3> QED BY <2>7, <2>8, <3>1, <3>2, <3>3
  <2>10. cash' = cash /\ realized' = realized
    BY <1>4
  <2>11. cash' - cash = (Rows' - Rows) - (Held(a)' - Held(a))
    BY <2>5, <2>6, <2>8, <2>9, <2>10
  <2>12. realized' - realized = (Sum(Won') - Sum(Won))
                               - (Summand(Unbooked', a) - Summand(Unbooked, a))
    BY <2>5, <2>6, <2>7, <2>8, <2>9, <2>10
  <2> QED BY <1>7, <1>8, <2>11, <2>12 DEF BooksMove
<1> QED BY <1>9, <1>10

LEMMA MovingBooks ==
  ASSUME TypeInv, TypeInv', NEW a \in Actors, Moving(a)
  PROVE  BooksMove(a)
<1>1. Others(a)
  BY MovingTurns DEF Turns
<1>2. CASE CheckStatus(a) \/ UpdateStatus(a)
  <2>1. UNCHANGED <<positions, ledger, cash, realized, drift>>
    BY <1>2 DEF CheckStatus, UpdateStatus, books, history
  <2>2. actor[a].pc \in {"check", "status"}
    BY <1>2 DEF CheckStatus, UpdateStatus
  <2>3. actor'[a].pc \notin {"cash", "credit", "topup"}
    <3>1. CheckStatus(a) => actor'[a].pc \notin Money \/ actor'[a].pc = "status"
      BY CheckShape
    <3>2. UpdateStatus(a) => actor'[a].pc \notin Money
      BY OnwardShape
    <3> QED BY <1>2, <3>1, <3>2 DEF Money
  <2> QED BY <1>1, <2>1, <2>2, <2>3, QuietMove
<1>3. CASE StatementFails(a) /\ actor[a].pc \in Money \cup {"close"}
  <2>1. UNCHANGED <<positions, ledger, cash, realized>> /\ drift \subseteq drift'
    BY <1>3 DEF StatementFails, books
  <2>2. KeepsDeals
    BY <2>1 DEF KeepsDeals
  <2>3. CASE "lost update" \in drift'
    BY <1>1, <2>1, <2>2, <2>3, LostMove
  <2>4. CASE actor[a].pc \in {"check", "status"}
    <3>1. drift' = drift
      BY <1>3, <2>4 DEF StatementFails
    <3>2. actor'[a].pc \notin {"cash", "credit", "topup"}
      BY <1>3, <2>4, OnwardShape DEF Money
    <3> QED BY <1>1, <2>1, <2>4, <3>1, <3>2, QuietMove
  <2>5. CASE actor[a].pc = "close" /\ positions[actor[a].position].paper
    <3>1. drift' = drift
      BY <1>3, <2>5 DEF StatementFails
    <3>2. actor'[a].pc \notin {"cash", "credit", "topup"}
      BY <1>3, <2>5, CloseShape DEF Money
    <3> QED BY <1>1, <2>1, <2>5, <3>1, <3>2, QuietMove
  <2>6. \/ "lost update" \in drift'
        \/ actor[a].pc \in {"check", "status"}
        \/ actor[a].pc = "close" /\ positions[actor[a].position].paper
    BY <1>3 DEF StatementFails, Money
  <2> QED BY <2>3, <2>4, <2>5, <2>6
<1> QED BY <1>2, <1>3, InsertMove, CashMove, CloseMove, CreditMove, BailoutMove, TopUpMove
      DEF Moving

(* Runs that die with nothing to book leave the books as they are. *)
LEMMA CrashBooks ==
  ASSUME TypeInv, Balance, Crash
  PROVE  Balance'
<1>1. /\ UNCHANGED <<positions, ledger, cash, realized>>
      /\ drift' = IF \E a \in Actors : actor[a].pc \in {"cash", "credit", "topup"}
                  THEN drift \cup {"lost update"} ELSE drift
      /\ \A a \in Actors : actor'[a] = Idle
  BY DEF Crash, books
<1>2. CASE \E a \in Actors : actor[a].pc \in {"cash", "credit", "topup"}
  <2>1. "lost update" \in drift'
    BY <1>1, <1>2
  <2> QED BY <2>1 DEF Balance
<1>3. CASE ~\E a \in Actors : actor[a].pc \in {"cash", "credit", "topup"}
  <2>1. At("cash") = {} /\ At("credit") = {} /\ At("topup") = {}
    BY <1>3 DEF At
  <2>2. At("cash")' = {} /\ At("credit")' = {} /\ At("topup")' = {}
    BY <1>1, IdleFacts DEF At
  <2>3. /\ Unpaid' = Unpaid /\ Unreturned' = Unreturned
        /\ Unbooked' = Unbooked /\ Promised' = Promised
    BY <2>1, <2>2 DEF Unpaid, Unreturned, Unbooked, Promised
  <2>4. Rows' = Rows /\ Sum(Won') = Sum(Won)
    BY <1>1, RowsSame
  <2>5. Owed' = Owed /\ drift' = drift
    BY <1>1, <1>3, <2>3 DEF Owed
  <2> QED BY <1>1, <2>3, <2>4, <2>5 DEF Balance
<1> QED BY <1>2, <1>3

LEMMA BooksKept ==
  ASSUME TypeInv, TypeInv', Balance, [Next]_vars
  PROVE  Balance'
<1>1. ASSUME NEW a \in Actors, Calm(a), Steady PROVE Balance'
  <2>1. /\ UNCHANGED <<positions, ledger, cash, realized, drift>>
        /\ actor[a].pc \notin {"cash", "credit", "topup"}
        /\ actor'[a].pc \notin {"cash", "credit", "topup"} /\ Others(a)
    BY <1>1 DEF Calm, Steady, Money
  <2> QED BY <2>1, QuietMove, Balanced
<1>2. ASSUME NEW a \in Actors, Moving(a) PROVE Balance'
  BY <1>2, MovingBooks, Balanced
<1>3. CASE UNCHANGED actor /\ Steady
  <2>1. UNCHANGED <<positions, ledger, cash, realized, drift, actor>>
    BY <1>3 DEF Steady
  <2>2. Rows' = Rows /\ Sum(Won') = Sum(Won)
    BY <2>1, RowsSame
  <2>3. /\ Unpaid' = Unpaid /\ Unreturned' = Unreturned
        /\ Unbooked' = Unbooked /\ Promised' = Promised
    BY <2>1 DEF Unpaid, Unreturned, Unbooked, Promised, At, Closing
  <2> QED BY <2>1, <2>2, <2>3 DEF Balance, Owed
<1> QED BY <1>1, <1>2, <1>3, CrashBooks, MoneySteps

LEMMA SumNone ==
  ASSUME NEW f, DOMAIN f = {}, f \in [DOMAIN f -> Int]
  PROVE  Sum(f) = 0
<1>1. f = [x \in {} |-> 0]
  OBVIOUS
<1>2. IsFiniteSet({})
  BY FS_EmptySet
<1>3. Sum([x \in {} |-> 0]) = 0
  BY <1>2, SumZero
<1> QED BY <1>1, <1>3

LEMMA FirstBalance == Init => Balance
<1> SUFFICES ASSUME Init PROVE Balance
  OBVIOUS
<1>1. BooksTyped
  BY InitTypes, BooksType
<1>2. Real = {} /\ Real \ OpenPositions = {}
  BY NoPositions
<1>3. \A a \in Actors : actor[a].pc \notin {"cash", "credit", "topup"}
  BY NoPositions, IdleFacts
<1>4. At("cash") = {} /\ At("credit") = {} /\ At("topup") = {}
  BY <1>3 DEF At
<1>5. DOMAIN ledger = {}
  BY DEF Init
<1>6. Sum(Cost) = 0 /\ Sum(Brought) = 0 /\ Sum(Won) = 0
  BY <1>1, <1>2, SumNone DEF BooksTyped
<1>7. Sum(Unpaid) = 0 /\ Sum(Unreturned) = 0 /\ Sum(Unbooked) = 0 /\ Sum(Promised) = 0
  BY <1>1, <1>4, SumNone DEF BooksTyped
<1>8. Sum(ledger) = 0
  BY <1>1, <1>5, SumNone DEF BooksTyped
<1>9. cash = InitialBalance /\ realized = 0
  BY DEF Init
<1>10. InitialBalance \in Int
  BY Bounds
<1> QED BY <1>6, <1>7, <1>8, <1>9, <1>10 DEF Balance, Rows, Owed

(* The cash is what the positions and the top-ups make it and the profit that
   of the closed positions, whatever the runs of the four jobs do to each
   other, up to what they have still to book: only a row closed twice, a
   failed or forgotten statement, and a reset over money that moved or was
   above its target ever break that.                                       *)
THEOREM BooksAlwaysBalance == Spec => []BooksBalance
<1>1. Init => TypeInv /\ Balance
  BY InitTypes, FirstBalance
<1>2. TypeInv /\ Balance /\ [Next]_vars => (TypeInv /\ Balance)'
  <2> SUFFICES ASSUME TypeInv, Balance, [Next]_vars PROVE TypeInv' /\ Balance'
    OBVIOUS
  <2>1. TypeInv'
    BY TypeStep
  <2> QED BY <2>1, BooksKept
<1>3. TypeInv /\ Balance => BooksBalance
  BY BalanceIs
<1> QED BY <1>1, <1>2, <1>3, PTL DEF Spec

=============================================================================
