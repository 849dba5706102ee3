--------------------------- MODULE EvaluationProofs ---------------------------
(***************************************************************************)
(* Theorems about Evaluation for any number of runs, horizons, predictions *)
(* and failures: its type invariant, that a prediction counts once at a    *)
(* horizon, that no horizon is passed over, and that every evaluation is   *)
(* attributed.                                                             *)
(***************************************************************************)
EXTENDS Evaluation, FiniteSetTheorems, WellFoundedInduction, TLAPS

USE ConstantsAssumption

-----------------------------------------------------------------------------
(* The inductive invariant *)

Row == [id : Nat \ {0}, created : Nat, confident : BOOLEAN]

Flag == [prediction : Nat \ {0}, date : Nat]

State == [pc : {"idle", "evaluate", "flag", "attribute"}, since : Nat,
          horizons : SUBSET Horizons, horizon : Horizons \cup {0},
          todo : SUBSET (Row \cup Flag \cup Nat)]

(* What the records a run holds are about exists. *)
StateOK(p) ==
  /\ p.since <= Len(evaluations)
  /\ p.pc = "idle" => p = Idle
  /\ p.pc = "evaluate" => /\ p.todo \subseteq Row
                          /\ p.todo # {} => p.horizon \in Horizons
                          /\ \A row \in p.todo : row.id \in DOMAIN predictions
  /\ p.pc = "flag" => /\ p.todo \subseteq Flag
                      /\ \A c \in p.todo : c.prediction \in DOMAIN predictions
  /\ p.pc = "attribute" => /\ p.todo \subseteq DOMAIN evaluations
                           /\ \A e \in p.todo : e > p.since

TableInv ==
  /\ now \in 0..MaxTime
  /\ predictions \in Seq(Prediction)
  /\ evaluations \in Seq(Evaluated)
  /\ \A e \in DOMAIN evaluations : evaluations[e].prediction \in DOMAIN predictions
  /\ \A c \in canonical : c.prediction \in DOMAIN predictions /\ c.date \in Nat
  /\ outcomes \subseteq DOMAIN evaluations
  /\ \A p, q \in Active : p = q

RunInv ==
  /\ actor \in [Runs -> State]
  /\ \A a \in Runs : StateOK(actor[a])

TypeInv == TableInv /\ RunInv

(* A pair is not recorded twice, nor selected once it is recorded, unless two
   runs had selected it.                                                   *)
Once(p, h) ==
  <<p, h>> \notin raced =>
    /\ \A e, f \in EvaluatedAt(p, h) : e = f
    /\ \A a \in Runs : Selected(a, p, h) => EvaluatedAt(p, h) = {}

CountInv ==
  /\ \A p \in Nat, h \in Horizons : Once(p, h)
  /\ \A a \in Runs : actor[a].pc = "evaluate" =>
       \A r, s \in actor[a].todo : r.id = s.id => r = s

(* Two evaluations of the prediction say that it was wrong. *)
WrongTwice(p) ==
  \E e, f \in Of(p) : e # f /\ ~evaluations[e].correct /\ ~evaluations[f].correct

DayInv ==
  /\ \A c \in canonical : WrongTwice(c.prediction)
  /\ \A a \in Runs : actor[a].pc = "flag" =>
       \A c \in actor[a].todo : WrongTwice(c.prediction)

(* The run will attribute the evaluation, or fail to. *)
Holds(a, e) ==
  \/ actor[a].pc \in {"evaluate", "flag"} /\ e > actor[a].since
  \/ actor[a].pc = "attribute" /\ e \in actor[a].todo

AttributionInv ==
  \A e \in DOMAIN evaluations \ (outcomes \cup lost) : \E a \in Runs : Holds(a, e)

(* What was selected and recorded of a pair is what the row still says. *)
MadeInv ==
  \A p \in DOMAIN predictions, h \in Horizons : <<p, h>> \notin inherited =>
    /\ \A e \in EvaluatedAt(p, h) : evaluations[e].made = predictions[p].created
    /\ \A a \in Runs : actor[a].pc = "evaluate" /\ actor[a].horizon = h =>
         \A row \in actor[a].todo : row.id = p => row.created = predictions[p].created

LastMidnight == now - (now % Day)

(* The night for the pair has come. *)
Due(p, h) ==
  /\ predictions[p].created < LastMidnight - Day * h
  /\ Comparable(predictions[p].created, h)
  /\ <<p, h>> \notin missed \cup inherited

(* A run will record the pair, or fail to. *)
Coming(p, h) ==
  /\ InWindow(predictions[p].created, h)
  /\ \E a \in Runs : actor[a].pc = "evaluate" /\ (h \in actor[a].horizons \/ Selected(a, p, h))

WindowInv ==
  \A p \in DOMAIN predictions, h \in Horizons :
    Due(p, h) => EvaluatedAt(p, h) # {} \/ Coming(p, h)

IInv == TypeInv /\ CountInv /\ DayInv /\ AttributionInv /\ MadeInv /\ WindowInv

-----------------------------------------------------------------------------
(* Sequences and sets *)

LEMMA AppendFacts ==
  ASSUME NEW S, NEW s \in Seq(S), NEW x \in S
  PROVE  /\ Append(s, x) \in Seq(S)
         /\ Len(Append(s, x)) = Len(s) + 1
         /\ DOMAIN Append(s, x) = DOMAIN s \cup {Len(s) + 1}
         /\ Append(s, x)[Len(s) + 1] = x
         /\ Len(s) + 1 \notin DOMAIN s
         /\ \A i \in DOMAIN s : Append(s, x)[i] = s[i]
OBVIOUS

LEMMA DomainFacts ==
  ASSUME NEW S, NEW s \in Seq(S)
  PROVE  /\ Len(s) \in Nat
         /\ DOMAIN s = 1..Len(s)
         /\ \A i \in DOMAIN s : s[i] \in S /\ i \in Nat \ {0}
OBVIOUS

(* A set of naturals has a least element by a number of its elements. *)
LEMMA LeastBy ==
  ASSUME NEW T, T # {}, NEW f, \A x \in T : f[x] \in Nat
  PROVE  \E x \in T : \A y \in T : f[x] <= f[y]
<1> DEFINE V == {f[x] : x \in T}
           Less == {xy \in Nat \X Nat : xy[1] < xy[2]}
<1>1. V \subseteq Nat /\ V # {}
  OBVIOUS
<1>2. \E m \in V : \A n \in V : ~(<<n, m>> \in Less)
  <2>1. IsWellFoundedOn(Less, Nat)
    BY NatLessThanWellFounded DEF OpToRel
  <2> QED BY <1>1, <2>1, WFMin
<1>3. PICK m \in V : \A n \in V : ~(<<n, m>> \in Less)
  BY <1>2
<1>4. ASSUME NEW n \in V PROVE m <= n
  <2>1. m \in Nat /\ n \in Nat
    BY <1>1, <1>3
  <2>2. n < m => <<n, m>> \in Less
    BY <2>1
  <2> QED BY <1>3, <2>1, <2>2
<1>5. PICK x \in T : f[x] = m
  BY <1>3
<1> QED BY <1>4, <1>5

-----------------------------------------------------------------------------
(* Facts of a state *)

LEMMA StateFacts ==
  ASSUME TypeInv
  PROVE  /\ Len(predictions) \in Nat /\ DOMAIN predictions = 1..Len(predictions)
         /\ \A p \in DOMAIN predictions : predictions[p] \in Prediction /\ p \in Nat \ {0}
         /\ Len(evaluations) \in Nat /\ DOMAIN evaluations = 1..Len(evaluations)
         /\ \A e \in DOMAIN evaluations : evaluations[e] \in Evaluated /\ e \in Nat \ {0}
  BY DomainFacts DEF TypeInv, TableInv

(* The day a prediction was made on is a number. *)
LEMMA DateIsNat ==
  ASSUME TypeInv, NEW p, Of(p) # {}
  PROVE  DateOf(p) \in Nat
<1> DEFINE f == [e \in Of(p) |-> evaluations[e].made]
<1>1. \A e \in Of(p) : f[e] \in Nat /\ evaluations[e].made \in Nat
  BY StateFacts DEF Of, Evaluated
<1>2. \E e \in Of(p) : \A g \in Of(p) : f[e] <= f[g]
  <2> HIDE DEF f
  <2> QED BY <1>1, LeastBy
<1>3. \E e \in Of(p) : \A g \in Of(p) : evaluations[e].made <= evaluations[g].made
  BY <1>2
<1> DEFINE first == CHOOSE e \in Of(p) : \A g \in Of(p) : evaluations[e].made <= evaluations[g].made
<1>4. first \in Of(p)
  BY <1>3
<1> QED BY <1>1, <1>4 DEF DateOf, Day

(* Twice is with two different evaluations. *)
LEMMA FailedIsWrongTwice ==
  ASSUME TypeInv, NEW p \in FailedThroughout
  PROVE  WrongTwice(p) /\ Of(p) # {}
<1>1. IsFiniteSet(Of(p)) /\ Cardinality(Of(p)) \in Nat
  <2>1. Of(p) \subseteq 1..Len(evaluations) /\ Len(evaluations) \in Int
    BY StateFacts DEF Of
  <2>2. IsFiniteSet(1..Len(evaluations))
    BY <2>1, FS_Interval
  <2> QED BY <2>1, <2>2, FS_Subset, FS_CardinalityType
<1>2. Cardinality(Of(p)) >= 2
  BY DEF FailedThroughout
<1>3. Of(p) # {}
  BY <1>2, FS_EmptySet
<1>4. PICK e \in Of(p) : TRUE
  BY <1>3
<1>5. Of(p) # {e}
  BY <1>2, FS_Singleton
<1>6. PICK f \in Of(p) : f # e
  BY <1>4, <1>5
<1> QED BY <1>3, <1>4, <1>6 DEF WrongTwice, FailedThroughout

-----------------------------------------------------------------------------
(* Types *)

LEMMA InitInv == Init => IInv
<1> SUFFICES ASSUME Init PROVE IInv
  OBVIOUS
<1>1. TypeInv
  BY DEF Init, TypeInv, TableInv, RunInv, StateOK, State, Idle, Active, Prediction, Evaluated
<1> QED BY <1>1 DEF Init, IInv, CountInv, Once, DayInv, AttributionInv, MadeInv, WindowInv,
                    EvaluatedAt, Idle, Selected

(* A run that goes on in another state, over tables that stay. *)
LEMMA NewState ==
  ASSUME TypeInv, NEW a \in Runs, NEW s \in State, Set(a, s), StateOK(s),
         UNCHANGED <<predictions, evaluations>>
  PROVE  RunInv'
<1>1. actor' \in [Runs -> State] /\ actor'[a] = s
  BY DEF Set, TypeInv, RunInv
<1>2. \A b \in Runs \ {a} : actor'[b] = actor[b]
  BY DEF Set, TypeInv, RunInv
<1>3. \A b \in Runs : StateOK(actor'[b])
  BY <1>1, <1>2 DEF TypeInv, RunInv
<1> QED BY <1>1, <1>3 DEF RunInv, StateOK

(* Fewer rows, days or evaluations are left. *)
LEMMA LessTodo ==
  ASSUME TypeInv, NEW p \in State, StateOK(p), NEW x
  PROVE  LET q == [p EXCEPT !.todo = @ \ {x}]
         IN q \in State /\ (p.pc # "idle" => StateOK(q))
<1> DEFINE q == [p EXCEPT !.todo = @ \ {x}]
<1>1. q \in State /\ q.todo = p.todo \ {x}
  BY DEF State
<1>2. q.pc = p.pc /\ q.since = p.since /\ q.horizons = p.horizons /\ q.horizon = p.horizon
  BY DEF State
<1> HIDE DEF q
<1>3. p.pc # "idle" => StateOK(q)
  BY <1>1, <1>2 DEF StateOK
<1> QED BY <1>1, <1>3 DEF q

LEMMA StartTypes ==
  ASSUME TypeInv, NEW a \in Runs, StartRun(a), UNCHANGED table
  PROVE  RunInv'
<1> DEFINE s == [pc |-> "evaluate", since |-> Len(evaluations), horizons |-> Horizons,
                 horizon |-> 0, todo |-> {}]
<1>2. s \in State /\ StateOK(s)
  BY StateFacts DEF State, StateOK
<1> QED BY <1>2, NewState DEF StartRun, table

LEMMA PublishTypes ==
  ASSUME TypeInv, NEW confident \in Confidences, Publish(confident)
  PROVE  TypeInv'
<1> DEFINE new == [confident |-> confident, created |-> now, settled |-> FALSE]
<1>1. new \in Prediction /\ UNCHANGED <<now, evaluations, canonical, outcomes, actor>>
  BY DEF Publish, Prediction, TypeInv, TableInv
<1>2. CASE Active = {} /\ predictions' = Append(predictions, new)
  <2>1. /\ predictions' \in Seq(Prediction)
        /\ DOMAIN predictions' = DOMAIN predictions \cup {Len(predictions) + 1}
        /\ \A p \in DOMAIN predictions : predictions'[p] = predictions[p]
    BY <1>1, <1>2, AppendFacts DEF TypeInv, TableInv
  <2>2. \A p, q \in Active' : p = q
    BY <1>2, <2>1 DEF Active
  <2> QED BY <1>1, <2>1, <2>2 DEF TypeInv, TableInv, RunInv, StateOK
<1>3. ASSUME NEW p \in Active, predictions' = [predictions EXCEPT ![p] = new]
      PROVE  TypeInv'
  <2>1. /\ predictions' \in Seq(Prediction)
        /\ DOMAIN predictions' = DOMAIN predictions
        /\ \A q \in DOMAIN predictions : q # p => predictions'[q] = predictions[q]
    BY <1>1, <1>3, StateFacts DEF TypeInv, TableInv, Active
  <2>2. \A q, r \in Active' : q = r
    BY <1>3, <2>1 DEF Active, TypeInv, TableInv
  <2> QED BY <1>1, <2>1, <2>2 DEF TypeInv, TableInv, RunInv, StateOK
<1> QED BY <1>2, <1>3 DEF Publish

LEMMA SettleTypes ==
  ASSUME TypeInv, MarkSettled
  PROVE  TypeInv'
<1>1. UNCHANGED <<now, evaluations, canonical, outcomes, actor>>
  BY DEF MarkSettled
<1> DEFINE f(p) == [predictions[p] EXCEPT !.settled = TRUE]
<1>2. \A p \in DOMAIN predictions : f(p) \in Prediction /\ f(p).settled
  BY StateFacts DEF Prediction
<1>3. predictions' = [p \in 1..Len(predictions) |-> f(p)]
  BY StateFacts DEF MarkSettled
<1> HIDE DEF f
<1>4. /\ predictions' \in Seq(Prediction)
      /\ DOMAIN predictions' = DOMAIN predictions
      /\ \A p \in DOMAIN predictions : predictions'[p].settled
  BY <1>2, <1>3, StateFacts
<1> QED BY <1>1, <1>4 DEF TypeInv, TableInv, RunInv, StateOK, Active

LEMMA EvaluateTypes ==
  ASSUME TypeInv, NEW a \in Runs, NEW row, NEW correct \in BOOLEAN, Evaluate(a, row, correct)
  PROVE  TypeInv'
<1> DEFINE new == [prediction |-> row.id, horizon |-> actor[a].horizon, made |-> row.created,
                   confident |-> row.confident, correct |-> correct]
           s == [actor[a] EXCEPT !.todo = @ \ {row}]
<1>1. /\ row \in actor[a].todo /\ actor[a].pc = "evaluate"
      /\ row \in Row /\ row.id \in DOMAIN predictions /\ actor[a].horizon \in Horizons
      /\ actor[a] \in State /\ StateOK(actor[a])
  BY DEF Evaluate, FirstRow, TypeInv, RunInv, StateOK
<1>2. UNCHANGED <<now, predictions, canonical, outcomes>> /\ Set(a, s)
  BY DEF Evaluate
<1>3. s \in State /\ StateOK(s)
  BY <1>1, LessTodo
<1> HIDE DEF s
<1>4. CASE evaluations' = evaluations
  BY <1>2, <1>3, <1>4, NewState DEF TypeInv, TableInv, Active
<1>5. CASE evaluations' = Append(evaluations, new)
  <2>1. new \in Evaluated
    BY <1>1 DEF Evaluated, Row
  <2>2. /\ evaluations' \in Seq(Evaluated)
        /\ Len(evaluations') = Len(evaluations) + 1
        /\ DOMAIN evaluations' = DOMAIN evaluations \cup {Len(evaluations) + 1}
        /\ \A e \in DOMAIN evaluations : evaluations'[e] = evaluations[e]
        /\ evaluations'[Len(evaluations) + 1] = new
    BY <1>5, <2>1, AppendFacts DEF TypeInv, TableInv
  <2>3. TableInv'
    BY <1>1, <1>2, <2>2 DEF TypeInv, TableInv, Active
  <2>4. actor' \in [Runs -> State] /\ actor'[a] = s /\ \A b \in Runs \ {a} : actor'[b] = actor[b]
    BY <1>2, <1>3 DEF Set, TypeInv, RunInv
  <2>5. \A b \in Runs : StateOK(actor'[b]) /\ actor'[b].since \in Nat
    BY <1>3, <2>4 DEF TypeInv, RunInv, State
  <2>6. \A b \in Runs : StateOK(actor[b])'
    BY <1>2, <2>2, <2>5, StateFacts DEF StateOK
  <2> QED BY <2>3, <2>4, <2>6 DEF TypeInv, RunInv
<1> QED BY <1>4, <1>5 DEF Evaluate

LEMMA FindTypes ==
  ASSUME TypeInv, NEW a \in Runs, NEW h, FindPendingEvaluations(a, h)
  PROVE  TypeInv'
<1> DEFINE rows == {SelectedRow(q) : q \in Pending(h)}
           s == [actor[a] EXCEPT !.horizon = h, !.horizons = @ \ {h}, !.todo = rows]
<1>1. /\ actor[a].pc = "evaluate" /\ h \in Horizons
      /\ actor[a] \in State /\ StateOK(actor[a])
      /\ UNCHANGED <<now, predictions, evaluations, canonical, outcomes>> /\ Set(a, s)
  BY DEF FindPendingEvaluations, First, TypeInv, RunInv, State, table
<1>2. \A row \in rows : row \in Row /\ row.id \in DOMAIN predictions
  BY StateFacts DEF SelectedRow, Pending, Row, Prediction
<1> HIDE DEF rows
<1>3. s \in State /\ s.todo = rows /\ s.horizon = h /\ s.pc = "evaluate" /\ s.since = actor[a].since
  BY <1>1, <1>2 DEF State
<1>4. StateOK(s)
  BY <1>1, <1>2, <1>3 DEF StateOK
<1> HIDE DEF s
<1> QED BY <1>1, <1>3, <1>4, NewState DEF TypeInv, TableInv, Active

LEMMA CandidateTypes ==
  ASSUME TypeInv, NEW a \in Runs, FindCandidates(a)
  PROVE  TypeInv'
<1> DEFINE days == {[prediction |-> q, date |-> DateOf(q)] : q \in
                      {r \in FailedThroughout : DateOf(r) \notin {c.date : c \in canonical}}}
           s == [actor[a] EXCEPT !.pc = "flag", !.horizon = 0, !.todo = days]
<1>1. /\ actor[a].pc = "evaluate" /\ actor[a] \in State /\ StateOK(actor[a])
      /\ UNCHANGED <<now, predictions, evaluations, canonical, outcomes>> /\ Set(a, s)
  BY DEF FindCandidates, TypeInv, RunInv, table
<1>2. \A c \in days : c \in Flag /\ c.prediction \in DOMAIN predictions
  <2>1. \A q \in FailedThroughout : DateOf(q) \in Nat /\ q \in DOMAIN predictions
    BY FailedIsWrongTwice, DateIsNat DEF FailedThroughout
  <2> QED BY <2>1, StateFacts DEF Flag
<1> HIDE DEF days
<1>3. s \in State /\ s.todo = days /\ s.pc = "flag" /\ s.since = actor[a].since
  BY <1>1, <1>2 DEF State
<1>4. StateOK(s)
  BY <1>1, <1>2, <1>3 DEF StateOK
<1> HIDE DEF s
<1> QED BY <1>1, <1>3, <1>4, NewState DEF TypeInv, TableInv, Active

LEMMA FlagTypes ==
  ASSUME TypeInv, NEW a \in Runs, NEW day, FlagCanonical(a, day)
  PROVE  TypeInv'
<1> DEFINE s == [actor[a] EXCEPT !.todo = @ \ {day}]
<1>1. /\ actor[a].pc = "flag" /\ actor[a] \in State /\ StateOK(actor[a]) /\ day \in actor[a].todo
      /\ UNCHANGED <<now, predictions, evaluations, outcomes>> /\ Set(a, s)
      /\ canonical' = canonical \cup {day}
  BY DEF FlagCanonical, TypeInv, RunInv
<1>2. s \in State /\ StateOK(s)
  BY <1>1, LessTodo
<1>3. day.prediction \in DOMAIN predictions /\ day.date \in Nat
  BY <1>1 DEF StateOK, Flag
<1> HIDE DEF s
<1> QED BY <1>1, <1>2, <1>3, NewState DEF TypeInv, TableInv, Active

LEMMA AttributeTypes ==
  ASSUME TypeInv, NEW a \in Runs, NEW todo \in SUBSET DOMAIN evaluations, Attribute(a, todo),
         \A e \in todo : e > actor[a].since,
         UNCHANGED <<predictions, evaluations>>
  PROVE  RunInv'
<1> DEFINE s == [actor[a] EXCEPT !.pc = "attribute", !.todo = todo]
<1>1. actor[a] \in State /\ StateOK(actor[a])
  BY DEF TypeInv, RunInv
<1>2. s \in State /\ s.todo = todo /\ s.pc = "attribute" /\ s.since = actor[a].since
  BY <1>1, StateFacts DEF State
<1>3. StateOK(s)
  BY <1>1, <1>2 DEF StateOK
<1>4. Idle \in State /\ StateOK(Idle)
  BY StateFacts DEF Idle, State, StateOK
<1> HIDE DEF s
<1>5. CASE todo = {}
  BY <1>4, <1>5, NewState DEF Attribute
<1>6. CASE todo # {}
  <2>1. Set(a, s)
    BY <1>6 DEF Attribute, s
  <2> QED BY <1>2, <1>3, <2>1, NewState
<1> QED BY <1>5, <1>6

LEMMA ScanTypes ==
  ASSUME TypeInv, NEW a \in Runs, ScanEvaluations(a)
  PROVE  TypeInv'
<1>1. RunInv'
  BY AttributeTypes DEF ScanEvaluations, Unattributed, table
<1> QED BY <1>1 DEF ScanEvaluations, table, TypeInv, TableInv, Active

LEMMA RecordTypes ==
  ASSUME TypeInv, NEW a \in Runs, NEW e, RecordOutcome(a, e)
  PROVE  TypeInv'
<1>1. /\ actor[a].todo \subseteq DOMAIN evaluations /\ e \in actor[a].todo
      /\ \A f \in actor[a].todo : f > actor[a].since
  BY DEF RecordOutcome, First, TypeInv, RunInv, StateOK
<1>2. RunInv'
  BY <1>1, AttributeTypes DEF RecordOutcome
<1> QED BY <1>1, <1>2 DEF RecordOutcome, TypeInv, TableInv, Active

LEMMA FailureTypes ==
  ASSUME TypeInv, NEW a \in Runs, StatementFails(a)
  PROVE  TypeInv'
<1>1. UNCHANGED <<now, predictions, evaluations, canonical, outcomes>>
  BY DEF StatementFails, table
<1>2. actor[a] \in State /\ StateOK(actor[a])
  BY DEF TypeInv, RunInv
<1>3. ASSUME SelectionFails(a) PROVE RunInv'
  <2>1. PICK h : Set(a, [actor[a] EXCEPT !.horizons = @ \ {h}])
    BY <1>3 DEF SelectionFails
  <2> DEFINE s == [actor[a] EXCEPT !.horizons = @ \ {h}]
  <2>2. s \in State /\ s.todo = {} /\ s.pc = "evaluate" /\ s.since = actor[a].since
    BY <1>2, <1>3 DEF State, SelectionFails
  <2>3. StateOK(s)
    BY <1>2, <2>2 DEF StateOK
  <2> HIDE DEF s
  <2>4. Set(a, s)
    BY <2>1 DEF s
  <2> QED BY <1>1, <2>2, <2>3, <2>4, NewState
<1>4. ASSUME EvaluationFails(a) PROVE RunInv'
  <2>1. PICK row : Set(a, [actor[a] EXCEPT !.todo = @ \ {row}])
    BY <1>4 DEF EvaluationFails
  <2>2. actor[a].pc # "idle"
    BY <1>4 DEF EvaluationFails
  <2> QED BY <1>1, <1>2, <2>1, <2>2, LessTodo, NewState
<1>5. ASSUME FlaggingFails(a) PROVE RunInv'
  <2>1. CASE actor[a].pc = "evaluate"
    <3> DEFINE s == [actor[a] EXCEPT !.pc = "flag", !.horizon = 0]
    <3>1. actor[a].todo = {} /\ Set(a, s)
      BY <1>5, <2>1 DEF FlaggingFails
    <3>2. s \in State /\ s.todo = {} /\ s.pc = "flag" /\ s.since = actor[a].since
      BY <1>2, <3>1 DEF State
    <3>3. StateOK(s)
      BY <1>2, <3>2 DEF StateOK
    <3> HIDE DEF s
    <3> QED BY <1>1, <3>1, <3>2, <3>3, NewState
  <2>2. CASE actor[a].pc = "flag"
    <3>1. PICK day : Set(a, [actor[a] EXCEPT !.todo = @ \ {day}])
      BY <1>5, <2>2 DEF FlaggingFails
    <3> QED BY <1>1, <1>2, <2>2, <3>1, LessTodo, NewState
  <2> QED BY <1>5, <2>1, <2>2 DEF FlaggingFails
<1>6. ASSUME AttributionFails(a) PROVE RunInv'
  <2>1. CASE actor[a].pc = "flag"
    <3>1. Idle \in State /\ StateOK(Idle)
      BY StateFacts DEF Idle, State, StateOK
    <3> QED BY <1>1, <1>6, <2>1, <3>1, NewState DEF AttributionFails
  <2>2. CASE actor[a].pc = "attribute"
    <3>1. PICK e : Attribute(a, actor[a].todo \ {e})
      BY <1>6, <2>2 DEF AttributionFails
    <3>2. /\ actor[a].todo \subseteq DOMAIN evaluations
          /\ \A g \in actor[a].todo : g > actor[a].since
      BY <1>2, <2>2 DEF StateOK
    <3> QED BY <1>1, <3>1, <3>2, AttributeTypes
  <2> QED BY <1>6, <2>1, <2>2 DEF AttributionFails
<1> QED BY <1>1, <1>3, <1>4, <1>5, <1>6 DEF StatementFails, TypeInv, TableInv, Active

LEMMA QuietTypes ==
  ASSUME TypeInv, actor' = [a \in Runs |-> Idle] \/ UNCHANGED actor, UNCHANGED table,
         now' \in 0..MaxTime
  PROVE  TypeInv'
<1>1. Idle \in State /\ StateOK(Idle)
  BY StateFacts DEF Idle, State, StateOK
<1>2. RunInv'
  BY <1>1 DEF TypeInv, RunInv, StateOK, table
<1> QED BY <1>2 DEF TypeInv, TableInv, Active, table

LEMMA NextTypes == TypeInv /\ [Next]_vars => TypeInv'
<1> SUFFICES ASSUME TypeInv, [Next]_vars PROVE TypeInv'
  OBVIOUS
<1>1. now \in 0..MaxTime /\ MaxTime \in Nat
  BY DEF TypeInv, TableInv
<1>2. ASSUME NEW a \in Runs, StartRun(a), UNCHANGED table, now' \in 0..MaxTime PROVE TypeInv'
  BY <1>2, StartTypes DEF TypeInv, TableInv, Active, table
<1>3. ASSUME NEW a \in Runs, Run(a) PROVE TypeInv'
  <2>1. ExtraRun(a) => TypeInv'
    BY <1>1, <1>2 DEF ExtraRun
  <2> QED BY <1>3, <2>1, FindTypes, EvaluateTypes, CandidateTypes, FlagTypes, ScanTypes, RecordTypes
          DEF Run
<1>4. ASSUME NEW a \in Runs, Midnight(a) PROVE TypeInv'
  BY <1>1, <1>2, <1>4 DEF Midnight
<1>5. CASE MidnightWithoutRun \/ Noon
  BY <1>1, <1>5, QuietTypes DEF MidnightWithoutRun, Noon
<1>6. CASE Crash \/ UNCHANGED vars
  BY <1>1, <1>6, QuietTypes DEF Crash, vars
<1> QED BY <1>3, <1>4, <1>5, <1>6, PublishTypes, SettleTypes, FailureTypes DEF Next

-----------------------------------------------------------------------------
(* What a step does to a run *)

LEMMA SetFacts ==
  ASSUME TypeInv, NEW a \in Runs, NEW s, Set(a, s)
  PROVE  actor'[a] = s /\ \A b \in Runs \ {a} : actor'[b] = actor[b]
BY DEF Set, TypeInv, RunInv

LEMMA TodoFacts ==
  ASSUME TypeInv, NEW a \in Runs, NEW x, Set(a, [actor[a] EXCEPT !.todo = @ \ {x}])
  PROVE  /\ actor'[a].pc = actor[a].pc
         /\ actor'[a].since = actor[a].since
         /\ actor'[a].horizons = actor[a].horizons
         /\ actor'[a].horizon = actor[a].horizon
         /\ actor'[a].todo = actor[a].todo \ {x}
         /\ \A b \in Runs \ {a} : actor'[b] = actor[b]
<1>1. actor[a] \in State
  BY DEF TypeInv, RunInv
<1> QED BY <1>1, SetFacts DEF State

LEMMA FindFacts ==
  ASSUME TypeInv, NEW a \in Runs, NEW h, FindPendingEvaluations(a, h)
  PROVE  /\ actor[a].pc = "evaluate" /\ actor[a].todo = {} /\ h \in actor[a].horizons /\ h \in Horizons
         /\ actor'[a].pc = "evaluate"
         /\ actor'[a].since = actor[a].since
         /\ actor'[a].horizons = actor[a].horizons \ {h}
         /\ actor'[a].horizon = h
         /\ actor'[a].todo = {SelectedRow(q) : q \in Pending(h)}
         /\ \A b \in Runs \ {a} : actor'[b] = actor[b]
         /\ UNCHANGED <<now, table, history>>
<1> DEFINE rows == {SelectedRow(q) : q \in Pending(h)}
<1>1. Set(a, [actor[a] EXCEPT !.horizon = h, !.horizons = @ \ {h}, !.todo = rows])
  BY DEF FindPendingEvaluations
<1>2. actor[a] \in State
  BY DEF TypeInv, RunInv
<1> HIDE DEF rows
<1>3. /\ actor'[a].pc = actor[a].pc /\ actor'[a].since = actor[a].since
      /\ actor'[a].horizons = actor[a].horizons \ {h} /\ actor'[a].horizon = h
      /\ actor'[a].todo = rows
      /\ \A b \in Runs \ {a} : actor'[b] = actor[b]
  <2> DEFINE s == [actor[a] EXCEPT !.horizon = h, !.horizons = @ \ {h}, !.todo = rows]
  <2>1. /\ s.pc = actor[a].pc /\ s.since = actor[a].since /\ s.horizon = h
        /\ s.horizons = actor[a].horizons \ {h} /\ s.todo = rows
    BY <1>2 DEF State
  <2>2. Set(a, s)
    BY <1>1
  <2> HIDE DEF s
  <2> QED BY <2>1, <2>2, SetFacts
<1>4. actor[a].pc = "evaluate" /\ actor[a].todo = {} /\ h \in actor[a].horizons /\ h \in Horizons
  BY <1>2 DEF FindPendingEvaluations, First, State
<1> QED BY <1>3, <1>4 DEF FindPendingEvaluations, rows

LEMMA EvaluateFacts ==
  ASSUME TypeInv, NEW a \in Runs, NEW row, NEW correct \in BOOLEAN, Evaluate(a, row, correct)
  PROVE  /\ actor[a].pc = "evaluate" /\ row \in actor[a].todo /\ row \in Row
         /\ row.id \in DOMAIN predictions /\ actor[a].horizon \in Horizons
         /\ actor'[a].pc = "evaluate"
         /\ actor'[a].since = actor[a].since
         /\ actor'[a].horizons = actor[a].horizons
         /\ actor'[a].horizon = actor[a].horizon
         /\ actor'[a].todo = actor[a].todo \ {row}
         /\ \A b \in Runs \ {a} : actor'[b] = actor[b]
         /\ UNCHANGED <<now, predictions, canonical, outcomes, missed, inherited, lost>>
<1>1. Set(a, [actor[a] EXCEPT !.todo = @ \ {row}])
  BY DEF Evaluate
<1>2. StateOK(actor[a])
  BY DEF TypeInv, RunInv
<1> QED BY <1>1, <1>2, TodoFacts DEF Evaluate, FirstRow, StateOK

(* The row added, and only when there are two bars to compare. *)
Added(a, row) ==
  /\ DOMAIN evaluations' = DOMAIN evaluations \cup {Len(evaluations) + 1}
  /\ Len(evaluations) + 1 \notin DOMAIN evaluations
  /\ \A e \in DOMAIN evaluations : evaluations'[e] = evaluations[e]
  /\ evaluations'[Len(evaluations) + 1].prediction = row.id
  /\ evaluations'[Len(evaluations) + 1].horizon = actor[a].horizon
  /\ evaluations'[Len(evaluations) + 1].made = row.created
  /\ raced' = IF \E b \in Runs \ {a} : Selected(b, row.id, actor[a].horizon)
              THEN raced \cup {<<row.id, actor[a].horizon>>} ELSE raced

LEMMA EvaluateAdds ==
  ASSUME TypeInv, NEW a \in Runs, NEW row, NEW correct \in BOOLEAN, Evaluate(a, row, correct)
  PROVE  \/ /\ ~Comparable(row.created, actor[a].horizon)
            /\ UNCHANGED <<evaluations, raced>>
         \/ /\ Comparable(row.created, actor[a].horizon)
            /\ Added(a, row)
<1> DEFINE new == [prediction |-> row.id, horizon |-> actor[a].horizon, made |-> row.created,
                   confident |-> row.confident, correct |-> correct]
<1>1. new \in Evaluated
  BY EvaluateFacts DEF Evaluated, Row
<1>2. CASE Comparable(row.created, actor[a].horizon)
  <2>1. evaluations' = Append(evaluations, new)
    BY <1>2 DEF Evaluate
  <2>2. evaluations \in Seq(Evaluated)
    BY DEF TypeInv, TableInv
  <2>3. raced' = IF \E b \in Runs \ {a} : Selected(b, row.id, actor[a].horizon)
                 THEN raced \cup {<<row.id, actor[a].horizon>>} ELSE raced
    BY <1>2 DEF Evaluate
  <2> HIDE DEF new
  <2>4. /\ DOMAIN evaluations' = DOMAIN evaluations \cup {Len(evaluations) + 1}
        /\ Len(evaluations) + 1 \notin DOMAIN evaluations
        /\ \A e \in DOMAIN evaluations : evaluations'[e] = evaluations[e]
        /\ evaluations'[Len(evaluations) + 1] = new
    BY <1>1, <2>1, <2>2, AppendFacts
  <2>5. new.prediction = row.id /\ new.horizon = actor[a].horizon /\ new.made = row.created
    BY DEF new
  <2> QED BY <1>2, <2>3, <2>4, <2>5 DEF Added
<1>3. CASE ~Comparable(row.created, actor[a].horizon)
  BY <1>3 DEF Evaluate
<1> QED BY <1>2, <1>3

LEMMA CandidateFacts ==
  ASSUME TypeInv, NEW a \in Runs, FindCandidates(a)
  PROVE  /\ actor[a].pc = "evaluate" /\ actor[a].todo = {} /\ actor[a].horizons = {}
         /\ actor'[a].pc = "flag"
         /\ actor'[a].since = actor[a].since
         /\ \A c \in actor'[a].todo : c.prediction \in FailedThroughout
         /\ \A b \in Runs \ {a} : actor'[b] = actor[b]
         /\ UNCHANGED <<now, table, history>>
<1> DEFINE days == {[prediction |-> q, date |-> DateOf(q)] : q \in
                      {r \in FailedThroughout : DateOf(r) \notin {c.date : c \in canonical}}}
<1>1. Set(a, [actor[a] EXCEPT !.pc = "flag", !.horizon = 0, !.todo = days])
  BY DEF FindCandidates
<1>2. actor[a] \in State
  BY DEF TypeInv, RunInv
<1>3. \A c \in days : c.prediction \in FailedThroughout
  OBVIOUS
<1> HIDE DEF days
<1>4. /\ actor'[a].pc = "flag" /\ actor'[a].since = actor[a].since /\ actor'[a].todo = days
      /\ \A b \in Runs \ {a} : actor'[b] = actor[b]
  <2> DEFINE s == [actor[a] EXCEPT !.pc = "flag", !.horizon = 0, !.todo = days]
  <2>1. s.pc = "flag" /\ s.since = actor[a].since /\ s.todo = days
    BY <1>2 DEF State
  <2>2. Set(a, s)
    BY <1>1
  <2> HIDE DEF s
  <2> QED BY <2>1, <2>2, SetFacts
<1> QED BY <1>3, <1>4 DEF FindCandidates

LEMMA AttributeFacts ==
  ASSUME TypeInv, NEW a \in Runs, NEW todo, Attribute(a, todo)
  PROVE  /\ todo = {} => actor'[a] = Idle
         /\ todo # {} => actor'[a].pc = "attribute" /\ actor'[a].todo = todo
         /\ \A b \in Runs \ {a} : actor'[b] = actor[b]
<1>1. actor[a] \in State
  BY DEF TypeInv, RunInv
<1> DEFINE s == [actor[a] EXCEPT !.pc = "attribute", !.todo = todo]
<1>2. s.pc = "attribute" /\ s.todo = todo
  BY <1>1 DEF State
<1>3. Set(a, IF todo = {} THEN Idle ELSE s)
  BY DEF Attribute
<1> HIDE DEF s
<1> QED BY <1>2, <1>3, SetFacts

LEMMA StartFacts ==
  ASSUME TypeInv, NEW a \in Runs, StartRun(a)
  PROVE  /\ actor[a] = Idle
         /\ actor'[a].pc = "evaluate" /\ actor'[a].since = Len(evaluations)
         /\ actor'[a].horizons = Horizons /\ actor'[a].todo = {}
         /\ \A b \in Runs \ {a} : actor'[b] = actor[b]
<1>1. actor[a] = Idle
  BY DEF StartRun
<1>2. Set(a, [pc |-> "evaluate", since |-> Len(evaluations), horizons |-> Horizons,
              horizon |-> 0, todo |-> {}])
  BY DEF StartRun
<1> QED BY <1>1, <1>2, SetFacts

(* A failed selection, a run that goes on to flag, one given up. *)
LEMMA FailureFacts ==
  ASSUME TypeInv, NEW a \in Runs, StatementFails(a)
  PROVE  /\ UNCHANGED <<now, table, raced, inherited>>
         /\ \A b \in Runs \ {a} : actor'[b] = actor[b]
         /\ \/ \E h \in Horizons :
                 /\ actor[a].pc = "evaluate" /\ actor[a].todo = {}
                 /\ actor'[a].pc = "evaluate" /\ actor'[a].todo = {}
                 /\ actor'[a].since = actor[a].since
                 /\ actor'[a].horizons = actor[a].horizons \ {h}
                 /\ missed' = missed \cup (Pending(h) \X {h}) /\ UNCHANGED lost
            \/ \E row \in actor[a].todo :
                 /\ actor[a].pc = "evaluate" /\ actor'[a].pc = "evaluate"
                 /\ actor'[a].since = actor[a].since
                 /\ actor'[a].horizons = actor[a].horizons
                 /\ actor'[a].horizon = actor[a].horizon
                 /\ actor'[a].todo = actor[a].todo \ {row}
                 /\ missed' = missed \cup {<<row.id, actor[a].horizon>>} /\ UNCHANGED lost
            \/ /\ actor[a].pc = "evaluate" /\ actor[a].todo = {} /\ actor[a].horizons = {}
               /\ actor'[a].pc = "flag" /\ actor'[a].todo = {}
               /\ actor'[a].since = actor[a].since
               /\ UNCHANGED <<missed, lost>>
            \/ /\ actor[a].pc = "flag" /\ actor'[a].pc = "flag"
               /\ actor'[a].todo \subseteq actor[a].todo
               /\ actor'[a].since = actor[a].since
               /\ UNCHANGED <<missed, lost>>
            \/ /\ actor[a].pc = "flag" /\ actor'[a] = Idle
               /\ lost' = lost \cup Unattributed(actor[a].since) /\ UNCHANGED missed
            \/ \E e \in actor[a].todo :
                 /\ actor[a].pc = "attribute"
                 /\ actor[a].todo \ {e} = {} => actor'[a] = Idle
                 /\ actor[a].todo \ {e} # {} =>
                      actor'[a].pc = "attribute" /\ actor'[a].todo = actor[a].todo \ {e}
                 /\ lost' = lost \cup {e} /\ UNCHANGED missed
<1>1. actor[a] \in State
  BY DEF TypeInv, RunInv
<1>2. UNCHANGED <<now, table, raced, inherited>>
  BY DEF StatementFails
<1>3. CASE SelectionFails(a)
  <2>1. PICK h \in First(actor[a].horizons) :
          /\ missed' = missed \cup (Pending(h) \X {h})
          /\ Set(a, [actor[a] EXCEPT !.horizons = @ \ {h}])
    BY <1>3 DEF SelectionFails
  <2>2. h \in Horizons
    BY <1>1 DEF First, State
  <2>3. /\ actor'[a].pc = actor[a].pc /\ actor'[a].todo = actor[a].todo
        /\ actor'[a].since = actor[a].since
        /\ actor'[a].horizons = actor[a].horizons \ {h}
        /\ \A b \in Runs \ {a} : actor'[b] = actor[b]
    BY <1>1, <2>1, SetFacts DEF State
  <2> QED BY <1>2, <1>3, <2>1, <2>2, <2>3 DEF SelectionFails
<1>4. CASE EvaluationFails(a)
  <2>1. PICK row \in FirstRow(actor[a].todo) :
          /\ missed' = missed \cup {<<row.id, actor[a].horizon>>}
          /\ Set(a, [actor[a] EXCEPT !.todo = @ \ {row}])
    BY <1>4 DEF EvaluationFails
  <2>2. row \in actor[a].todo
    BY DEF FirstRow
  <2> QED BY <1>2, <1>4, <2>1, <2>2, TodoFacts DEF EvaluationFails
<1>5. CASE FlaggingFails(a)
  <2>1. CASE actor[a].pc = "evaluate"
    <3>1. actor[a].todo = {} /\ actor[a].horizons = {} /\ UNCHANGED <<missed, lost>>
      BY <1>5, <2>1 DEF FlaggingFails
    <3> DEFINE s == [actor[a] EXCEPT !.pc = "flag", !.horizon = 0]
    <3>2. s.pc = "flag" /\ s.since = actor[a].since /\ s.todo = actor[a].todo
      BY <1>1 DEF State
    <3>3. Set(a, s)
      BY <1>5, <2>1 DEF FlaggingFails
    <3> HIDE DEF s
    <3>4. /\ actor'[a].pc = "flag" /\ actor'[a].todo = actor[a].todo
          /\ actor'[a].since = actor[a].since /\ \A b \in Runs \ {a} : actor'[b] = actor[b]
      BY <3>2, <3>3, SetFacts
    <3> QED BY <1>2, <2>1, <3>1, <3>4
  <2>2. CASE actor[a].pc = "flag"
    <3>1. PICK day : Set(a, [actor[a] EXCEPT !.todo = @ \ {day}])
      BY <1>5, <2>2 DEF FlaggingFails
    <3>2. UNCHANGED <<missed, lost>>
      BY <1>5 DEF FlaggingFails
    <3> QED BY <1>2, <2>2, <3>1, <3>2, TodoFacts
  <2> QED BY <1>5, <2>1, <2>2 DEF FlaggingFails
<1>6. CASE AttributionFails(a)
  <2>1. CASE actor[a].pc = "flag"
    BY <1>2, <1>6, <2>1, SetFacts DEF AttributionFails
  <2>2. CASE actor[a].pc = "attribute"
    <3>1. PICK e \in First(actor[a].todo) : lost' = lost \cup {e} /\ Attribute(a, actor[a].todo \ {e})
      BY <1>6, <2>2 DEF AttributionFails
    <3>2. e \in actor[a].todo /\ UNCHANGED missed
      BY <1>6 DEF First, AttributionFails
    <3> QED BY <1>2, <2>2, <3>1, <3>2, AttributeFacts
  <2> QED BY <1>6, <2>1, <2>2 DEF AttributionFails
<1> QED BY <1>3, <1>4, <1>5, <1>6 DEF StatementFails

-----------------------------------------------------------------------------
(* What a step does to what is selected, flagged and evaluated *)

(* A run has fewer rows of the same horizon, or selects what is pending. *)
Kept(b) ==
  actor'[b].pc = "evaluate" =>
    \/ actor'[b].todo = {}
    \/ /\ actor[b].pc = "evaluate" /\ actor'[b].horizon = actor[b].horizon
       /\ actor'[b].todo \subseteq actor[b].todo
    \/ /\ actor'[b].horizon \in Horizons
       /\ actor'[b].todo = {SelectedRow(q) : q \in Pending(actor'[b].horizon)}
       /\ UNCHANGED <<now, table, history>>

KeptDay(b) ==
  actor'[b].pc = "flag" =>
    \/ actor'[b].todo = {}
    \/ actor[b].pc = "flag" /\ actor'[b].todo \subseteq actor[b].todo
    \/ \A c \in actor'[b].todo : c.prediction \in FailedThroughout

LEMMA RunKeeps ==
  ASSUME TypeInv, [Next]_vars, NEW b \in Runs
  PROVE  Kept(b) /\ KeptDay(b)
<1>1. ASSUME actor'[b] = actor[b] PROVE Kept(b) /\ KeptDay(b)
  BY <1>1 DEF Kept, KeptDay
<1>2. ASSUME actor'[b] = Idle PROVE Kept(b) /\ KeptDay(b)
  BY <1>2 DEF Kept, KeptDay, Idle
<1>3. ASSUME NEW a \in Runs, StartRun(a) PROVE Kept(b) /\ KeptDay(b)
  BY <1>1, <1>3, StartFacts DEF Kept, KeptDay
<1>4. ASSUME NEW a \in Runs, NEW h, FindPendingEvaluations(a, h) PROVE Kept(b) /\ KeptDay(b)
  BY <1>1, <1>4, FindFacts DEF Kept, KeptDay
<1>5. ASSUME NEW a \in Runs, NEW row, NEW correct \in BOOLEAN, Evaluate(a, row, correct)
      PROVE  Kept(b) /\ KeptDay(b)
  BY <1>1, <1>5, EvaluateFacts DEF Kept, KeptDay
<1>6. ASSUME NEW a \in Runs, FindCandidates(a) PROVE Kept(b) /\ KeptDay(b)
  BY <1>1, <1>6, CandidateFacts DEF Kept, KeptDay
<1>7. ASSUME NEW a \in Runs, NEW day, FlagCanonical(a, day) PROVE Kept(b) /\ KeptDay(b)
  BY <1>1, <1>7, TodoFacts DEF FlagCanonical, Kept, KeptDay
<1>8. ASSUME NEW a \in Runs, NEW todo, Attribute(a, todo) PROVE Kept(b) /\ KeptDay(b)
  BY <1>1, <1>2, <1>8, AttributeFacts DEF Kept, KeptDay
<1>9. ASSUME NEW a \in Runs, StatementFails(a) PROVE Kept(b) /\ KeptDay(b)
  BY <1>1, <1>2, <1>9, FailureFacts DEF Kept, KeptDay
<1>10. ASSUME NEW a \in Runs, Run(a) PROVE Kept(b) /\ KeptDay(b)
  BY <1>3, <1>4, <1>5, <1>6, <1>7, <1>8, <1>10
     DEF Run, ExtraRun, ScanEvaluations, RecordOutcome
<1>11. ASSUME NEW a \in Runs, Midnight(a) PROVE Kept(b) /\ KeptDay(b)
  BY <1>3, <1>11 DEF Midnight
<1>12. CASE Crash
  BY <1>2, <1>12 DEF Crash
<1>13. CASE \/ \E confident \in Confidences : Publish(confident)
            \/ MarkSettled \/ MidnightWithoutRun \/ Noon \/ UNCHANGED vars
  BY <1>1, <1>13 DEF Publish, MarkSettled, MidnightWithoutRun, Noon, vars
<1> QED BY <1>9, <1>10, <1>11, <1>12, <1>13 DEF Next

(* Only a run that evaluates adds an evaluation. *)
LEMMA TableKept ==
  ASSUME TypeInv, [Next]_vars
  PROVE  \/ UNCHANGED <<evaluations, raced>>
         \/ \E a \in Runs, correct \in BOOLEAN : \E row \in actor[a].todo : Evaluate(a, row, correct)
  BY FailureFacts
     DEF Next, Run, ExtraRun, Publish, MarkSettled, Midnight, MidnightWithoutRun, Noon, Crash, vars,
         FindPendingEvaluations, FindCandidates, FlagCanonical, ScanEvaluations, RecordOutcome,
         table, history

LEMMA Growth ==
  ASSUME TypeInv, [Next]_vars
  PROVE  /\ DOMAIN evaluations \subseteq DOMAIN evaluations'
         /\ \A e \in DOMAIN evaluations : evaluations'[e] = evaluations[e]
         /\ raced \subseteq raced'
<1>1. CASE UNCHANGED <<evaluations, raced>>
  BY <1>1
<1>2. ASSUME NEW a \in Runs, NEW correct \in BOOLEAN, NEW row, Evaluate(a, row, correct)
      PROVE  /\ DOMAIN evaluations \subseteq DOMAIN evaluations'
             /\ \A e \in DOMAIN evaluations : evaluations'[e] = evaluations[e]
             /\ raced \subseteq raced'
  BY <1>2, EvaluateAdds DEF Added
<1> QED BY <1>1, <1>2, TableKept

-----------------------------------------------------------------------------
(* A pair counts once *)

LEMMA NextCount == TypeInv /\ CountInv /\ [Next]_vars => CountInv'
<1> SUFFICES ASSUME TypeInv, CountInv, [Next]_vars PROVE CountInv'
  OBVIOUS
<1>1. ASSUME NEW b \in Runs, actor'[b].pc = "evaluate", NEW r \in actor'[b].todo,
             NEW s \in actor'[b].todo, r.id = s.id
      PROVE  r = s
  <2>1. CASE actor'[b].todo = {SelectedRow(q) : q \in Pending(actor'[b].horizon)}
    BY <1>1, <2>1 DEF SelectedRow
  <2>2. CASE actor[b].pc = "evaluate" /\ actor'[b].todo \subseteq actor[b].todo
    BY <1>1, <2>2 DEF CountInv
  <2> QED BY <1>1, <2>1, <2>2, RunKeeps DEF Kept
<1>2. ASSUME NEW p \in Nat, NEW h \in Horizons PROVE Once(p, h)'
  <2>1. CASE UNCHANGED <<evaluations, raced>>
    <3>1. EvaluatedAt(p, h)' = EvaluatedAt(p, h)
      BY <2>1 DEF EvaluatedAt
    <3>2. ASSUME NEW b \in Runs, Selected(b, p, h)'
          PROVE  Selected(b, p, h) \/ EvaluatedAt(p, h) = {}
      <4>1. CASE actor'[b].todo = {SelectedRow(q) : q \in Pending(actor'[b].horizon)}
        BY <3>2, <4>1 DEF Selected, SelectedRow, Pending
      <4>2. CASE /\ actor[b].pc = "evaluate" /\ actor'[b].horizon = actor[b].horizon
                 /\ actor'[b].todo \subseteq actor[b].todo
        BY <3>2, <4>2 DEF Selected
      <4> QED BY <3>2, <4>1, <4>2, RunKeeps DEF Kept, Selected
    <3>3. Once(p, h)
      BY DEF CountInv
    <3> QED BY <2>1, <3>1, <3>2, <3>3 DEF Once
  <2>2. ASSUME NEW a \in Runs, NEW correct \in BOOLEAN, NEW row, Evaluate(a, row, correct)
        PROVE  Once(p, h)'
    <3>1. \A b \in Runs : Selected(b, p, h)' => Selected(b, p, h)
      BY <2>2, EvaluateFacts DEF Selected
    <3>2. ~Selected(a, row.id, actor[a].horizon)'
      BY <2>2, EvaluateFacts DEF Selected, CountInv
    <3>3. Once(p, h) /\ raced \subseteq raced'
      BY <2>2, EvaluateAdds DEF CountInv, Added
    <3>4. CASE <<p, h>> # <<row.id, actor[a].horizon>>
      <4>1. EvaluatedAt(p, h)' = EvaluatedAt(p, h)
        <5>1. CASE evaluations' = evaluations
          BY <5>1 DEF EvaluatedAt
        <5>2. CASE Added(a, row)
          BY <3>4, <5>2 DEF EvaluatedAt, Added
        <5> QED BY <2>2, <5>1, <5>2, EvaluateAdds
      <4> QED BY <3>1, <3>3, <4>1 DEF Once
    <3>5. CASE p = row.id /\ h = actor[a].horizon /\ evaluations' = evaluations /\ raced' = raced
      <4>1. EvaluatedAt(p, h)' = EvaluatedAt(p, h)
        BY <3>5 DEF EvaluatedAt
      <4> QED BY <3>1, <3>3, <3>5, <4>1 DEF Once
    <3>6. CASE p = row.id /\ h = actor[a].horizon /\ <<p, h>> \notin raced' /\ Added(a, row)
      <4>1. Selected(a, p, h) /\ EvaluatedAt(p, h) = {}
        BY <2>2, <3>3, <3>6, EvaluateFacts DEF Selected, Once
      <4>2. \A e \in EvaluatedAt(p, h)' : e = Len(evaluations) + 1
        BY <3>6, <4>1 DEF EvaluatedAt, Added
      <4>3. \A b \in Runs \ {a} : ~Selected(b, p, h)
        BY <3>6 DEF Added
      <4>4. \A b \in Runs : ~Selected(b, p, h)'
        BY <2>2, <3>1, <3>2, <3>6, <4>3, EvaluateFacts
      <4> QED BY <4>2, <4>4 DEF Once
    <3>7. <<p, h>> \in raced' => Once(p, h)'
      BY DEF Once
    <3>8. <<p, h>> # <<row.id, actor[a].horizon>> \/ (p = row.id /\ h = actor[a].horizon)
      OBVIOUS
    <3>9. (evaluations' = evaluations /\ raced' = raced) \/ Added(a, row)
      BY <2>2, EvaluateAdds
    <3> QED BY <3>4, <3>5, <3>6, <3>7, <3>8, <3>9
  <2> QED BY <2>1, <2>2, TableKept
<1> QED BY <1>1, <1>2 DEF CountInv

-----------------------------------------------------------------------------
(* Canonical days are of predictions that were wrong twice *)

LEMMA NextDays == TypeInv /\ DayInv /\ [Next]_vars => DayInv'
<1> SUFFICES ASSUME TypeInv, DayInv, [Next]_vars PROVE DayInv'
  OBVIOUS
<1>1. ASSUME NEW p, WrongTwice(p) PROVE WrongTwice(p)'
  BY <1>1, Growth DEF WrongTwice, Of
<1>2. \A b \in Runs : actor'[b].pc = "flag" => \A c \in actor'[b].todo : WrongTwice(c.prediction)
  BY RunKeeps, FailedIsWrongTwice DEF KeptDay, DayInv
<1>3. \A c \in canonical' : WrongTwice(c.prediction)
  <2>1. CASE UNCHANGED canonical
    BY <2>1 DEF DayInv
  <2>2. ASSUME NEW a \in Runs, NEW day, FlagCanonical(a, day)
        PROVE  \A c \in canonical' : WrongTwice(c.prediction)
    BY <2>2 DEF FlagCanonical, DayInv
  <2> QED BY <2>1, <2>2, FailureFacts
          DEF Next, Run, ExtraRun, Publish, MarkSettled, Midnight, MidnightWithoutRun, Noon, Crash,
              vars, FindPendingEvaluations, Evaluate, FindCandidates, ScanEvaluations,
              RecordOutcome, table
<1> QED BY <1>1, <1>2, <1>3 DEF DayInv

-----------------------------------------------------------------------------
(* Every evaluation is held, recorded or lost *)

LEMMA NextAttribution == TypeInv /\ AttributionInv /\ [Next]_vars => AttributionInv'
<1> SUFFICES ASSUME TypeInv, AttributionInv, [Next]_vars,
                    NEW e \in DOMAIN evaluations', e \notin outcomes' \cup lost'
             PROVE  \E b \in Runs : Holds(b, e)'
  BY DEF AttributionInv
<1> DEFINE Goal == \E b \in Runs : Holds(b, e)'
<1>1. outcomes \subseteq outcomes' /\ lost \subseteq lost'
  BY FailureFacts
     DEF Next, Run, ExtraRun, Publish, MarkSettled, Midnight, MidnightWithoutRun, Noon, Crash, vars,
         FindPendingEvaluations, Evaluate, FindCandidates, FlagCanonical, ScanEvaluations,
         RecordOutcome, table, history
<1>2. e \in DOMAIN evaluations => \E b \in Runs : Holds(b, e)
  BY <1>1 DEF AttributionInv
<1>3. ASSUME UNCHANGED evaluations,
             NEW a \in Runs, \A b \in Runs \ {a} : actor'[b] = actor[b],
             Holds(a, e) => Holds(a, e)' \/ e \in outcomes' \cup lost'
      PROVE  Goal
  BY <1>2, <1>3 DEF Holds
<1>4. ASSUME NEW a \in Runs, StartRun(a), UNCHANGED evaluations PROVE Goal
  <2>1. ~Holds(a, e)
    BY <1>4, StartFacts DEF Holds, Idle
  <2> QED BY <1>3, <1>4, <2>1, StartFacts
<1>5. ASSUME NEW a \in Runs, NEW h, FindPendingEvaluations(a, h) PROVE Goal
  BY <1>3, <1>5, FindFacts DEF Holds, table
<1>6. ASSUME NEW a \in Runs, NEW row, NEW correct \in BOOLEAN, Evaluate(a, row, correct) PROVE Goal
  <2>1. CASE UNCHANGED evaluations
    BY <1>3, <1>6, <2>1, EvaluateFacts DEF Holds
  <2>2. CASE e \in DOMAIN evaluations
    BY <1>2, <1>6, <2>2, EvaluateFacts DEF Holds
  <2>3. CASE e = Len(evaluations) + 1
    <3>1. actor[a].since \in Nat /\ actor[a].since <= Len(evaluations)
      BY DEF TypeInv, RunInv, State, StateOK
    <3> QED BY <1>6, <2>3, <3>1, EvaluateFacts, StateFacts DEF Holds
  <2> QED BY <1>6, <2>1, <2>2, <2>3, EvaluateAdds DEF Added
<1>7. ASSUME NEW a \in Runs, FindCandidates(a) PROVE Goal
  BY <1>3, <1>7, CandidateFacts DEF Holds, table
<1>8. ASSUME NEW a \in Runs, NEW day, FlagCanonical(a, day) PROVE Goal
  <2>1. Set(a, [actor[a] EXCEPT !.todo = @ \ {day}]) /\ UNCHANGED evaluations /\ actor[a].pc = "flag"
    BY <1>8 DEF FlagCanonical
  <2> QED BY <1>3, <2>1, TodoFacts DEF Holds
<1>9. ASSUME NEW a \in Runs, ScanEvaluations(a) PROVE Goal
  <2>1. Attribute(a, Unattributed(actor[a].since)) /\ actor[a].pc = "flag" /\ UNCHANGED <<evaluations, outcomes>>
    BY <1>9 DEF ScanEvaluations, table
  <2>2. Holds(a, e) => e \in Unattributed(actor[a].since) \/ e \in outcomes'
    BY <2>1 DEF Holds, Unattributed
  <2> QED BY <1>3, <2>1, <2>2, AttributeFacts DEF Holds
<1>10. ASSUME NEW a \in Runs, NEW f, RecordOutcome(a, f) PROVE Goal
  <2>1. /\ Attribute(a, actor[a].todo \ {f}) /\ actor[a].pc = "attribute"
        /\ UNCHANGED evaluations /\ outcomes' = outcomes \cup {f}
    BY <1>10 DEF RecordOutcome
  <2> QED BY <1>3, <2>1, AttributeFacts DEF Holds
<1>11. ASSUME NEW a \in Runs, StatementFails(a) PROVE Goal
  <2>1. UNCHANGED <<evaluations, outcomes>> /\ \A b \in Runs \ {a} : actor'[b] = actor[b]
    BY <1>11, FailureFacts DEF table
  <2>2. Holds(a, e) => Holds(a, e)' \/ e \in outcomes' \cup lost'
    BY <1>11, <2>1, FailureFacts DEF Holds, Unattributed
  <2> QED BY <1>3, <2>1, <2>2
<1>12. CASE Crash
  <2>1. UNCHANGED <<evaluations, outcomes>>
    BY <1>12 DEF Crash, table
  <2>2. PICK b \in Runs : Holds(b, e)
    BY <1>2, <2>1
  <2>3. actor[b] # Idle /\ e > actor[b].since
    BY <2>2 DEF Holds, Idle, TypeInv, RunInv, StateOK
  <2>4. e \in Unattributed(actor[b].since)
    BY <2>1, <2>3 DEF Unattributed
  <2> QED BY <1>12, <2>3, <2>4 DEF Crash
<1>13. CASE \/ \E confident \in Confidences : Publish(confident)
            \/ MarkSettled \/ MidnightWithoutRun \/ Noon \/ UNCHANGED vars
  <2>1. UNCHANGED <<evaluations, actor>>
    BY <1>13 DEF Publish, MarkSettled, MidnightWithoutRun, Noon, vars, table
  <2> QED BY <1>2, <2>1 DEF Holds
<1> QED BY <1>4, <1>5, <1>6, <1>7, <1>8, <1>9, <1>10, <1>11, <1>12, <1>13
        DEF Next, Run, ExtraRun, Midnight, table

-----------------------------------------------------------------------------
(* What was recorded and selected is what the row says *)

(* A publication is a row of its own, or writes the unsettled one over. *)
LEMMA PublishFacts ==
  ASSUME TypeInv, NEW confident \in Confidences, Publish(confident)
  PROVE  /\ UNCHANGED <<now, evaluations, canonical, outcomes, actor, raced, missed, lost>>
         /\ \E p \in DOMAIN predictions' :
              /\ predictions'[p].created = now
              /\ DOMAIN predictions' = DOMAIN predictions \cup {p}
              /\ \A q \in DOMAIN predictions \ {p} : predictions'[q] = predictions[q]
              /\ \/ p \notin DOMAIN predictions /\ UNCHANGED inherited
                 \/ inherited' = inherited \cup {<<p, h>> : h \in {k \in Horizons :
                      EvaluatedAt(p, k) # {} \/ \E a \in Runs : Selected(a, p, k)}}
<1> DEFINE new == [confident |-> confident, created |-> now, settled |-> FALSE]
           Written(p) ==
              /\ predictions'[p].created = now
              /\ DOMAIN predictions' = DOMAIN predictions \cup {p}
              /\ \A q \in DOMAIN predictions \ {p} : predictions'[q] = predictions[q]
<1>1. new \in Prediction /\ new.created = now
  BY DEF Publish, Prediction, TypeInv, TableInv
<1>2. UNCHANGED <<now, evaluations, canonical, outcomes, actor, raced, missed, lost>>
  BY DEF Publish
<1>3. CASE predictions' = Append(predictions, new) /\ UNCHANGED inherited
  <2> HIDE DEF new
  <2>1. Written(Len(predictions) + 1) /\ Len(predictions) + 1 \notin DOMAIN predictions
    BY <1>1, <1>3, AppendFacts DEF TypeInv, TableInv
  <2> QED BY <1>2, <1>3, <2>1
<1>4. ASSUME NEW p \in Active, predictions' = [predictions EXCEPT ![p] = new],
             inherited' = inherited \cup {<<p, h>> : h \in {k \in Horizons :
               EvaluatedAt(p, k) # {} \/ \E a \in Runs : Selected(a, p, k)}}
      PROVE  \E q \in DOMAIN predictions' :
               /\ Written(q)
               /\ inherited' = inherited \cup {<<q, h>> : h \in {k \in Horizons :
                    EvaluatedAt(q, k) # {} \/ \E a \in Runs : Selected(a, q, k)}}
  <2> HIDE DEF new
  <2>1. Written(p) /\ p \in DOMAIN predictions'
    BY <1>1, <1>4, StateFacts DEF Active
  <2> HIDE DEF Written
  <2> QED BY <1>4, <2>1
<1> QED BY <1>2, <1>3, <1>4 DEF Publish

LEMMA NextMade == TypeInv /\ MadeInv /\ [Next]_vars => MadeInv'
<1> SUFFICES ASSUME TypeInv, MadeInv, [Next]_vars,
                    NEW p \in DOMAIN predictions', NEW h \in Horizons, <<p, h>> \notin inherited'
             PROVE  /\ \A e \in EvaluatedAt(p, h)' : evaluations'[e].made = predictions'[p].created
                    /\ \A a \in Runs : actor'[a].pc = "evaluate" /\ actor'[a].horizon = h =>
                         \A row \in actor'[a].todo :
                           row.id = p => row.created = predictions'[p].created
  BY DEF MadeInv
<1> DEFINE Made == \A e \in EvaluatedAt(p, h)' : evaluations'[e].made = predictions'[p].created
           Rows == \A a \in Runs : actor'[a].pc = "evaluate" /\ actor'[a].horizon = h =>
                     \A row \in actor'[a].todo : row.id = p => row.created = predictions'[p].created
<1>1. ASSUME p \in DOMAIN predictions, predictions'[p].created = predictions[p].created,
             inherited' = inherited
      PROVE  Made /\ Rows
  <2>1. /\ \A e \in EvaluatedAt(p, h) : evaluations[e].made = predictions[p].created
        /\ \A a \in Runs : actor[a].pc = "evaluate" /\ actor[a].horizon = h =>
             \A row \in actor[a].todo : row.id = p => row.created = predictions[p].created
    BY <1>1 DEF MadeInv
  <2>2. ASSUME NEW a \in Runs, actor'[a].pc = "evaluate", actor'[a].horizon = h,
               NEW row \in actor'[a].todo, row.id = p
        PROVE  row.created = predictions'[p].created
    <3>1. CASE actor'[a].todo = {SelectedRow(q) : q \in Pending(actor'[a].horizon)}
      BY <1>1, <2>2, <3>1 DEF SelectedRow
    <3>2. CASE /\ actor[a].pc = "evaluate" /\ actor'[a].horizon = actor[a].horizon
               /\ actor'[a].todo \subseteq actor[a].todo
      BY <1>1, <2>1, <2>2, <3>2
    <3> QED BY <2>2, <3>1, <3>2, RunKeeps DEF Kept
  <2>3. CASE UNCHANGED evaluations
    <3>1. Made
      BY <1>1, <2>1, <2>3 DEF EvaluatedAt
    <3> QED BY <2>2, <3>1
  <2>4. ASSUME NEW a \in Runs, NEW correct \in BOOLEAN, NEW row, Evaluate(a, row, correct)
        PROVE  Made
    <3>1. CASE UNCHANGED evaluations
      BY <1>1, <2>1, <3>1 DEF EvaluatedAt
    <3>2. CASE Added(a, row)
      <4>1. row.id = p /\ actor[a].horizon = h => row.created = predictions[p].created
        BY <2>1, <2>4, EvaluateFacts
      <4> QED BY <1>1, <2>1, <3>2, <4>1 DEF EvaluatedAt, Added
    <3> QED BY <2>4, <3>1, <3>2, EvaluateAdds
  <2> QED BY <2>2, <2>3, <2>4, TableKept
<1>2. ASSUME NEW confident \in Confidences, Publish(confident) PROVE Made /\ Rows
  <2>1. PICK q \in DOMAIN predictions' :
          /\ DOMAIN predictions' = DOMAIN predictions \cup {q}
          /\ \A r \in DOMAIN predictions \ {q} : predictions'[r] = predictions[r]
          /\ \/ q \notin DOMAIN predictions /\ UNCHANGED inherited
             \/ inherited' = inherited \cup {<<q, k>> : k \in {l \in Horizons :
                  EvaluatedAt(q, l) # {} \/ \E a \in Runs : Selected(a, q, l)}}
    BY <1>2, PublishFacts
  <2>2. UNCHANGED <<evaluations, actor>>
    BY <1>2, PublishFacts
  <2>3. CASE p # q
    <3>1. /\ \A e \in EvaluatedAt(p, h) : evaluations[e].made = predictions[p].created
          /\ \A a \in Runs : actor[a].pc = "evaluate" /\ actor[a].horizon = h =>
               \A row \in actor[a].todo : row.id = p => row.created = predictions[p].created
      BY <2>1, <2>3 DEF MadeInv
    <3> QED BY <2>1, <2>2, <2>3, <3>1 DEF EvaluatedAt
  <2>4. CASE p = q
    <3>1. EvaluatedAt(p, h) = {} /\ \A a \in Runs : ~Selected(a, p, h)
      <4>1. CASE q \notin DOMAIN predictions
        BY <2>4, <4>1 DEF EvaluatedAt, Selected, TypeInv, TableInv, RunInv, StateOK
      <4>2. CASE inherited' = inherited \cup {<<q, k>> : k \in {l \in Horizons :
                   EvaluatedAt(q, l) # {} \/ \E a \in Runs : Selected(a, q, l)}}
        BY <2>4, <4>2
      <4> QED BY <2>1, <4>1, <4>2
    <3> QED BY <2>2, <3>1 DEF EvaluatedAt, Selected
  <2> QED BY <2>3, <2>4
<1>3. CASE MarkSettled
  <2>1. \A q \in DOMAIN predictions : [predictions[q] EXCEPT !.settled = TRUE].created = predictions[q].created
    BY StateFacts DEF Prediction
  <2>2. p \in DOMAIN predictions /\ predictions'[p].created = predictions[p].created
    BY <1>3, <2>1 DEF MarkSettled
  <2>3. inherited' = inherited
    BY <1>3 DEF MarkSettled, history
  <2> QED BY <1>1, <2>2, <2>3
<1>4. CASE predictions' = predictions /\ inherited' = inherited
  BY <1>1, <1>4
<1>5. \/ \E confident \in Confidences : Publish(confident)
      \/ MarkSettled
      \/ predictions' = predictions /\ inherited' = inherited
  BY FailureFacts
     DEF Next, Run, ExtraRun, Midnight, MidnightWithoutRun, Noon, Crash, vars,
         FindPendingEvaluations, Evaluate, FindCandidates, FlagCanonical, ScanEvaluations,
         RecordOutcome, table, history
<1> QED BY <1>2, <1>3, <1>4, <1>5

-----------------------------------------------------------------------------
(* No horizon is passed over *)

LEMMA TimeFacts ==
  ASSUME TypeInv
  PROVE  /\ now \in Nat /\ LastMidnight \in Int
         /\ now % Day = 0 => LastMidnight = now
         /\ now % Day # 0 => LastMidnight = now - 1
  BY DEF TypeInv, TableInv, LastMidnight, Day

(* A pair that is due stays with the run that has it while the rows, the time
   and what is given up say the same of it.                                *)
LEMMA StillComing ==
  ASSUME TypeInv, WindowInv, UNCHANGED <<now, predictions, evaluations, inherited>>,
         missed \subseteq missed', NEW a \in Runs, \A b \in Runs \ {a} : actor'[b] = actor[b],
         \A p \in DOMAIN predictions, h \in Horizons :
           /\ Due(p, h)'
           /\ EvaluatedAt(p, h) = {}
           /\ InWindow(predictions[p].created, h)
           /\ actor[a].pc = "evaluate"
           /\ h \in actor[a].horizons \/ Selected(a, p, h)
           => /\ actor'[a].pc = "evaluate"
              /\ h \in actor'[a].horizons \/ Selected(a, p, h)'
  PROVE  WindowInv'
<1> SUFFICES ASSUME NEW p \in DOMAIN predictions, NEW h \in Horizons, Due(p, h)',
                    EvaluatedAt(p, h)' = {}
             PROVE  Coming(p, h)'
  BY DEF WindowInv
<1>1. EvaluatedAt(p, h) = {} /\ Due(p, h)
  BY DEF EvaluatedAt, Due, LastMidnight
<1>2. Coming(p, h)
  BY <1>1 DEF WindowInv
<1>3. InWindow(predictions[p].created, h) /\ InWindow(predictions[p].created, h)'
  BY <1>2 DEF Coming, InWindow
<1>4. PICK b \in Runs : actor[b].pc = "evaluate" /\ (h \in actor[b].horizons \/ Selected(b, p, h))
  BY <1>2 DEF Coming
<1>5. CASE b = a
  BY <1>1, <1>3, <1>4, <1>5 DEF Coming
<1>6. CASE b # a
  BY <1>3, <1>4, <1>6 DEF Coming, Selected
<1> QED BY <1>5, <1>6

LEMMA EvaluateWindow ==
  ASSUME TypeInv, MadeInv, WindowInv,
         NEW a \in Runs, NEW row, NEW correct \in BOOLEAN, Evaluate(a, row, correct)
  PROVE  WindowInv'
<1> SUFFICES ASSUME NEW p \in DOMAIN predictions, NEW h \in Horizons, Due(p, h)',
                    EvaluatedAt(p, h)' = {}
             PROVE  Coming(p, h)'
  BY EvaluateFacts DEF WindowInv
<1>1. Due(p, h)
  BY EvaluateFacts DEF Due, LastMidnight
<1>2. EvaluatedAt(p, h) = {}
  BY EvaluateAdds DEF EvaluatedAt, Added
<1>3. Coming(p, h)
  BY <1>1, <1>2 DEF WindowInv
<1>4. InWindow(predictions[p].created, h)'
  BY <1>3, EvaluateFacts DEF Coming, InWindow
<1>5. PICK b \in Runs : actor[b].pc = "evaluate" /\ (h \in actor[b].horizons \/ Selected(b, p, h))
  BY <1>3 DEF Coming
<1>6. CASE b # a
  BY <1>4, <1>5, <1>6, EvaluateFacts DEF Coming, Selected
<1>7. CASE b = a /\ ~(row.id = p /\ actor[a].horizon = h)
  BY <1>4, <1>5, <1>7, EvaluateFacts DEF Coming, Selected
<1>8. CASE row.id = p /\ actor[a].horizon = h
  <2>1. row.created = predictions[p].created
    <3>1. <<p, h>> \notin inherited
      BY <1>1 DEF Due
    <3>2. row \in actor[a].todo /\ actor[a].pc = "evaluate"
      BY EvaluateFacts
    <3> QED BY <1>8, <3>1, <3>2 DEF MadeInv
  <2>2. Comparable(row.created, actor[a].horizon)
    BY <1>1, <1>8, <2>1 DEF Due
  <2>3. Len(evaluations) + 1 \in EvaluatedAt(p, h)'
    BY <1>8, <2>2, EvaluateAdds DEF EvaluatedAt, Added
  <2> QED BY <2>3
<1> QED BY <1>6, <1>7, <1>8

LEMMA PublishWindow ==
  ASSUME TypeInv, WindowInv, NEW confident \in Confidences, Publish(confident)
  PROVE  WindowInv'
<1>1. PICK q \in DOMAIN predictions' :
         /\ predictions'[q].created = now
         /\ DOMAIN predictions' = DOMAIN predictions \cup {q}
         /\ \A r \in DOMAIN predictions \ {q} : predictions'[r] = predictions[r]
         /\ inherited \subseteq inherited'
  BY PublishFacts
<1>2. UNCHANGED <<now, evaluations, actor, missed>>
  BY PublishFacts
<1> SUFFICES ASSUME NEW p \in DOMAIN predictions', NEW h \in Horizons, Due(p, h)'
             PROVE  (EvaluatedAt(p, h) # {} \/ Coming(p, h))'
  BY DEF WindowInv
<1>3. h \in Nat \ {0}
  OBVIOUS
<1>4. p # q
  BY <1>1, <1>2, <1>3, TimeFacts DEF Due, LastMidnight, Day
<1>5. p \in DOMAIN predictions /\ predictions'[p] = predictions[p]
  BY <1>1, <1>4
<1>6. Due(p, h)
  BY <1>1, <1>2, <1>5 DEF Due, LastMidnight
<1>7. EvaluatedAt(p, h) # {} \/ Coming(p, h)
  BY <1>5, <1>6 DEF WindowInv
<1> QED BY <1>2, <1>5, <1>7 DEF EvaluatedAt, Coming, InWindow, Selected

LEMMA SettleWindow ==
  ASSUME TypeInv, WindowInv, MarkSettled
  PROVE  WindowInv'
<1> DEFINE f(p) == [predictions[p] EXCEPT !.settled = TRUE]
<1>1. \A p \in DOMAIN predictions : f(p).created = predictions[p].created
  BY StateFacts DEF Prediction
<1>2. DOMAIN predictions' = DOMAIN predictions /\ \A p \in DOMAIN predictions : predictions'[p] = f(p)
  BY DEF MarkSettled
<1> HIDE DEF f
<1>3. \A p \in DOMAIN predictions : predictions'[p].created = predictions[p].created
  BY <1>1, <1>2
<1>4. UNCHANGED <<now, evaluations, actor, missed, inherited>>
  BY DEF MarkSettled, history
<1> QED BY <1>2, <1>3, <1>4
        DEF WindowInv, Due, LastMidnight, EvaluatedAt, Coming, InWindow, Selected

(* At midnight a pair that becomes due is in its window. *)
LEMMA MidnightWindow ==
  ASSUME TypeInv, WindowInv, Quiet, now % Day # 0, now' = now + 1,
         UNCHANGED <<predictions, evaluations, inherited>>, missed \subseteq missed',
         NEW p \in DOMAIN predictions, NEW h \in Horizons, Due(p, h)'
  PROVE  \/ EvaluatedAt(p, h) # {}
         \/ /\ InWindow(predictions[p].created, h)'
            /\ predictions[p].created \in now - Day * h - 1 .. now - Day * h
<1>1. now \in Nat /\ h \in Nat /\ predictions[p].created \in Nat
  BY TimeFacts, StateFacts DEF Prediction
<1>2. LastMidnight' = now + 1 /\ LastMidnight = now - 1
  BY <1>1, TimeFacts DEF LastMidnight, Day
<1>3. CASE Due(p, h)
  <2>1. ~Coming(p, h)
    BY DEF Coming, Quiet, Idle
  <2> QED BY <1>3, <2>1 DEF WindowInv
<1>4. CASE ~Due(p, h)
  <2>1. ~(predictions[p].created < now - 1 - Day * h)
    BY <1>2, <1>4 DEF Due
  <2>2. predictions[p].created < now + 1 - Day * h
    BY <1>1, <1>2 DEF Due, Day
  <2> QED BY <1>1, <2>1, <2>2 DEF InWindow, Day
<1> QED BY <1>3, <1>4

LEMMA TimeWindow ==
  ASSUME TypeInv, WindowInv,
         (\E a \in Runs : Midnight(a)) \/ MidnightWithoutRun \/ Noon
  PROVE  WindowInv'
<1> SUFFICES ASSUME NEW p \in DOMAIN predictions, NEW h \in Horizons, Due(p, h)'
             PROVE  (EvaluatedAt(p, h) # {} \/ Coming(p, h))'
  BY DEF WindowInv, Midnight, MidnightWithoutRun, Noon, table
<1>1. Quiet /\ now' = now + 1 /\ UNCHANGED <<predictions, evaluations, inherited>> /\ missed \subseteq missed'
  BY DEF Midnight, MidnightWithoutRun, Noon, table, history
<1>2. EvaluatedAt(p, h)' = EvaluatedAt(p, h)
  BY <1>1 DEF EvaluatedAt
<1>3. ASSUME NEW a \in Runs, Midnight(a) PROVE (EvaluatedAt(p, h) # {} \/ Coming(p, h))'
  <2>1. now % Day # 0 /\ StartRun(a)
    BY <1>3 DEF Midnight
  <2>2. actor'[a].pc = "evaluate" /\ h \in actor'[a].horizons
    BY <2>1, StartFacts
  <2>3. EvaluatedAt(p, h) # {} \/ InWindow(predictions[p].created, h)'
    BY <1>1, <2>1, MidnightWindow
  <2> QED BY <1>1, <1>2, <2>2, <2>3 DEF Coming
<1>4. CASE MidnightWithoutRun
  <2>1. now % Day # 0 /\ missed' = missed \cup UNION {WindowTonight(k) \X {k} : k \in Horizons}
    BY <1>4 DEF MidnightWithoutRun
  <2>2. \/ EvaluatedAt(p, h) # {}
        \/ predictions[p].created \in now - Day * h - 1 .. now - Day * h
    BY <1>1, <2>1, MidnightWindow
  <2>3. p \notin WindowTonight(h)
    BY <2>1 DEF Due
  <2> QED BY <1>2, <2>2, <2>3 DEF WindowTonight
<1>5. CASE Noon
  <2>1. now % Day = 0 /\ missed' = missed
    BY <1>5 DEF Noon, history
  <2>2. LastMidnight' = LastMidnight
    BY <1>1, <2>1, TimeFacts DEF LastMidnight, Day
  <2>3. Due(p, h)
    BY <1>1, <2>1, <2>2 DEF Due
  <2>4. ~Coming(p, h)
    BY <1>1 DEF Coming, Quiet, Idle
  <2> QED BY <1>2, <2>3, <2>4 DEF WindowInv
<1> QED BY <1>3, <1>4, <1>5

LEMMA CrashWindow ==
  ASSUME TypeInv, WindowInv, Crash
  PROVE  WindowInv'
<1>1. /\ UNCHANGED <<now, predictions, evaluations, inherited>>
      /\ missed' = missed \cup UNION {Pending(k) \X {k} : k \in Horizons}
  BY DEF Crash, table, InAnyWindow
<1> SUFFICES ASSUME NEW p \in DOMAIN predictions, NEW h \in Horizons, Due(p, h)',
                    EvaluatedAt(p, h)' = {}
             PROVE  FALSE
  BY <1>1 DEF WindowInv
<1>2. Due(p, h) /\ EvaluatedAt(p, h) = {}
  BY <1>1 DEF Due, LastMidnight, EvaluatedAt
<1>3. Coming(p, h)
  BY <1>2 DEF WindowInv
<1>4. p \in Pending(h)
  BY <1>2, <1>3 DEF Coming, Pending
<1>5. <<p, h>> \in missed'
  <2>1. <<p, h>> \in Pending(h) \X {h}
    BY <1>4
  <2> QED BY <1>1, <2>1
<1> QED BY <1>5 DEF Due

LEMMA FailureWindow ==
  ASSUME TypeInv, WindowInv, NEW a \in Runs, StatementFails(a)
  PROVE  WindowInv'
<1>1. /\ UNCHANGED <<now, predictions, evaluations, inherited>>
      /\ missed \subseteq missed' /\ \A b \in Runs \ {a} : actor'[b] = actor[b]
  BY FailureFacts DEF table
<1>2. ASSUME NEW p \in DOMAIN predictions, NEW h \in Horizons,
             Due(p, h)', EvaluatedAt(p, h) = {}, InWindow(predictions[p].created, h),
             actor[a].pc = "evaluate", h \in actor[a].horizons \/ Selected(a, p, h)
      PROVE  actor'[a].pc = "evaluate" /\ (h \in actor'[a].horizons \/ Selected(a, p, h)')
  <2>1. <<p, h>> \notin missed'
    BY <1>2 DEF Due
  <2>2. ASSUME NEW k \in Horizons, actor[a].todo = {}, actor'[a].pc = "evaluate",
               actor'[a].horizons = actor[a].horizons \ {k},
               missed' = missed \cup (Pending(k) \X {k})
        PROVE  h \in actor'[a].horizons
    <3>1. p \in Pending(h)
      BY <1>2 DEF Pending
    <3> QED BY <1>2, <2>1, <2>2, <3>1 DEF Selected
  <2>3. ASSUME NEW row \in actor[a].todo, actor'[a].pc = "evaluate",
               actor'[a].horizons = actor[a].horizons, actor'[a].horizon = actor[a].horizon,
               actor'[a].todo = actor[a].todo \ {row},
               missed' = missed \cup {<<row.id, actor[a].horizon>>}
        PROVE  h \in actor'[a].horizons \/ Selected(a, p, h)'
    BY <1>2, <2>1, <2>3 DEF Selected
  <2>4. CASE actor[a].todo = {} /\ actor[a].horizons = {}
    BY <1>2, <2>4 DEF Selected
  <2> QED BY <1>2, <2>2, <2>3, <2>4, FailureFacts
<1> QED BY <1>1, <1>2, StillComing

LEMMA NextWindow == TypeInv /\ MadeInv /\ WindowInv /\ [Next]_vars => WindowInv'
<1> SUFFICES ASSUME TypeInv, MadeInv, WindowInv, [Next]_vars PROVE WindowInv'
  OBVIOUS
<1>1. ASSUME NEW a \in Runs, ExtraRun(a) PROVE WindowInv'
  <2>1. UNCHANGED <<now, predictions, evaluations, inherited, missed>> /\ StartRun(a)
    BY <1>1 DEF ExtraRun, table, history
  <2> QED BY <2>1, StartFacts, StillComing DEF Idle
<1>2. ASSUME NEW a \in Runs, NEW h, FindPendingEvaluations(a, h) PROVE WindowInv'
  <2>1. ASSUME NEW p \in DOMAIN predictions, NEW k \in Horizons,
               EvaluatedAt(p, k) = {}, InWindow(predictions[p].created, k),
               k \in actor[a].horizons \/ Selected(a, p, k)
        PROVE  k \in actor'[a].horizons \/ Selected(a, p, k)'
    <3>1. CASE k = h
      <4>1. p \in Pending(h) /\ SelectedRow(p) \in actor'[a].todo /\ SelectedRow(p).id = p
        BY <1>2, <2>1, <3>1, FindFacts DEF Pending, SelectedRow
      <4> QED BY <1>2, <3>1, <4>1, FindFacts DEF Selected
    <3>2. CASE k # h
      BY <1>2, <2>1, <3>2, FindFacts DEF Selected
    <3> QED BY <3>1, <3>2
  <2>2. UNCHANGED <<now, predictions, evaluations, inherited, missed>>
    BY <1>2, FindFacts DEF table, history
  <2> QED BY <1>2, <2>1, <2>2, FindFacts, StillComing
<1>3. ASSUME NEW a \in Runs, FindCandidates(a) PROVE WindowInv'
  <2>1. UNCHANGED <<now, predictions, evaluations, inherited, missed>>
    BY <1>3, CandidateFacts DEF table, history
  <2> QED BY <1>3, <2>1, CandidateFacts, StillComing DEF Selected
<1>4. ASSUME NEW a \in Runs, NEW day, FlagCanonical(a, day) PROVE WindowInv'
  <2>1. /\ UNCHANGED <<now, predictions, evaluations, inherited, missed>> /\ actor[a].pc = "flag"
        /\ Set(a, [actor[a] EXCEPT !.todo = @ \ {day}])
    BY <1>4 DEF FlagCanonical, history
  <2> QED BY <2>1, TodoFacts, StillComing
<1>5. ASSUME NEW a \in Runs, ScanEvaluations(a) \/ \E e \in actor[a].todo : RecordOutcome(a, e)
      PROVE  WindowInv'
  <2>1. /\ UNCHANGED <<now, predictions, evaluations, inherited, missed>>
        /\ actor[a].pc # "evaluate" /\ \E todo : Attribute(a, todo)
    BY <1>5 DEF ScanEvaluations, RecordOutcome, table, history
  <2> QED BY <2>1, AttributeFacts, StillComing
<1>6. CASE UNCHANGED vars
  BY <1>6 DEF vars, table, history, WindowInv, Due, LastMidnight, EvaluatedAt, Coming, InWindow, Selected
<1> QED BY <1>1, <1>2, <1>3, <1>4, <1>5, <1>6, EvaluateWindow, PublishWindow, SettleWindow,
           TimeWindow, CrashWindow, FailureWindow DEF Next, Run

-----------------------------------------------------------------------------
(* The theorems *)

(* The inductive invariant: rows and runs keep to their types, pairs are
   recorded once unless two runs had selected them, days come from two
   failures, evaluations are held until they are recorded or lost, and a pair
   that is due is recorded or with a run.                                  *)
THEOREM Inductive == Spec => []IInv
<1>1. IInv /\ [Next]_vars => IInv'
  BY NextTypes, NextCount, NextDays, NextAttribution, NextMade, NextWindow DEF IInv
<1> QED BY InitInv, <1>1, PTL DEF Spec

(* For any number of runs, predictions, horizons and failures the tables hold
   rows the schema accepts, and an analyst has one unsettled row.          *)
THEOREM TypeCorrect == Spec => []TypeOK
<1>1. IInv => TypeOK
  <2> SUFFICES ASSUME TypeInv PROVE TypeOK
    BY DEF IInv
  <2>1. IsFiniteSet(Active) /\ Cardinality(Active) <= 1
    <3>1. CASE Active = {}
      BY <3>1, FS_EmptySet
    <3>2. ASSUME NEW p \in Active PROVE IsFiniteSet(Active) /\ Cardinality(Active) <= 1
      <4>1. Active = {p}
        BY DEF TypeInv, TableInv
      <4>2. IsFiniteSet({p}) /\ Cardinality({p}) = 1
        BY FS_Singleton
      <4> QED BY <4>1, <4>2
    <3> QED BY <3>1, <3>2
  <2>2. ASSUME NEW a \in Runs
        PROVE  /\ actor[a].since \in 0..Len(evaluations)
               /\ actor[a].horizons \subseteq Horizons
               /\ actor[a].horizon \in Horizons \cup {0}
               /\ actor[a].pc \in {"idle", "evaluate", "flag", "attribute"}
    BY StateFacts DEF TypeInv, RunInv, State, StateOK
  <2>3. ASSUME NEW a \in Runs
        PROVE  /\ actor[a].pc = "idle" => actor[a] = Idle
               /\ actor[a].pc = "evaluate" =>
                    actor[a].todo \subseteq [id : DOMAIN predictions, created : Nat, confident : BOOLEAN]
               /\ actor[a].pc = "flag" =>
                    actor[a].todo \subseteq [prediction : DOMAIN predictions, date : Nat]
               /\ actor[a].pc = "attribute" => actor[a].todo \subseteq DOMAIN evaluations
    BY DEF TypeInv, RunInv, StateOK, Row, Flag
  <2> QED BY <2>1, <2>2, <2>3 DEF TypeInv, TableInv, TypeOK
<1> QED BY Inductive, <1>1, PTL

(* However many runs overlap, a pair that no two of them had selected is
   counted once, and a day that is canonical was earned at two horizons or at
   a pair that was raced for.                                              *)
THEOREM CountedOnce == Spec => []EvaluationsCountOnce
<1>1. IInv => EvaluationsCountOnce
  <2> SUFFICES ASSUME TypeInv, CountInv, DayInv PROVE EvaluationsCountOnce
    BY DEF IInv
  <2>1. ASSUME NEW p \in DOMAIN predictions, NEW h \in Horizons, <<p, h>> \notin raced
        PROVE  Cardinality(EvaluatedAt(p, h)) <= 1
    <3>1. \A e, f \in EvaluatedAt(p, h) : e = f
      BY <2>1, StateFacts DEF CountInv, Once
    <3>2. CASE EvaluatedAt(p, h) = {}
      BY <3>2, FS_EmptySet
    <3>3. ASSUME NEW e \in EvaluatedAt(p, h) PROVE Cardinality(EvaluatedAt(p, h)) <= 1
      <4>1. EvaluatedAt(p, h) = {e}
        BY <3>1
      <4> QED BY <4>1, FS_Singleton
    <3> QED BY <3>2, <3>3
  <2>2. ASSUME NEW c \in canonical
        PROVE  LET wrong == {h \in Horizons : \E e \in EvaluatedAt(c.prediction, h) :
                                                ~evaluations[e].correct}
               IN Cardinality(wrong) >= 2 \/ \E h \in wrong : <<c.prediction, h>> \in raced
    <3> DEFINE wrong == {h \in Horizons : \E e \in EvaluatedAt(c.prediction, h) :
                                            ~evaluations[e].correct}
    <3>1. PICK e \in Of(c.prediction), f \in Of(c.prediction) :
            e # f /\ ~evaluations[e].correct /\ ~evaluations[f].correct
      BY DEF DayInv, WrongTwice
    <3> DEFINE h == evaluations[e].horizon
               k == evaluations[f].horizon
    <3>2. /\ h \in wrong /\ k \in wrong
          /\ e \in EvaluatedAt(c.prediction, h) /\ f \in EvaluatedAt(c.prediction, k)
      BY <3>1, StateFacts DEF Of, EvaluatedAt, Evaluated
    <3>3. CASE h = k
      <4>1. c.prediction \in Nat
        BY StateFacts DEF TypeInv, TableInv
      <4>2. ~(\A x, y \in EvaluatedAt(c.prediction, h) : x = y)
        BY <3>1, <3>2, <3>3
      <4>3. <<c.prediction, h>> \in raced
        BY <3>2, <4>1, <4>2 DEF CountInv, Once
      <4> QED BY <3>2, <4>3
    <3>4. CASE h # k
      <4> HIDE DEF h, k
      <4>1. {h, k} \subseteq wrong /\ IsFiniteSet(wrong)
        BY <3>2, FS_Subset
      <4>2. IsFiniteSet({h}) /\ Cardinality({h}) = 1
        BY FS_Singleton
      <4>3. Cardinality({h, k}) = 2
        <5>1. k \notin {h} /\ {h, k} = {h} \cup {k}
          BY <3>4
        <5>2. Cardinality({h} \cup {k}) = Cardinality({h}) + 1
          BY <4>2, <5>1, FS_AddElement
        <5> QED BY <4>2, <5>1, <5>2
      <4>4. Cardinality({h, k}) <= Cardinality(wrong) /\ Cardinality(wrong) \in Nat
        BY <4>1, FS_Subset, FS_CardinalityType
      <4> QED BY <4>3, <4>4
    <3> QED BY <3>3, <3>4
  <2> QED BY <2>1, <2>2 DEF EvaluationsCountOnce
<1> QED BY Inductive, <1>1, PTL

(* Windows of a day, hit once a night, pass over no pair of any horizon but
   for the failures and rewritings that the history names.                 *)
THEOREM NoneIsMissed == Spec => []EveryHorizonEvaluated
<1>1. IInv => EveryHorizonEvaluated
  <2> SUFFICES ASSUME TypeInv, MadeInv, WindowInv,
                      NEW p \in DOMAIN predictions, NEW h \in Horizons,
                      predictions[p].created < now - Day * (h + 1),
                      Comparable(predictions[p].created, h),
                      <<p, h>> \notin missed \cup inherited
               PROVE  \E e \in EvaluatedAt(p, h) : evaluations[e].made = predictions[p].created
    BY DEF IInv, EveryHorizonEvaluated
  <2>1. now \in Nat /\ h \in Nat /\ predictions[p].created \in Nat
    BY TimeFacts, StateFacts DEF Prediction
  <2>2. Due(p, h)
    BY <2>1, TimeFacts DEF Due, Day
  <2>3. ~Coming(p, h)
    BY <2>1 DEF Coming, InWindow, Day
  <2> QED BY <2>2, <2>3 DEF WindowInv, MadeInv
<1> QED BY Inductive, <1>1, PTL

(* When no run is under way every evaluation has its outcome, or its run
   failed to give it one.                                                  *)
THEOREM Attributed == Spec => []EvaluationsAttributed
<1>1. IInv => EvaluationsAttributed
  BY DEF IInv, AttributionInv, Holds, EvaluationsAttributed, Quiet, Idle
<1> QED BY Inductive, <1>1, PTL

=============================================================================
