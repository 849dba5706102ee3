------------------------------ MODULE Evaluation ------------------------------
(***************************************************************************)
(* What becomes of the predictions of one analyst on one instrument: they  *)
(* are published, settled in the evening, compared with the market at each *)
(* horizon, flagged as canonical test days when they failed throughout,    *)
(* and attributed.                                                         *)
(*                                                                         *)
(* An evaluation run is started by the cron at midnight, by a settlement   *)
(* and by an admin request; nothing keeps two of them apart.  A run        *)
(* selects what is pending at each horizon, treats it row by row over      *)
(* minutes, then flags, then hands over to the attribution, which takes    *)
(* the evaluations made since the run was started.                         *)
(*                                                                         *)
(* Time is counted in half-days.  A prediction is made some time within    *)
(* the half-day `created' numbers, runs start as a half-day begins: at     *)
(* midnight when its number is even.  Runs take minutes, and no half-day   *)
(* ends before they do.                                                    *)
(***************************************************************************)
EXTENDS Integers, Sequences, FiniteSets

CONSTANTS
  Runs,            \* evaluation runs in flight
  Horizons,        \* default_evaluation_horizons, in days
  MaxTime,         \* bound: half-days
  MaxPredictions,  \* bound: rows of market_predictions
  Confidences,     \* whether a prediction's confidence is 70 or more
  MaxRuns,         \* bound: runs besides those of the cron
  MaxFailures,     \* bound: failed statements, deaths of the process, nights off
  PublishTimes,    \* bound: half-days in which something is published
  MaxPublished     \* bound: predictions published, over an earlier one or not

ASSUME ConstantsAssumption ==
  /\ Horizons \subseteq Nat \ {0}
  /\ IsFiniteSet(Horizons)
  /\ PublishTimes \subseteq Nat
  /\ Confidences \subseteq BOOLEAN
  /\ {MaxTime, MaxPredictions, MaxRuns, MaxFailures, MaxPublished} \subseteq Nat

VARIABLES
  now,          \* half-days since the start
  predictions,  \* the rows of market_predictions, in order of their ids
  evaluations,  \* prediction_horizon_evaluations, in order of created_at
  canonical,    \* canonical_test_days: prediction and date of each row
  outcomes,     \* outcome_records: the evaluations that have one
  actor,        \* what each run is doing
  raced,        \* history: pairs two runs had selected when one was recorded
  missed,       \* history: pairs given up by a run, or by a night without one
  inherited,    \* history: pairs whose row was rewritten after its selection
  lost,         \* history: evaluations whose run failed to attribute them
  runs,         \* runs besides those of the cron so far
  failures,     \* failures so far
  published     \* predictions published so far

table == <<predictions, evaluations, canonical, outcomes>>
history == <<raced, missed, inherited, lost>>
spent == <<runs, failures>>
vars == <<now, table, actor, history, spent, published>>

Day == 2

(* What a prediction says comes out right or wrong; at a confidence of 70 and
   more it may make a canonical day.                                       *)
Prediction == [confident : BOOLEAN, created : Nat, settled : BOOLEAN]

Evaluated == [prediction : Nat \ {0}, horizon : Horizons, made : Nat,
              confident : BOOLEAN, correct : BOOLEAN]

(* What a run holds: the number of evaluations there were when it started,
   the horizons still to select, the horizon it is at with the rows selected
   for it, or the rows to flag or attribute.                               *)
Idle == [pc |-> "idle", since |-> 0, horizons |-> {}, horizon |-> 0, todo |-> {}]

Set(a, state) == actor' = [actor EXCEPT ![a] = state]

Quiet == \A a \in Runs : actor[a] = Idle

Init ==
  /\ now = 0
  /\ predictions = <<>>
  /\ evaluations = <<>>
  /\ canonical = {}
  /\ outcomes = {}
  /\ actor = [a \in Runs |-> Idle]
  /\ raced = {}
  /\ missed = {}
  /\ inherited = {}
  /\ lost = {}
  /\ runs = 0
  /\ failures = 0
  /\ published = 0

-----------------------------------------------------------------------------
(* Publishing and settling *)

EvaluatedAt(p, h) ==
  {e \in DOMAIN evaluations : evaluations[e].prediction = p /\ evaluations[e].horizon = h}

(* A run has selected the prediction at this horizon and not recorded it. *)
Selected(a, p, h) ==
  /\ actor[a].pc = "evaluate"
  /\ actor[a].horizon = h
  /\ \E row \in actor[a].todo : row.id = p

(* The row of the triple that is not settled yet. *)
Active == {p \in DOMAIN predictions : ~predictions[p].settled}

(* Mutant: the unsettled row is not looked for. *)
InsertAlways(confident) ==
  /\ published < MaxPublished
  /\ now \in PublishTimes
  /\ published' = published + 1
  /\ Len(predictions) < MaxPredictions
  /\ predictions' = Append(predictions,
       [confident |-> confident, created |-> now, settled |-> FALSE])
  /\ UNCHANGED <<now, evaluations, canonical, outcomes, actor, history, spent>>

(* The row of the triple that is not settled is written over, with its id:
   what was evaluated, or selected to be, under that id was another text.  *)
Publish(confident) ==
  LET new == [confident |-> confident, created |-> now, settled |-> FALSE]
      known(p) == {h \in Horizons : \/ EvaluatedAt(p, h) # {}
                                    \/ \E a \in Runs : Selected(a, p, h)}
  IN /\ published < MaxPublished
     /\ now \in PublishTimes
     /\ published' = published + 1
     /\ \/ /\ Active = {}
           /\ Len(predictions) < MaxPredictions
           /\ predictions' = Append(predictions, new)
           /\ UNCHANGED inherited
        \/ \E p \in Active :
             /\ predictions' = [predictions EXCEPT ![p] = new]
             /\ inherited' = inherited \cup {<<p, h>> : h \in known(p)}
     /\ UNCHANGED <<now, evaluations, canonical, outcomes, actor, raced, missed,
                    lost, spent>>

(* The end of the day: the settlement's UPDATE of all that is not settled. *)
MarkSettled ==
  /\ Active # {}
  /\ predictions' = [p \in DOMAIN predictions |-> [predictions[p] EXCEPT !.settled = TRUE]]
  /\ UNCHANGED <<now, evaluations, canonical, outcomes, actor, history, spent, published>>

-----------------------------------------------------------------------------
(* Evaluation *)

StartRun(a) ==
  /\ actor[a] = Idle
  /\ Set(a, [pc |-> "evaluate", since |-> Len(evaluations), horizons |-> Horizons,
             horizon |-> 0, todo |-> {}])

(* A settlement or an admin starts one at any time. *)
ExtraRun(a) ==
  /\ StartRun(a)
  /\ runs < MaxRuns
  /\ runs' = runs + 1
  /\ UNCHANGED <<now, table, history, failures, published>>

(* From h to h + 1 days ago. *)
InWindow(created, h) ==
  /\ created < now - Day * h
  /\ created >= now - Day * (h + 1)

(* Mutant: whether there is an evaluation already is not asked. *)
PendingAnyway(h) == {p \in DOMAIN predictions : InWindow(predictions[p].created, h)}

Pending(h) == {p \in DOMAIN predictions : /\ InWindow(predictions[p].created, h)
                                          /\ EvaluatedAt(p, h) = {}}

(* Horizons in the order of the default configuration, shortest first; rows
   in the order of their table, which the queries leave open within an
   instrument.                                                             *)
First(numbers) == {n \in numbers : \A m \in numbers : n <= m}

FirstRow(rows) == {row \in rows : row.id \in First({r.id : r \in rows})}

SelectedRow(q) == [id |-> q, created |-> predictions[q].created,
                   confident |-> predictions[q].confident]

(* Mutant: the rows of half a day are selected. *)
FindHalfADay(a, h) ==
  LET p == actor[a]
  IN /\ p.pc = "evaluate"
     /\ p.todo = {}
     /\ h \in First(p.horizons)
     /\ Set(a, [p EXCEPT !.horizon = h, !.horizons = @ \ {h},
                  !.todo = {SelectedRow(q) : q \in
                     {r \in Pending(h) : predictions[r].created > now - Day * (h + 1)}}])
     /\ UNCHANGED <<now, table, history, spent, published>>

(* The rows of a horizon, as they are now. *)
FindPendingEvaluations(a, h) ==
  LET p == actor[a]
  IN /\ p.pc = "evaluate"
     /\ p.todo = {}
     /\ h \in First(p.horizons)
     /\ Set(a, [p EXCEPT !.horizon = h, !.horizons = @ \ {h},
                         !.todo = {SelectedRow(q) : q \in Pending(h)}])
     /\ UNCHANGED <<now, table, history, spent, published>>

(* A bar is stamped with the beginning of its day.  The first one after a
   prediction and the last one before its horizon are the same at one day:
   such a horizon never has its data.                                      *)
StartBar(created) == Day * (created \div Day + 1)
EndBar(created, h) == Day * ((created + Day * h) \div Day)
Comparable(created, h) == StartBar(created) # EndBar(created, h)

(* A row of the selection is compared with the bars and recorded.  There is
   no key of (prediction, horizon) for `on conflict' to find.           *)
Evaluate(a, row, correct) ==
  LET p == actor[a]
      pair == <<row.id, p.horizon>>
  IN /\ p.pc = "evaluate"
     /\ row \in FirstRow(p.todo)
     /\ Set(a, [p EXCEPT !.todo = @ \ {row}])
     /\ IF Comparable(row.created, p.horizon)
        THEN /\ evaluations' = Append(evaluations,
                  [prediction |-> row.id, horizon |-> p.horizon, made |-> row.created,
                   confident |-> row.confident, correct |-> correct])
             /\ raced' = IF \E b \in Runs \ {a} : Selected(b, row.id, p.horizon)
                         THEN raced \cup {pair} ELSE raced
        ELSE UNCHANGED <<evaluations, raced>>
     /\ UNCHANGED <<now, predictions, canonical, outcomes, missed, inherited, lost,
                    spent, published>>

-----------------------------------------------------------------------------
(* Canonical days and attribution *)

Of(p) == {e \in DOMAIN evaluations : evaluations[e].prediction = p}

(* min(prediction_date)::date *)
DateOf(p) ==
  LET first == CHOOSE e \in Of(p) : \A f \in Of(p) : evaluations[e].made <= evaluations[f].made
  IN evaluations[first].made \div Day

(* Mutant: one failure is enough. *)
FailedOnce ==
  {p \in DOMAIN predictions :
     /\ Of(p) # {}
     /\ \A e \in Of(p) : ~evaluations[e].correct
     /\ \E e \in Of(p) : evaluations[e].confident}

(* Wrong wherever it was evaluated, twice at least, and confident. *)
FailedThroughout ==
  {p \in DOMAIN predictions :
     /\ Cardinality(Of(p)) >= 2
     /\ \A e \in Of(p) : ~evaluations[e].correct
     /\ \E e \in Of(p) : evaluations[e].confident}

FindCandidates(a) ==
  LET p == actor[a]
      known == {c.date : c \in canonical}
      candidates == {q \in FailedThroughout : DateOf(q) \notin known}
  IN /\ p.pc = "evaluate"
     /\ p.todo = {}
     /\ p.horizons = {}
     /\ Set(a, [p EXCEPT !.pc = "flag", !.horizon = 0,
                         !.todo = {[prediction |-> q, date |-> DateOf(q)] : q \in candidates}])
     /\ UNCHANGED <<now, table, history, spent, published>>

FlagCanonical(a, day) ==
  LET p == actor[a]
  IN /\ p.pc = "flag"
     /\ day \in p.todo
     /\ canonical' = canonical \cup {day}
     /\ Set(a, [p EXCEPT !.todo = @ \ {day}])
     /\ UNCHANGED <<now, predictions, evaluations, outcomes, history, spent, published>>

Unattributed(since) == {e \in DOMAIN evaluations \ outcomes : e > since}

(* A run ends with its last record. *)
Attribute(a, todo) ==
  Set(a, IF todo = {} THEN Idle
         ELSE [actor[a] EXCEPT !.pc = "attribute", !.todo = todo])

(* Mutant: the scan goes back to the start of the flagging only. *)
ScanLater(a) ==
  LET p == actor[a]
  IN /\ p.pc = "flag"
     /\ p.todo = {}
     /\ Attribute(a, Unattributed(p.since + 1))
     /\ UNCHANGED <<now, table, history, spent, published>>

(* The hook at the end of a run: evaluations since its start, whoever made
   them, that have no record.                                              *)
ScanEvaluations(a) ==
  LET p == actor[a]
  IN /\ p.pc = "flag"
     /\ p.todo = {}
     /\ Attribute(a, Unattributed(p.since))
     /\ UNCHANGED <<now, table, history, spent, published>>

(* Unique for the evaluation. *)
RecordOutcome(a, e) ==
  LET p == actor[a]
  IN /\ p.pc = "attribute"
     /\ e \in First(p.todo)
     /\ outcomes' = outcomes \cup {e}
     /\ Attribute(a, p.todo \ {e})
     /\ UNCHANGED <<now, predictions, evaluations, canonical, history, spent, published>>

-----------------------------------------------------------------------------
(* Failures and time *)

Failure ==
  /\ failures < MaxFailures
  /\ failures' = failures + 1
  /\ UNCHANGED runs

(* A failed statement, or data that a provider does not have or give.  The
   selection of a horizon comes back empty, an evaluation, a flag or a
   record is given up, a failed scan attributes nothing.                   *)
SelectionFails(a) ==
  LET p == actor[a]
  IN /\ p.pc = "evaluate"
     /\ p.todo = {}
     /\ \E h \in First(p.horizons) :
          /\ missed' = missed \cup (Pending(h) \X {h})
          /\ Set(a, [p EXCEPT !.horizons = @ \ {h}])
     /\ UNCHANGED lost

EvaluationFails(a) ==
  LET p == actor[a]
  IN /\ p.pc = "evaluate"
     /\ \E row \in FirstRow(p.todo) :
          /\ missed' = missed \cup {<<row.id, p.horizon>>}
          /\ Set(a, [p EXCEPT !.todo = @ \ {row}])
     /\ UNCHANGED lost

FlaggingFails(a) ==
  LET p == actor[a]
  IN /\ \/ /\ p.pc = "evaluate" /\ p.todo = {} /\ p.horizons = {}
           /\ Set(a, [p EXCEPT !.pc = "flag", !.horizon = 0])
        \/ /\ p.pc = "flag"
           /\ \E day \in p.todo : Set(a, [p EXCEPT !.todo = @ \ {day}])
     /\ UNCHANGED <<missed, lost>>

AttributionFails(a) ==
  LET p == actor[a]
  IN /\ \/ /\ p.pc = "flag" /\ p.todo = {}
           /\ lost' = lost \cup Unattributed(p.since)
           /\ Set(a, Idle)
        \/ /\ p.pc = "attribute"
           /\ \E e \in First(p.todo) : /\ lost' = lost \cup {e}
                                        /\ Attribute(a, p.todo \ {e})
     /\ UNCHANGED missed

StatementFails(a) ==
  /\ Failure
  /\ SelectionFails(a) \/ EvaluationFails(a) \/ FlaggingFails(a) \/ AttributionFails(a)
  /\ UNCHANGED <<now, table, raced, inherited, published>>

(* Pairs that may be selected no more after this half-day, or this night. *)
InAnyWindow == UNION {Pending(h) \X {h} : h \in Horizons}

(* The API process dies, and its runs with it. *)
Crash ==
  /\ Failure
  /\ ~Quiet
  /\ actor' = [a \in Runs |-> Idle]
  /\ missed' = missed \cup InAnyWindow
  /\ lost' = lost \cup UNION {Unattributed(actor[a].since) : a \in {b \in Runs : actor[b] # Idle}}
  /\ UNCHANGED <<now, table, raced, inherited, published>>

(* Half a day goes by.  At midnight the cron starts a run, unless the process
   is down or the cron switched off.                                       *)
Midnight(a) ==
  /\ Quiet
  /\ now < MaxTime
  /\ now % Day # 0
  /\ now' = now + 1
  /\ StartRun(a)
  /\ UNCHANGED <<table, history, spent, published>>

WindowTonight(h) ==
  {p \in DOMAIN predictions :
     /\ predictions[p].created \in now - Day * h - 1 .. now - Day * h
     /\ EvaluatedAt(p, h) = {}}

MidnightWithoutRun ==
  /\ Quiet
  /\ now < MaxTime
  /\ now % Day # 0
  /\ Failure
  /\ now' = now + 1
  /\ missed' = missed \cup UNION {WindowTonight(h) \X {h} : h \in Horizons}
  /\ UNCHANGED <<table, actor, raced, inherited, lost, published>>

Noon ==
  /\ Quiet
  /\ now < MaxTime
  /\ now % Day = 0
  /\ now' = now + 1
  /\ UNCHANGED <<table, actor, history, spent, published>>

Run(a) ==
  \/ ExtraRun(a)
  \/ \E h \in Horizons : FindPendingEvaluations(a, h)
  \/ \E row \in actor[a].todo, correct \in BOOLEAN : Evaluate(a, row, correct)
  \/ FindCandidates(a)
  \/ \E day \in actor[a].todo : FlagCanonical(a, day)
  \/ ScanEvaluations(a)
  \/ \E e \in actor[a].todo : RecordOutcome(a, e)

Next ==
  \/ \E confident \in Confidences : Publish(confident)
  \/ MarkSettled
  \/ \E a \in Runs : Run(a) \/ StatementFails(a) \/ Midnight(a)
  \/ MidnightWithoutRun
  \/ Noon
  \/ Crash

Spec == Init /\ [][Next]_vars

-----------------------------------------------------------------------------
(* Properties *)

(* Rows of every table are rows the schema accepts; an analyst has one row on
   the instrument that is not settled.                                     *)
TypeOK ==
  /\ now \in 0..MaxTime
  /\ predictions \in Seq(Prediction)
  /\ evaluations \in Seq(Evaluated)
  /\ \A c \in canonical : c.prediction \in DOMAIN predictions /\ c.date \in Nat
  /\ outcomes \subseteq DOMAIN evaluations
  /\ Cardinality(Active) <= 1
  /\ \A a \in Runs :
       LET p == actor[a]
       IN /\ p.since \in 0..Len(evaluations)
          /\ p.horizons \subseteq Horizons
          /\ p.horizon \in Horizons \cup {0}
          /\ CASE p.pc = "idle" -> p = Idle
               [] p.pc = "evaluate" ->
                    p.todo \subseteq [id : DOMAIN predictions, created : Nat, confident : BOOLEAN]
               [] p.pc = "flag" ->
                    p.todo \subseteq [prediction : DOMAIN predictions, date : Nat]
               [] p.pc = "attribute" -> p.todo \subseteq DOMAIN evaluations

(* The window of a day, hit once a night, lets no prediction through: when a
   horizon has gone by, what the row now says has been evaluated at it,
   unless data or a statement failed, there was no run that night, or the id
   had already been evaluated when the row was written over.               *)
EveryHorizonEvaluated ==
  \A p \in DOMAIN predictions, h \in Horizons :
    /\ predictions[p].created < now - Day * (h + 1)
    /\ Comparable(predictions[p].created, h)
    /\ <<p, h>> \notin missed \cup inherited
    => \E e \in EvaluatedAt(p, h) : evaluations[e].made = predictions[p].created

(* With no run under way every evaluation has its outcome record: runs that
   overlap attribute for each other, but nobody goes back for what a failed
   scan, a failed record or a crash left behind.                           *)
EvaluationsAttributed ==
  Quiet => DOMAIN evaluations \subseteq outcomes \cup lost

(* However cron, settlements and admin runs overlap, a prediction counts once
   at a horizon, and a canonical day is that of a prediction that was wrong
   at two horizons: only where a run had selected a prediction before another
   recorded its evaluation there is a second one, which then makes a day
   canonical as if it were of another horizon.                             *)
EvaluationsCountOnce ==
  /\ \A p \in DOMAIN predictions, h \in Horizons :
       <<p, h>> \notin raced => Cardinality(EvaluatedAt(p, h)) <= 1
  /\ \A c \in canonical :
       LET wrong == {h \in Horizons : \E e \in EvaluatedAt(c.prediction, h) :
                                        ~evaluations[e].correct}
       IN Cardinality(wrong) >= 2 \/ \E h \in wrong : <<c.prediction, h>> \in raced

=============================================================================
