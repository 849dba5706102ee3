---------------------- MODULE SubscriptionMirrorProofs ----------------------
(***************************************************************************)
(* Proofs about SubscriptionMirror for any users, any number of events and *)
(* any number of failures: its type invariant, that a Stripe event leaves  *)
(* at most one row in the audit log, that a row never loses its link to    *)
(* Stripe, and that the purge cron signals a user once.                    *)
(***************************************************************************)
EXTENDS SubscriptionMirror, SequenceTheorems, TLAPS

USE ConstantsAssumption

EventType == {Upsert, Deleted, Paid, Failed} \cup Side

(* What a working handler knows about its event. *)
WorkInv ==
  /\ \A e \in Event :
       /\ Working(e) => e <= Len(stripeLog) /\ inbox[e] # "absent"
       /\ handler[e].pc = "stamp" => stripeLog[e].type = Deleted
       /\ handler[e].pc = "append" =>
            stripeLog[e].type \in {Upsert, Deleted, Paid, Failed}
  /\ expiry.pc \in {"write", "append"} => expiry.cur \in User

(* An audit row written for an event means that its handler has passed the
   append: it was accepted and is finishing or gone.                      *)
AuditInv ==
  \A u \in User : \A i \in DOMAIN audit[u] :
    audit[u][i].reason = "stripe" =>
      LET e == audit[u][i].event
      IN /\ e \in Event
         /\ inbox[e] # "absent"
         /\ handler[e].pc \in {"idle", "finish"}

IInv == TypeOK /\ WorkInv /\ AuditInv /\ OneAuditRowPerEvent

LEMMA LogGrows ==
  ASSUME TypeOK, NEW u \in User, NEW s \in StripeStatus, NEW t \in BOOLEAN,
         NEW types \in Seq(EventType), StripeMoves(u, s, t, types)
  PROVE  /\ stripe' \in [User -> [status : StripeStatus \cup {"none"},
                                  trial : BOOLEAN]]
         /\ stripeLog' \in Seq(Body)
         /\ Len(stripeLog) <= Len(stripeLog')
         /\ Len(stripeLog') <= MaxEvents
         /\ \A e \in 1..Len(stripeLog) : stripeLog'[e] = stripeLog[e]
<1> DEFINE new == [i \in 1..Len(types) |->
                     [user |-> u, type |-> types[i], status |-> s, trial |-> t]]
<1>1. new \in Seq(Body) /\ Len(new) = Len(types)
  <2>1. \A i \in 1..Len(types) : types[i] \in EventType
    BY ElementOfSeq
  <2>2. new \in [1..Len(types) -> Body]
    BY <2>1 DEF Body, EventType
  <2>3. Len(types) \in Nat
    BY LenProperties
  <2>4. new \in Seq(Body)
    BY <2>2, <2>3, SeqDef
  <2>5. DOMAIN new = 1..Len(types) /\ DOMAIN new = 1..Len(new) /\ Len(new) \in Nat
    BY <2>2, <2>4, LenProperties
  <2> QED BY <2>3, <2>4, <2>5
<1>2. stripeLog' = stripeLog \o new /\ Len(stripeLog) + Len(types) <= MaxEvents
  BY DEF StripeMoves
<1>3. stripeLog \in Seq(Body)
  BY DEF TypeOK
<1> HIDE DEF new
<1>4. /\ stripeLog' \in Seq(Body)
      /\ Len(stripeLog') = Len(stripeLog) + Len(new)
      /\ \A e \in 1..Len(stripeLog) : stripeLog'[e] = stripeLog[e]
  <2>1. Len(stripeLog) \in Nat /\ Len(new) \in Nat
    BY <1>1, <1>3, LenProperties
  <2>2. /\ stripeLog \o new \in Seq(Body)
        /\ Len(stripeLog \o new) = Len(stripeLog) + Len(new)
    BY <1>1, <1>3, ConcatProperties
  <2>3. ASSUME NEW e \in 1..Len(stripeLog)
        PROVE  (stripeLog \o new)[e] = stripeLog[e]
    BY <1>1, <1>3, <2>1, ConcatProperties
  <2> QED BY <1>2, <2>2, <2>3
<1>5. stripe' \in [User -> [status : StripeStatus \cup {"none"},
                            trial : BOOLEAN]]
  BY DEF TypeOK, StripeMoves
<1> QED BY <1>1, <1>2, <1>3, <1>4, <1>5, LenProperties

LEMMA UpdateRowType ==
  ASSUME TypeOK, NEW u \in User, NEW r \in Row, UpdateRow(u, r)
  PROVE  row' \in [User -> Row]
BY DEF TypeOK, UpdateRow

(* The audit log after AppendAudit, row by row. *)
LEMMA AuditGrows ==
  ASSUME TypeOK, NEW u \in User,
         NEW from \in Status \cup {"none"}, NEW to \in Status,
         NEW reason \in {"stripe", "trial_ended_no_card", "migration_backfill",
                         "purge_warning_30d", "purge_scheduled"},
         NEW e \in Nat, AppendAudit(u, from, to, reason, e)
  PROVE  /\ audit' \in [User -> Seq(AuditRow)]
         /\ \A v \in User \ {u} : audit'[v] = audit[v]
         /\ DOMAIN audit[u] = 1..Len(audit[u]) /\ Len(audit[u]) \in Nat
         /\ DOMAIN audit'[u] = 1..(Len(audit[u]) + 1)
         /\ \A i \in DOMAIN audit[u] : audit'[u][i] = audit[u][i]
         /\ audit'[u][Len(audit[u]) + 1] =
              [from |-> from, to |-> to, reason |-> reason, event |-> e]
<1> DEFINE a == [from |-> from, to |-> to, reason |-> reason, event |-> e]
<1>1. a \in AuditRow
  BY DEF AuditRow
<1>2. audit \in [User -> Seq(AuditRow)] /\ audit[u] \in Seq(AuditRow)
  BY DEF TypeOK
<1>3. audit' = [audit EXCEPT ![u] = Append(audit[u], a)]
  BY DEF AppendAudit
<1> HIDE DEF a
<1>4. /\ Append(audit[u], a) \in Seq(AuditRow)
      /\ Len(Append(audit[u], a)) = Len(audit[u]) + 1
      /\ \A i \in 1..Len(audit[u]) : Append(audit[u], a)[i] = audit[u][i]
      /\ Append(audit[u], a)[Len(audit[u]) + 1] = a
  BY <1>1, <1>2, AppendProperties
<1>5. /\ DOMAIN audit[u] = 1..Len(audit[u]) /\ Len(audit[u]) \in Nat
      /\ DOMAIN Append(audit[u], a) = 1..Len(Append(audit[u], a))
  BY <1>2, <1>4, LenProperties
<1>6. audit'[u] = Append(audit[u], a)
  BY <1>2, <1>3
<1> USE DEF a
<1> QED BY <1>2, <1>3, <1>4, <1>5, <1>6

-----------------------------------------------------------------------------
(* Types *)

LEMMA InitType == Init => TypeOK
<1> SUFFICES ASSUME Init PROVE TypeOK
  OBVIOUS
<1>1. row \in [User -> Row]
  BY DEF Init, Row, NoRow, SeedRow, Status
<1>2. stripeLog \in Seq(Body) /\ Len(stripeLog) = 0
  BY EmptySeq DEF Init
<1>3. audit \in [User -> Seq(AuditRow)]
  BY EmptySeq DEF Init
<1> QED BY <1>1, <1>2, <1>3 DEF Init, TypeOK, NoRequest, NoExpiry, NoPurge

(* The statuses a handler writes are statuses of the row. *)
LEMMA NewStatusType ==
  ASSUME NEW b \in Body, b.type \in {Upsert, Deleted, Paid, Failed}
  PROVE  NewStatus(b) \in Status
BY DEF Body, NewStatus, MapStripeStatus, Status, StripeStatus, Upsert, Deleted,
       Paid, Failed

LEMMA EventBody ==
  ASSUME TypeOK, WorkInv, NEW e \in Event, Working(e)
  PROVE  /\ stripeLog[e] \in Body
         /\ stripeLog[e].user \in User
         /\ row[stripeLog[e].user] \in Row
<1>1. e \in 1..Len(stripeLog)
  <2>1. Len(stripeLog) \in Nat
    BY LenProperties DEF TypeOK
  <2> QED BY <2>1 DEF WorkInv, Event
<1>2. stripeLog[e] \in Body
  BY <1>1, ElementOfSeq DEF TypeOK
<1> QED BY <1>2 DEF Body, TypeOK

LEMMA EnvironmentType ==
  ASSUME TypeOK, Environment
  PROVE  /\ TypeOK'
         /\ UNCHANGED <<acked, inbox, handler, audit, cronVars, faults>>
         /\ Len(stripeLog) <= Len(stripeLog')
         /\ \A e \in 1..Len(stripeLog) : stripeLog'[e] = stripeLog[e]
<1> PICK u \in User : \/ EnsureSubscription(u)
                      \/ CreateCheckoutSession(u)
                      \/ TrialClock(u)
                      \/ PurgeClock(u)
                      \/ StripeCheckoutCompletes(u)
                      \/ StripeTransition(u)
                      \/ StripeSideEvent(u)
  BY DEF Environment
<1> USE DEF stripeVars, cronVars
<1>r. row[u] \in Row
  BY DEF TypeOK
<1>l. Len(stripeLog) \in Nat
  BY LenProperties DEF TypeOK
<1>1. CASE EnsureSubscription(u)
  <2>1. row' \in [User -> Row]
    BY <1>1 DEF EnsureSubscription, TypeOK, Row, SeedRow, NoRow, Status
  <2> QED BY <1>1, <2>1, <1>l DEF EnsureSubscription, TypeOK
<1>2. CASE CreateCheckoutSession(u)
  <2>1. [row[u] EXCEPT !.customer = TRUE] \in Row
    BY <1>r DEF Row
  <2>2. row' \in [User -> Row]
    BY <1>2, <2>1, UpdateRowType DEF CreateCheckoutSession
  <2>3. session' \in [User -> {"none", "trial", "paid"}]
    BY <1>2 DEF CreateCheckoutSession, TypeOK
  <2> QED BY <1>2, <2>2, <2>3, <1>l DEF CreateCheckoutSession, TypeOK
<1>3. CASE TrialClock(u)
  <2>1. clock \in [User -> 0..2] /\ clock' = [clock EXCEPT ![u] = @ + 1]
        /\ clock[u] < 2
    BY <1>3 DEF TrialClock, TypeOK
  <2>2. clock' \in [User -> 0..2]
    BY <2>1
  <2> QED BY <1>3, <2>2, <1>l DEF TrialClock, TypeOK
<1>4. CASE PurgeClock(u)
  <2>1. row' \in [User -> Row]
    <3>1. [row[u] EXCEPT !.purgeAt = IF row[u].purgeAt = "far" THEN "soon"
                                      ELSE "past"] \in Row
      BY <1>r DEF Row
    <3>2. row' = [row EXCEPT ![u] =
                   [row[u] EXCEPT !.purgeAt = IF row[u].purgeAt = "far"
                                              THEN "soon" ELSE "past"]]
      BY <1>4 DEF PurgeClock
    <3> QED BY <3>1, <3>2 DEF TypeOK
  <2> QED BY <1>4, <2>1, <1>l DEF PurgeClock, TypeOK
<1>5. ASSUME NEW s \in StripeStatus, NEW t \in BOOLEAN,
             NEW types \in Seq(EventType), StripeMoves(u, s, t, types),
             session' \in [User -> {"none", "trial", "paid"}]
      PROVE  /\ TypeOK'
             /\ UNCHANGED <<acked, inbox, handler, audit, cronVars, faults>>
             /\ Len(stripeLog) <= Len(stripeLog')
             /\ \A e \in 1..Len(stripeLog) : stripeLog'[e] = stripeLog[e]
  <2>1. /\ stripe' \in [User -> [status : StripeStatus \cup {"none"},
                                 trial : BOOLEAN]]
        /\ stripeLog' \in Seq(Body)
        /\ Len(stripeLog) <= Len(stripeLog')
        /\ Len(stripeLog') <= MaxEvents
        /\ \A e \in 1..Len(stripeLog) : stripeLog'[e] = stripeLog[e]
    BY <1>5, LogGrows
  <2>2. UNCHANGED <<acked, clock, inbox, handler, row, audit, cronVars, faults>>
    BY <1>5 DEF StripeMoves
  <2> QED BY <1>5, <2>1, <2>2 DEF TypeOK
<1>t. \A ty1, ty2 \in EventType : /\ <<ty1>> \in Seq(EventType)
                                  /\ <<ty1, ty2>> \in Seq(EventType)
  OBVIOUS
<1>e. /\ {Upsert, Paid, Failed, Deleted} \subseteq EventType
      /\ SideTypes \subseteq EventType
  BY DEF EventType
<1>6. CASE StripeCheckoutCompletes(u)
  <2>1. PICK s \in StripeStatus :
          StripeMoves(u, s, session[u] = "trial", <<Upsert>>)
    BY <1>6 DEF StripeCheckoutCompletes, StripeStatus
  <2>2. session' \in [User -> {"none", "trial", "paid"}]
    BY <1>6 DEF StripeCheckoutCompletes, TypeOK
  <2> QED BY <1>5, <1>t, <1>e, <2>1, <2>2
<1>7. CASE StripeTransition(u)
  <2>1. session' \in [User -> {"none", "trial", "paid"}]
    BY <1>7 DEF StripeTransition, TypeOK
  <2>2. stripe[u].trial \in BOOLEAN
    BY DEF TypeOK
  <2>3. \E s \in StripeStatus, types \in Seq(EventType) :
          StripeMoves(u, s, stripe[u].trial, types)
    BY <1>7, <1>t, <1>e DEF StripeTransition, StripeStatus
  <2> QED BY <1>5, <2>1, <2>2, <2>3
<1>8. CASE StripeSideEvent(u)
  <2>1. session' \in [User -> {"none", "trial", "paid"}]
    BY <1>8 DEF StripeSideEvent, TypeOK
  <2>2. stripe[u].trial \in BOOLEAN /\ stripe[u].status \in StripeStatus
    BY <1>8 DEF TypeOK, StripeSideEvent
  <2>3. \E types \in Seq(EventType) :
          StripeMoves(u, stripe[u].status, stripe[u].trial, types)
    BY <1>8, <1>t, <1>e DEF StripeSideEvent
  <2> QED BY <1>5, <2>1, <2>2, <2>3
<1> QED BY <1>1, <1>2, <1>3, <1>4, <1>6, <1>7, <1>8

LEMMA GoToType ==
  ASSUME TypeOK, NEW e \in Event,
         NEW pc \in {"idle", "read", "write", "stamp", "append", "finish"},
         GoTo(e, pc)
  PROVE  handler' \in [Event -> [pc : {"idle", "read", "write", "stamp",
                                       "append", "finish"},
                                 prior : Status \cup {"none"}]]
<1> DEFINE H == [pc : {"idle", "read", "write", "stamp", "append", "finish"},
                 prior : Status \cup {"none"}]
<1>1. handler \in [Event -> H] /\ handler[e] \in H
  BY DEF TypeOK
<1>2. [handler[e] EXCEPT !.pc = pc] \in H
  BY <1>1
<1>3. handler' = [handler EXCEPT ![e] = [handler[e] EXCEPT !.pc = pc]]
  BY DEF GoTo
<1> QED BY <1>1, <1>2, <1>3

LEMMA WriteType ==
  ASSUME TypeOK, WorkInv, NEW e \in Event,
         WriteRow(e) \/ StampDeletion(e)
  PROVE  TypeOK'
<1> DEFINE b == stripeLog[e]
           r == row[b.user]
<1>1. b \in Body /\ b.user \in User /\ r \in Row
  BY EventBody DEF Working, WriteRow, StampDeletion
<1>2. ASSUME NEW q \in Row, UpdateRow(b.user, q)
      PROVE  row' \in [User -> Row]
  BY <1>1, <1>2, UpdateRowType
<1>3. UNCHANGED <<stripeVars, acked, inbox, audit, cronVars, faults>>
  BY DEF WriteRow, StampDeletion
<1>4. SUFFICES /\ row' \in [User -> Row]
               /\ handler' \in [Event -> [pc : {"idle", "read", "write",
                                                "stamp", "append", "finish"},
                                          prior : Status \cup {"none"}]]
  BY <1>3 DEF TypeOK, stripeVars, cronVars
<1>5. CASE HandleSubscriptionUpsert(e)
  <2> DEFINE q == [r EXCEPT !.status = NewStatus(b),
                            !.trialEnds = IF b.trial THEN "stripe" ELSE "none",
                            !.customer = TRUE, !.subId = TRUE]
  <2>1. NewStatus(b) \in Status
    BY <1>1, <1>5, NewStatusType DEF HandleSubscriptionUpsert
  <2>2. q \in Row
    BY <1>1, <2>1 DEF Row
  <2>3. UpdateRow(b.user, q)
    BY <1>5 DEF HandleSubscriptionUpsert
  <2>4. \E pc \in {"finish", "append"} : GoTo(e, pc)
    BY <1>5 DEF HandleSubscriptionUpsert
  <2> HIDE DEF q, b, r
  <2> QED BY <1>2, <2>2, <2>3, <2>4, GoToType
<1>6. CASE HandleSubscriptionDeleted(e)
  <2>1. [r EXCEPT !.status = "canceled"] \in Row
    BY <1>1 DEF Row, Status
  <2> QED BY <1>2, <1>6, <2>1, GoToType DEF HandleSubscriptionDeleted
<1>7. CASE HandleInvoice(e)
  <2>1. NewStatus(b) \in Status
    BY <1>1, <1>7, NewStatusType DEF HandleInvoice
  <2>2. [r EXCEPT !.status = NewStatus(b)] \in Row
    BY <1>1, <2>1 DEF Row
  <2> QED BY <1>2, <1>7, <2>2, GoToType DEF HandleInvoice
<1>8. CASE HandlePaymentMethodAttached(e)
  <2>1. [r EXCEPT !.card = TRUE] \in Row
    BY <1>1 DEF Row
  <2> QED BY <1>2, <1>8, <2>1, GoToType DEF HandlePaymentMethodAttached
<1>9. CASE StampDeletion(e)
  <2>1. [r EXCEPT !.status = "canceled", !.expired = TRUE, !.purgeAt = "far"]
          \in Row
    BY <1>1 DEF Row, Status
  <2> QED BY <1>2, <1>9, <2>1, GoToType DEF StampDeletion
<1> QED BY <1>5, <1>6, <1>7, <1>8, <1>9 DEF WriteRow

LEMMA HandlerType ==
  ASSUME TypeOK, WorkInv, NEW e \in Event,
         Deliver(e) \/ HandlerStep(e) \/ FailEvent(e)
  PROVE  TypeOK'
<1> USE DEF stripeVars, cronVars
<1> DEFINE H == [pc : {"idle", "read", "write", "stamp", "append", "finish"},
                 prior : Status \cup {"none"}]
<1>h. handler \in [Event -> H] /\ handler[e] \in H
  BY DEF TypeOK
<1>n. NoRequest \in H
  BY DEF NoRequest
<1>1. CASE AcceptEvent(e)
  <2>1. handler' \in [Event -> H]
    BY <1>1, <1>h, GoToType DEF AcceptEvent, GoTo
  <2> QED BY <1>1, <2>1 DEF AcceptEvent, TypeOK
<1>2. CASE AnswerDuplicate(e)
  BY <1>2 DEF AnswerDuplicate, TypeOK
<1>3. CASE ReadPrior(e)
  <2>1. row[stripeLog[e].user] \in Row
    BY <1>3, EventBody DEF ReadPrior, Working
  <2>2. row[stripeLog[e].user].status \in Status \cup {"none"}
    BY <2>1 DEF Row
  <2>3. \E pc \in {"write", "finish"}, prior \in Status \cup {"none"} :
          handler' = [handler EXCEPT ![e] = [pc |-> pc, prior |-> prior]]
    BY <1>3, <2>2 DEF ReadPrior
  <2>4. handler' \in [Event -> H]
    BY <1>h, <2>3
  <2> QED BY <1>3, <2>4 DEF ReadPrior, TypeOK
<1>4. CASE WriteRow(e) \/ StampDeletion(e)
  BY <1>4, WriteType
<1>5. CASE AppendEvent(e)
  <2> DEFINE b == stripeLog[e]
  <2>1. b \in Body /\ b.user \in User /\ handler[e].prior \in Status \cup {"none"}
    BY <1>5, <1>h, EventBody DEF AppendEvent, Working
  <2>2. NewStatus(b) \in Status
    BY <1>5, <2>1, NewStatusType DEF AppendEvent, WorkInv
  <2>3. e \in Nat
    BY DEF Event
  <2>4. AppendAudit(b.user, handler[e].prior, NewStatus(b), "stripe", e)
    BY <1>5 DEF AppendEvent
  <2>5. audit' \in [User -> Seq(AuditRow)]
    BY <2>1, <2>2, <2>3, <2>4, AuditGrows
  <2>6. handler' \in [Event -> H]
    BY <1>5, <1>h DEF AppendEvent
  <2> QED BY <1>5, <2>5, <2>6 DEF AppendEvent, TypeOK
<1>6. CASE FinishEvent(e)
  <2>1. handler' \in [Event -> H]
    BY <1>6, <1>h, <1>n DEF FinishEvent
  <2> QED BY <1>6, <2>1 DEF FinishEvent, TypeOK
<1>7. CASE FailEvent(e)
  <2>1. handler' \in [Event -> H]
    BY <1>7, <1>h, <1>n DEF FailEvent
  <2>2. faults' \in 0..MaxFaults
    BY <1>7 DEF FailEvent, Fault, TypeOK
  <2> QED BY <1>7, <2>1, <2>2 DEF FailEvent, TypeOK
<1> QED BY <1>1, <1>2, <1>3, <1>4, <1>5, <1>6, <1>7 DEF Deliver, HandlerStep

LEMMA ExpiryType ==
  ASSUME TypeOK, WorkInv, ExpiryStep \/ MarkExpiredFail
  PROVE  TypeOK'
<1> USE DEF stripeVars
<1> DEFINE X == [pc : {"idle", "loop", "write", "append"}, todo : SUBSET User,
                 cur : User \cup {NoUser}, prior : Status \cup {"none"}]
<1>x. expiry \in X /\ NoExpiry \in X
  BY DEF TypeOK, NoExpiry
<1>n. ASSUME NextExpiry PROVE expiry' \in X
  <2>1. expiry.todo \ {expiry.cur} \in SUBSET User
    BY <1>x
  <2>2. [NoExpiry EXCEPT !.pc = "loop", !.todo = expiry.todo \ {expiry.cur}] \in X
    BY <1>x, <2>1
  <2> QED BY <1>n, <1>x, <2>2 DEF NextExpiry
<1>1. CASE ExpiryTick
  <2>1. PICK due \in SUBSET User :
          expiry' = [expiry EXCEPT !.pc = "loop", !.todo = due]
    BY <1>1 DEF ExpiryTick
  <2>2. expiry' \in X
    BY <1>x, <2>1
  <2> QED BY <1>1, <2>2 DEF ExpiryTick, TypeOK
<1>2. ASSUME NEW u \in User, MarkExpiredRead(u)
      PROVE  TypeOK'
  <2>1. row[u].status \in Status \cup {"none"}
    BY DEF TypeOK, Row
  <2>2. expiry' = [expiry EXCEPT !.pc = "write", !.cur = u,
                                 !.prior = row[u].status]
    BY <1>2 DEF MarkExpiredRead
  <2>3. expiry' \in X
    BY <1>x, <2>1, <2>2
  <2> QED BY <1>2, <2>3 DEF MarkExpiredRead, TypeOK
<1>3. CASE MarkExpiredWrite
  <2>1. expiry.cur \in User /\ row[expiry.cur] \in Row
    BY <1>3 DEF MarkExpiredWrite, WorkInv, TypeOK
  <2>2. [row[expiry.cur] EXCEPT !.status = "canceled", !.expired = TRUE,
                                !.purgeAt = "far"] \in Row
    BY <2>1 DEF Row, Status
  <2>3. row' \in [User -> Row]
    BY <1>3, <2>1, <2>2, UpdateRowType DEF MarkExpiredWrite
  <2>4. expiry' = [expiry EXCEPT !.pc = "append"]
    BY <1>3 DEF MarkExpiredWrite
  <2>5. expiry' \in X
    BY <1>x, <2>4
  <2> QED BY <1>3, <2>3, <2>5 DEF MarkExpiredWrite, TypeOK
<1>4. CASE MarkExpiredAppend
  <2>1. expiry.cur \in User /\ expiry.prior \in Status \cup {"none"}
    BY <1>4, <1>x DEF MarkExpiredAppend, WorkInv
  <2>2. AppendAudit(expiry.cur, expiry.prior, "canceled",
                    "trial_ended_no_card", 0)
    BY <1>4 DEF MarkExpiredAppend
  <2>3. "canceled" \in Status
    BY DEF Status
  <2>4. audit' \in [User -> Seq(AuditRow)]
    BY <2>1, <2>2, <2>3, AuditGrows
  <2>5. expiry' \in X
    BY <1>4, <1>n DEF MarkExpiredAppend
  <2> QED BY <1>4, <2>4, <2>5 DEF MarkExpiredAppend, TypeOK
<1>5. CASE MarkExpiredFail
  <2>1. expiry' \in X /\ faults' \in 0..MaxFaults
    BY <1>5, <1>n DEF MarkExpiredFail, Fault, TypeOK
  <2> QED BY <1>5, <2>1 DEF MarkExpiredFail, TypeOK
<1> QED BY <1>1, <1>2, <1>3, <1>4, <1>5 DEF ExpiryStep

LEMMA PurgeType ==
  ASSUME TypeOK, PurgeStep
  PROVE  TypeOK'
<1> USE DEF stripeVars
<1> DEFINE X == [pc : {"idle", "warn", "purge"}, todo : SUBSET User,
                 cur : User \cup {NoUser}]
<1>x. purge \in X /\ NoPurge \in X
  BY DEF TypeOK, NoPurge
<1>c. \A pass : Candidates(pass) \in SUBSET User
  BY DEF Candidates
<1>1. CASE PurgeTick
  <2>1. PICK due \in SUBSET User :
          purge' = [purge EXCEPT !.pc = "warn", !.todo = due]
    BY <1>1, <1>c DEF PurgeTick
  <2>2. purge' \in X
    BY <1>x, <2>1
  <2> QED BY <1>1, <2>2 DEF PurgeTick, TypeOK
<1>2. ASSUME NEW u \in User, NEW pass \in {"warn", "purge"},
             CheckSignalled(u, pass)
      PROVE  TypeOK'
  <2>1. purge.todo \ {u} \in SUBSET User
    BY <1>x
  <2>2. \/ purge' = [purge EXCEPT !.todo = purge.todo \ {u}]
        \/ purge' = [purge EXCEPT !.cur = u]
    BY <1>2 DEF CheckSignalled
  <2>3. purge' \in X
    BY <1>x, <2>1, <2>2
  <2> QED BY <1>2, <2>3 DEF CheckSignalled, TypeOK
<1>3. ASSUME NEW pass \in {"warn", "purge"}, AppendSignal(pass)
      PROVE  TypeOK'
  <2>1. purge.cur \in User
    BY <1>3, <1>x DEF AppendSignal
  <2>t. purge.todo \ {purge.cur} \in SUBSET User
    BY <1>x
  <2>2. PICK reason \in {"purge_warning_30d", "purge_scheduled"} :
          AppendAudit(purge.cur, "canceled", "canceled", reason, 0)
    BY <1>3 DEF AppendSignal, Reason
  <2>3. "canceled" \in Status
    BY DEF Status
  <2>r. /\ reason \in {"stripe", "trial_ended_no_card", "migration_backfill",
                       "purge_warning_30d", "purge_scheduled"}
        /\ "canceled" \in Status \cup {"none"}
        /\ 0 \in Nat
    BY <2>3
  <2> HIDE DEF X
  <2>4. audit' \in [User -> Seq(AuditRow)]
    BY ONLY TypeOK, <2>1, <2>2, <2>3, <2>r, AuditGrows
  <2> USE DEF X
  <2>5. purge' = [purge EXCEPT !.todo = purge.todo \ {purge.cur},
                               !.cur = NoUser]
    BY <1>3 DEF AppendSignal
  <2>6. purge' \in X
    BY <1>x, <2>t, <2>5
  <2> QED BY <1>3, <2>4, <2>6 DEF AppendSignal, TypeOK
<1>4. ASSUME NEW pass \in {"warn", "purge"}, EndPass(pass)
      PROVE  TypeOK'
  <2>1. \/ \E due \in SUBSET User :
             purge' = [purge EXCEPT !.pc = "purge", !.todo = due]
        \/ purge' = NoPurge
    BY <1>4, <1>c DEF EndPass
  <2>2. purge' \in X
    BY <1>x, <2>1
  <2> QED BY <1>4, <2>2 DEF EndPass, TypeOK
<1> QED BY <1>1, <1>2, <1>3, <1>4 DEF PurgeStep

LEMMA BackfillType ==
  ASSUME TypeOK, (\E u \in User : BackfillInsert(u)) \/ BackfillAppend
  PROVE  TypeOK'
<1> USE DEF stripeVars
<1>1. ASSUME NEW u \in User, BackfillInsert(u)
      PROVE  TypeOK'
  <2>1. SeedRow \in Row
    BY DEF SeedRow, NoRow, Row, Status
  <2>2. row' \in [User -> Row] /\ backfill' \in User
    BY <1>1, <2>1 DEF BackfillInsert, TypeOK
  <2> QED BY <1>1, <2>2 DEF BackfillInsert, TypeOK
<1>2. CASE BackfillAppend
  <2>1. backfill \in User
    BY <1>2 DEF BackfillAppend, TypeOK
  <2>2. AppendAudit(backfill, "none", "trial", "migration_backfill", 0)
    BY <1>2 DEF BackfillAppend
  <2>3. "trial" \in Status
    BY DEF Status
  <2>4. audit' \in [User -> Seq(AuditRow)]
    BY <2>1, <2>2, <2>3, AuditGrows
  <2> QED BY <1>2, <2>4 DEF BackfillAppend, TypeOK
<1> QED BY <1>1, <1>2

LEMMA CrashType ==
  ASSUME TypeOK, Crash
  PROVE  TypeOK'
<1>1. handler' \in [Event -> [pc : {"idle", "read", "write", "stamp", "append",
                                    "finish"},
                              prior : Status \cup {"none"}]]
  BY DEF Crash, NoRequest
<1>2. faults' \in 0..MaxFaults
  BY DEF Crash, Fault, TypeOK
<1> QED BY <1>1, <1>2 DEF Crash, TypeOK, NoExpiry, NoPurge, stripeVars

LEMMA TypeStep ==
  ASSUME TypeOK, WorkInv, [Next]_vars
  PROVE  TypeOK'
<1>1. CASE UNCHANGED vars
  BY <1>1 DEF vars, stripeVars, cronVars, TypeOK
<1> QED BY <1>1, EnvironmentType, HandlerType, ExpiryType, PurgeType,
           BackfillType, CrashType DEF Next

-----------------------------------------------------------------------------
(* What working handlers know *)

LEMMA WorkHandler ==
  ASSUME TypeOK, WorkInv, NEW e \in Event,
         Deliver(e) \/ HandlerStep(e) \/ FailEvent(e)
  PROVE  WorkInv'
<1> USE DEF stripeVars, cronVars, GoTo
<1>u. stripeLog' = stripeLog /\ expiry' = expiry
  BY DEF Deliver, AcceptEvent, AnswerDuplicate, HandlerStep, ReadPrior,
         WriteRow, StampDeletion, AppendEvent, FinishEvent, FailEvent
<1>h. \A d \in Event : handler[d] \in [pc : {"idle", "read", "write", "stamp",
                                             "append", "finish"},
                                       prior : Status \cup {"none"}]
  BY DEF TypeOK
<1>o. \A d \in Event \ {e} : handler'[d] = handler[d] /\ inbox'[d] = inbox[d]
  BY DEF Deliver, AcceptEvent, AnswerDuplicate, HandlerStep, ReadPrior,
         WriteRow, HandleSubscriptionUpsert, HandleSubscriptionDeleted,
         HandleInvoice, HandlePaymentMethodAttached, StampDeletion,
         AppendEvent, FinishEvent, FailEvent, TypeOK
<1> DEFINE Known == /\ Working(e)' => e <= Len(stripeLog) /\ inbox'[e] # "absent"
                    /\ handler'[e].pc = "stamp" => stripeLog[e].type = Deleted
                    /\ handler'[e].pc = "append" =>
                         stripeLog[e].type \in {Upsert, Deleted, Paid, Failed}
<1> SUFFICES Known
  BY <1>u, <1>o DEF WorkInv, Working
<1>1. CASE AcceptEvent(e)
  BY <1>1, <1>h DEF AcceptEvent, TypeOK
<1>2. CASE AnswerDuplicate(e)
  BY <1>2 DEF AnswerDuplicate, WorkInv, Working
<1>3. CASE ReadPrior(e)
  BY <1>3, <1>h DEF ReadPrior, WorkInv, Working, TypeOK
<1>4. CASE WriteRow(e)
  BY <1>4, <1>h DEF WriteRow, HandleSubscriptionUpsert,
     HandleSubscriptionDeleted, HandleInvoice, HandlePaymentMethodAttached,
     WorkInv, Working, TypeOK
<1>5. CASE StampDeletion(e)
  BY <1>5, <1>h DEF StampDeletion, WorkInv, Working, TypeOK
<1>6. CASE AppendEvent(e)
  BY <1>6, <1>h DEF AppendEvent, WorkInv, Working, TypeOK
<1>7. CASE FinishEvent(e) \/ FailEvent(e)
  BY <1>7, <1>h DEF FinishEvent, FailEvent, NoRequest, Working, TypeOK
<1> QED BY <1>1, <1>2, <1>3, <1>4, <1>5, <1>6, <1>7 DEF Deliver, HandlerStep

LEMMA WorkStep ==
  ASSUME TypeOK, WorkInv, [Next]_vars
  PROVE  WorkInv'
<1> USE DEF stripeVars, cronVars
<1>l. \A e \in Event : Working(e) => e \in 1..Len(stripeLog)
  <2>1. Len(stripeLog) \in Nat
    BY LenProperties DEF TypeOK
  <2> QED BY <2>1 DEF WorkInv, Event
<1>1. CASE Environment
  <2>1. /\ UNCHANGED <<inbox, handler, expiry>>
        /\ Len(stripeLog) <= Len(stripeLog')
        /\ \A e \in 1..Len(stripeLog) : stripeLog'[e] = stripeLog[e]
    BY <1>1, EnvironmentType
  <2>2. \A e \in Event : /\ handler[e].pc = "stamp" => Working(e)
                         /\ handler[e].pc = "append" => Working(e)
    BY DEF Working
  <2>3. /\ Len(stripeLog) \in Nat /\ Len(stripeLog') \in Nat
        /\ \A e \in Event : e \in Nat
    <3>1. TypeOK'
      BY TypeStep
    <3> QED BY <3>1, LenProperties DEF TypeOK, Event
  <2> QED BY <1>l, <2>1, <2>2, <2>3 DEF WorkInv, Working
<1>2. ASSUME NEW e \in Event, Deliver(e) \/ HandlerStep(e) \/ FailEvent(e)
      PROVE  WorkInv'
  BY <1>2, WorkHandler
<1>3. ASSUME ExpiryStep \/ MarkExpiredFail
      PROVE  WorkInv'
  <2>1. UNCHANGED <<stripeLog, inbox, handler>>
    BY <1>3 DEF ExpiryStep, ExpiryTick, MarkExpiredRead, MarkExpiredWrite,
                MarkExpiredAppend, MarkExpiredFail
  <2>2. expiry'.pc \in {"write", "append"} => expiry'.cur \in User
    <3>x. expiry \in [pc : {"idle", "loop", "write", "append"},
                      todo : SUBSET User, cur : User \cup {NoUser},
                      prior : Status \cup {"none"}]
      BY DEF TypeOK
    <3>1. CASE ExpiryTick
      BY <3>1, <3>x DEF ExpiryTick
    <3>2. CASE \E u \in User : MarkExpiredRead(u)
      BY <3>2, <3>x DEF MarkExpiredRead
    <3>3. CASE MarkExpiredWrite
      BY <3>3, <3>x DEF MarkExpiredWrite, WorkInv
    <3>4. CASE NextExpiry
      BY <3>4 DEF NextExpiry, NoExpiry
    <3> QED BY <1>3, <3>1, <3>2, <3>3, <3>4
            DEF ExpiryStep, MarkExpiredAppend, MarkExpiredFail
  <2> QED BY <2>1, <2>2 DEF WorkInv, Working
<1>4. ASSUME \/ PurgeStep
             \/ \E u \in User : BackfillInsert(u)
             \/ BackfillAppend
             \/ UNCHANGED vars
      PROVE  WorkInv'
  <2>1. UNCHANGED <<stripeLog, inbox, handler, expiry>>
    BY <1>4 DEF PurgeStep, PurgeTick, CheckSignalled, AppendSignal, EndPass,
                BackfillInsert, BackfillAppend, vars
  <2> QED BY <2>1 DEF WorkInv, Working
<1>5. CASE Crash
  BY <1>5 DEF Crash, NoRequest, NoExpiry, WorkInv, Working
<1> QED BY <1>1, <1>2, <1>3, <1>4, <1>5 DEF Next

-----------------------------------------------------------------------------
(* The audit log *)

(* A step that appends no row for a Stripe event. *)
LEMMA OtherAppend ==
  ASSUME TypeOK, AuditInv, OneAuditRowPerEvent, NEW u \in User,
         NEW from \in Status \cup {"none"}, NEW to \in Status,
         NEW reason \in {"trial_ended_no_card", "migration_backfill",
                         "purge_warning_30d", "purge_scheduled"},
         AppendAudit(u, from, to, reason, 0),
         UNCHANGED <<inbox, handler>>
  PROVE  AuditInv' /\ OneAuditRowPerEvent'
<1> DEFINE new == Len(audit[u]) + 1
<1>1. /\ \A v \in User \ {u} : audit'[v] = audit[v]
      /\ DOMAIN audit[u] = 1..Len(audit[u]) /\ Len(audit[u]) \in Nat
      /\ DOMAIN audit'[u] = 1..new
      /\ \A i \in DOMAIN audit[u] : audit'[u][i] = audit[u][i]
      /\ audit'[u][new] =
           [from |-> from, to |-> to, reason |-> reason, event |-> 0]
  BY AuditGrows
<1>2. \A v \in User : \A i \in DOMAIN audit'[v] :
        audit'[v][i].reason = "stripe" =>
          i \in DOMAIN audit[v] /\ audit'[v][i] = audit[v][i]
  BY <1>1
<1>3. AuditInv'
  BY <1>2 DEF AuditInv
<1>4. OneAuditRowPerEvent'
  BY <1>2 DEF OneAuditRowPerEvent
<1> QED BY <1>3, <1>4

(* The handler of e appends: no row can be about e yet, because its handler
   is at the append.                                                      *)
LEMMA EventAppend ==
  ASSUME TypeOK, WorkInv, AuditInv, OneAuditRowPerEvent, NEW e \in Event,
         AppendEvent(e)
  PROVE  AuditInv' /\ OneAuditRowPerEvent'
<1> DEFINE b == stripeLog[e]
           u == b.user
           new == Len(audit[u]) + 1
<1>1. b \in Body /\ u \in User
  BY EventBody DEF AppendEvent, Working
<1>2. NewStatus(b) \in Status
  BY <1>1, NewStatusType DEF AppendEvent, WorkInv
<1>3. handler[e].prior \in Status \cup {"none"} /\ e \in Nat
  BY DEF TypeOK, Event
<1>4. AppendAudit(u, handler[e].prior, NewStatus(b), "stripe", e)
  BY DEF AppendEvent
<1>5. /\ \A v \in User \ {u} : audit'[v] = audit[v]
      /\ DOMAIN audit[u] = 1..Len(audit[u]) /\ Len(audit[u]) \in Nat
      /\ DOMAIN audit'[u] = 1..new
      /\ \A i \in DOMAIN audit[u] : audit'[u][i] = audit[u][i]
      /\ audit'[u][new].event = e
  <2> HIDE DEF u, b
  <2>1. "stripe" \in {"stripe", "trial_ended_no_card", "migration_backfill",
                      "purge_warning_30d", "purge_scheduled"}
    OBVIOUS
  <2>2. /\ \A v \in User \ {u} : audit'[v] = audit[v]
        /\ DOMAIN audit[u] = 1..Len(audit[u]) /\ Len(audit[u]) \in Nat
        /\ DOMAIN audit'[u] = 1..(Len(audit[u]) + 1)
        /\ \A i \in DOMAIN audit[u] : audit'[u][i] = audit[u][i]
        /\ audit'[u][Len(audit[u]) + 1] =
             [from |-> handler[e].prior, to |-> NewStatus(b),
              reason |-> "stripe", event |-> e]
    BY ONLY TypeOK, <1>1, <1>2, <1>3, <1>4, <2>1, AuditGrows
  <2> QED BY <2>2
<1>6. handler[e].pc = "append" /\ inbox' = inbox
      /\ handler' = [handler EXCEPT ![e] = [pc |-> "finish", prior |-> "none"]]
  BY DEF AppendEvent
<1>7. \A v \in User : \A i \in DOMAIN audit[v] :
        audit[v][i].reason = "stripe" => audit[v][i].event # e
  BY <1>6 DEF AuditInv
<1>8. \A v \in User : \A i \in DOMAIN audit'[v] :
        \/ v = u /\ i = new
        \/ i \in DOMAIN audit[v] /\ audit'[v][i] = audit[v][i]
  BY <1>5
<1> HIDE DEF u, b, new
<1>9. AuditInv'
  <2> SUFFICES ASSUME NEW v \in User, NEW i \in DOMAIN audit'[v],
                      audit'[v][i].reason = "stripe"
               PROVE  LET d == audit'[v][i].event
                      IN /\ d \in Event
                         /\ inbox'[d] # "absent"
                         /\ handler'[d].pc \in {"idle", "finish"}
    BY DEF AuditInv
  <2>1. CASE v = u /\ i = new
    <3>1. inbox[e] # "absent"
      BY <1>6 DEF WorkInv, Working
    <3> QED BY <2>1, <3>1, <1>5, <1>6 DEF TypeOK
  <2>2. CASE i \in DOMAIN audit[v] /\ audit'[v][i] = audit[v][i]
    BY <2>2, <1>6, <1>7 DEF AuditInv, TypeOK
  <2> QED BY <1>8, <2>1, <2>2
<1>10. OneAuditRowPerEvent'
  BY <1>5, <1>7, <1>8 DEF OneAuditRowPerEvent
<1> QED BY <1>9, <1>10

(* Every other step of a handler leaves the log alone and leaves each event
   accepted; a handler that is past its append stays past it.             *)
LEMMA HandlerAudit ==
  ASSUME TypeOK, WorkInv, AuditInv, OneAuditRowPerEvent, NEW e \in Event,
         Deliver(e) \/ HandlerStep(e) \/ FailEvent(e)
  PROVE  AuditInv' /\ OneAuditRowPerEvent'
<1> USE DEF stripeVars, cronVars, GoTo
<1>1. CASE AppendEvent(e)
  BY <1>1, EventAppend
<1>2. ASSUME ~AppendEvent(e) PROVE audit' = audit
  BY <1>2 DEF Deliver, AcceptEvent, AnswerDuplicate, HandlerStep, ReadPrior,
              WriteRow, StampDeletion, FinishEvent, FailEvent
<1>3. \A d \in Event : d # e => handler'[d] = handler[d] /\ inbox'[d] = inbox[d]
  BY DEF Deliver, AcceptEvent, AnswerDuplicate, HandlerStep, ReadPrior,
         WriteRow, HandleSubscriptionUpsert, HandleSubscriptionDeleted,
         HandleInvoice, HandlePaymentMethodAttached, StampDeletion,
         AppendEvent, FinishEvent, FailEvent, TypeOK
<1>4. /\ inbox[e] # "absent"
      /\ handler[e].pc \in {"idle", "finish"}
      => /\ inbox'[e] # "absent"
         /\ handler'[e].pc \in {"idle", "finish"}
  BY DEF Deliver, AcceptEvent, AnswerDuplicate, HandlerStep, ReadPrior,
         WriteRow, StampDeletion, AppendEvent, FinishEvent, FailEvent,
         NoRequest, TypeOK
<1>5. CASE ~AppendEvent(e)
  BY <1>2, <1>3, <1>4, <1>5 DEF AuditInv, OneAuditRowPerEvent
<1> QED BY <1>1, <1>5

LEMMA AuditStep ==
  ASSUME TypeOK, WorkInv, AuditInv, OneAuditRowPerEvent, [Next]_vars
  PROVE  AuditInv' /\ OneAuditRowPerEvent'
<1> USE DEF stripeVars, cronVars
<1>s. /\ {"trial", "canceled"} \subseteq Status
      /\ {"none", "canceled"} \subseteq Status \cup {"none"}
  BY DEF Status
<1>0. ASSUME UNCHANGED <<audit, inbox, handler>>
      PROVE  AuditInv' /\ OneAuditRowPerEvent'
  BY <1>0 DEF AuditInv, OneAuditRowPerEvent
<1>1. CASE Environment
  BY <1>0, <1>1, EnvironmentType
<1>2. ASSUME NEW e \in Event, Deliver(e) \/ HandlerStep(e) \/ FailEvent(e)
      PROVE  AuditInv' /\ OneAuditRowPerEvent'
  BY <1>2, HandlerAudit
<1>3. CASE MarkExpiredAppend
  <2>1. expiry.cur \in User /\ expiry.prior \in Status \cup {"none"}
    BY <1>3 DEF MarkExpiredAppend, WorkInv, TypeOK
  <2>2. /\ AppendAudit(expiry.cur, expiry.prior, "canceled",
                       "trial_ended_no_card", 0)
        /\ UNCHANGED <<inbox, handler>>
    BY <1>3 DEF MarkExpiredAppend
  <2> QED BY <1>s, <2>1, <2>2, OtherAppend
<1>4. ASSUME NEW pass \in {"warn", "purge"}, AppendSignal(pass)
      PROVE  AuditInv' /\ OneAuditRowPerEvent'
  <2>1. purge.cur \in User
    BY <1>4 DEF AppendSignal, TypeOK
  <2>2. PICK reason \in {"purge_warning_30d", "purge_scheduled"} :
          AppendAudit(purge.cur, "canceled", "canceled", reason, 0)
    BY <1>4 DEF AppendSignal, Reason
  <2>3. UNCHANGED <<inbox, handler>>
    BY <1>4 DEF AppendSignal
  <2>4. reason \in {"trial_ended_no_card", "migration_backfill",
                    "purge_warning_30d", "purge_scheduled"}
    OBVIOUS
  <2>5. "canceled" \in Status /\ "canceled" \in Status \cup {"none"}
    BY <1>s
  <2> QED BY ONLY TypeOK, AuditInv, OneAuditRowPerEvent, <2>1, <2>2, <2>3,
                  <2>4, <2>5, OtherAppend
<1>5. CASE BackfillAppend
  <2>1. backfill \in User
    BY <1>5 DEF BackfillAppend, TypeOK
  <2>2. /\ AppendAudit(backfill, "none", "trial", "migration_backfill", 0)
        /\ UNCHANGED <<inbox, handler>>
    BY <1>5 DEF BackfillAppend
  <2> QED BY <1>s, <2>1, <2>2, OtherAppend
<1>6. CASE Crash
  <2>1. /\ UNCHANGED <<audit, inbox>>
        /\ \A e \in Event : handler'[e].pc = "idle"
    BY <1>6 DEF Crash, NoRequest
  <2> QED BY <2>1 DEF AuditInv, OneAuditRowPerEvent
<1>7. ASSUME \/ ExpiryTick \/ MarkExpiredWrite \/ MarkExpiredFail
             \/ \E u \in User : MarkExpiredRead(u)
             \/ PurgeTick
             \/ \E pass \in {"warn", "purge"} :
                  (\E u \in User : CheckSignalled(u, pass)) \/ EndPass(pass)
             \/ \E u \in User : BackfillInsert(u)
             \/ UNCHANGED vars
      PROVE  AuditInv' /\ OneAuditRowPerEvent'
  <2>1. UNCHANGED <<audit, inbox, handler>>
    BY <1>7 DEF ExpiryTick, MarkExpiredWrite, MarkExpiredFail, MarkExpiredRead,
                PurgeTick, CheckSignalled, EndPass, BackfillInsert, vars
  <2> QED BY <1>0, <2>1
<1> QED BY <1>1, <1>2, <1>3, <1>4, <1>5, <1>6, <1>7
        DEF Next, ExpiryStep, PurgeStep

-----------------------------------------------------------------------------
(* The theorems *)

(* The invariant is inductive: a Stripe event's audit row is protected by the
   handler that wrote it never being able to reach its append again, and that
   by the inbox row that turns every later delivery away.                  *)
THEOREM Inductive == Spec => []IInv
<1>1. Init => IInv
  <2> SUFFICES ASSUME Init PROVE IInv
    OBVIOUS
  <2>1. TypeOK
    BY InitType
  <2>2. WorkInv
    BY DEF Init, WorkInv, Working, NoRequest, NoExpiry
  <2>3. \A u \in User : DOMAIN audit[u] = {}
    BY EmptySeq DEF Init
  <2> QED BY <2>1, <2>2, <2>3 DEF IInv, AuditInv, OneAuditRowPerEvent
<1>2. IInv /\ [Next]_vars => IInv'
  BY TypeStep, WorkStep, AuditStep DEF IInv
<1> QED BY <1>1, <1>2, PTL DEF Spec

(* The mirror's state has its type in every reachable state, whatever Stripe
   sends, fails or sends again: no status that mapStripeStatus does not know
   gets into billing.subscriptions.                                        *)
THEOREM TypeCorrect == Spec => []TypeOK
<1>1. IInv => TypeOK
  BY DEF IInv
<1> QED BY <1>1, Inductive, PTL

(* For any users, any number of events in any order, redelivered at any time,
   and any number of failures and crashes: handleStripeWebhook leaves at most
   one row in billing.subscription_events for each Stripe event.           *)
THEOREM AuditedOnce == Spec => []OneAuditRowPerEvent
<1>1. IInv => OneAuditRowPerEvent
  BY DEF IInv
<1> QED BY <1>1, Inductive, PTL

-----------------------------------------------------------------------------
(* The link to Stripe *)

(* A row that does not exist holds no link. *)
RowInv ==
  \A u \in User : row[u].status = "none" => ~row[u].customer /\ ~row[u].subId

(* What a step may do to rows: links stay, and no row disappears. *)
RowKept ==
  \A u \in User : /\ row[u].customer => row'[u].customer
                  /\ row[u].subId => row'[u].subId
                  /\ row'[u].status = "none" =>
                       /\ row[u].status = "none"
                       /\ row'[u].customer = row[u].customer
                       /\ row'[u].subId = row[u].subId

LEMMA UpdateKeepsRow ==
  ASSUME TypeOK, NEW u \in User, NEW r \in Row, UpdateRow(u, r),
         row[u].status # "none" => r.status # "none",
         row[u].customer => r.customer,
         row[u].subId => r.subId
  PROVE  RowKept
<1>1. row \in [User -> Row]
  BY DEF TypeOK
<1>2. CASE row[u].status = "none"
  BY <1>2 DEF UpdateRow, RowKept
<1>3. CASE row[u].status # "none"
  <2>1. row'[u] = r /\ \A v \in User \ {u} : row'[v] = row[v]
    BY <1>1, <1>3 DEF UpdateRow
  <2> QED BY <1>3, <2>1 DEF RowKept
<1> QED BY <1>2, <1>3

LEMMA SeedKeepsRow ==
  ASSUME TypeOK, RowInv, NEW u \in User, row[u].status = "none",
         row' = [row EXCEPT ![u] = SeedRow]
  PROVE  RowKept
<1>1. row'[u] = SeedRow /\ \A v \in User \ {u} : row'[v] = row[v]
  BY DEF TypeOK
<1>2. SeedRow.status = "trial"
  BY DEF SeedRow, NoRow
<1> QED BY <1>1, <1>2 DEF RowKept, RowInv

LEMMA EnvironmentKeepsRow ==
  ASSUME TypeOK, RowInv, Environment
  PROVE  RowKept
<1> PICK u \in User : \/ EnsureSubscription(u)
                      \/ CreateCheckoutSession(u)
                      \/ TrialClock(u)
                      \/ PurgeClock(u)
                      \/ StripeCheckoutCompletes(u)
                      \/ StripeTransition(u)
                      \/ StripeSideEvent(u)
  BY DEF Environment
<1>r. row[u] \in Row
  BY DEF TypeOK
<1>1. CASE EnsureSubscription(u)
  BY <1>1, SeedKeepsRow DEF EnsureSubscription
<1>2. CASE CreateCheckoutSession(u)
  <2> DEFINE q == [row[u] EXCEPT !.customer = TRUE]
  <2>1. /\ q \in Row /\ q.status = row[u].status /\ q.customer
        /\ q.subId = row[u].subId
    BY <1>r DEF Row
  <2>2. UpdateRow(u, q)
    BY <1>2 DEF CreateCheckoutSession
  <2> HIDE DEF q
  <2> QED BY <2>1, <2>2, UpdateKeepsRow
<1>3. CASE PurgeClock(u)
  <2>1. row' = [row EXCEPT ![u] =
                 [row[u] EXCEPT !.purgeAt = IF row[u].purgeAt = "far"
                                            THEN "soon" ELSE "past"]]
    BY <1>3 DEF PurgeClock
  <2>2. /\ row'[u].customer = row[u].customer
        /\ row'[u].subId = row[u].subId
        /\ row'[u].status = row[u].status
        /\ \A v \in User \ {u} : row'[v] = row[v]
    BY <1>r, <2>1 DEF TypeOK, Row
  <2> QED BY <2>2 DEF RowKept
<1>4. CASE TrialClock(u)
  BY <1>4 DEF TrialClock, RowKept
<1>5. CASE \/ StripeCheckoutCompletes(u)
           \/ StripeTransition(u)
           \/ StripeSideEvent(u)
  <2>1. row' = row
    BY <1>5 DEF StripeCheckoutCompletes, StripeTransition, StripeSideEvent,
                StripeMoves
  <2> QED BY <2>1 DEF RowKept
<1> QED BY <1>1, <1>2, <1>3, <1>4, <1>5

LEMMA WriteKeepsRow ==
  ASSUME TypeOK, WorkInv, NEW e \in Event, WriteRow(e) \/ StampDeletion(e)
  PROVE  RowKept
<1> DEFINE b == stripeLog[e]
           r == row[b.user]
<1>1. b \in Body /\ b.user \in User /\ r \in Row
  BY EventBody DEF Working, WriteRow, StampDeletion
<1>2. ASSUME NEW q \in Row, UpdateRow(b.user, q), q.status # "none",
             r.customer => q.customer, r.subId => q.subId
      PROVE  RowKept
  BY <1>1, <1>2, UpdateKeepsRow
<1>3. CASE HandleSubscriptionUpsert(e)
  <2> DEFINE q == [r EXCEPT !.status = NewStatus(b),
                            !.trialEnds = IF b.trial THEN "stripe" ELSE "none",
                            !.customer = TRUE, !.subId = TRUE]
  <2>1. NewStatus(b) \in Status
    BY <1>1, <1>3, NewStatusType DEF HandleSubscriptionUpsert
  <2>2. q \in Row /\ q.status # "none" /\ q.customer /\ q.subId
    BY <1>1, <2>1 DEF Row, Status
  <2>3. UpdateRow(b.user, q)
    BY <1>3 DEF HandleSubscriptionUpsert
  <2> HIDE DEF q, b, r
  <2> QED BY <1>2, <2>2, <2>3
<1>4. CASE HandleSubscriptionDeleted(e)
  <2> DEFINE q == [r EXCEPT !.status = "canceled"]
  <2>1. /\ q \in Row /\ q.status # "none"
        /\ q.customer = r.customer /\ q.subId = r.subId
    BY <1>1 DEF Row, Status
  <2>2. UpdateRow(b.user, q)
    BY <1>4 DEF HandleSubscriptionDeleted
  <2> HIDE DEF q, b, r
  <2> QED BY <1>2, <2>1, <2>2
<1>5. CASE HandleInvoice(e)
  <2> DEFINE q == [r EXCEPT !.status = NewStatus(b)]
  <2>1. NewStatus(b) \in Status
    BY <1>1, <1>5, NewStatusType DEF HandleInvoice
  <2>2. /\ q \in Row /\ q.status # "none"
        /\ q.customer = r.customer /\ q.subId = r.subId
    BY <1>1, <2>1 DEF Row, Status
  <2>3. UpdateRow(b.user, q)
    BY <1>5 DEF HandleInvoice
  <2> HIDE DEF q, b, r
  <2> QED BY <1>2, <2>2, <2>3
<1>6. CASE HandlePaymentMethodAttached(e)
  <2> DEFINE q == [r EXCEPT !.card = TRUE]
  <2>1. /\ q \in Row /\ q.status = r.status
        /\ q.customer = r.customer /\ q.subId = r.subId
    BY <1>1 DEF Row
  <2>2. UpdateRow(b.user, q)
    BY <1>6 DEF HandlePaymentMethodAttached
  <2> HIDE DEF q
  <2> QED BY <1>1, <2>1, <2>2, UpdateKeepsRow
<1>7. CASE StampDeletion(e)
  <2> DEFINE q == [r EXCEPT !.status = "canceled", !.expired = TRUE,
                            !.purgeAt = "far"]
  <2>1. /\ q \in Row /\ q.status # "none"
        /\ q.customer = r.customer /\ q.subId = r.subId
    BY <1>1 DEF Row, Status
  <2>2. UpdateRow(b.user, q)
    BY <1>7 DEF StampDeletion
  <2> HIDE DEF q, b, r
  <2> QED BY <1>2, <2>1, <2>2
<1> QED BY <1>3, <1>4, <1>5, <1>6, <1>7 DEF WriteRow

LEMMA ExpiryKeepsRow ==
  ASSUME TypeOK, WorkInv, MarkExpiredWrite
  PROVE  RowKept
<1> DEFINE u == expiry.cur
           q == [row[u] EXCEPT !.status = "canceled", !.expired = TRUE,
                               !.purgeAt = "far"]
<1>1. u \in User /\ row[u] \in Row
  BY DEF MarkExpiredWrite, WorkInv, TypeOK
<1>2. /\ q \in Row /\ q.status # "none"
      /\ q.customer = row[u].customer /\ q.subId = row[u].subId
  BY <1>1 DEF Row, Status
<1>3. UpdateRow(u, q)
  BY DEF MarkExpiredWrite
<1> HIDE DEF q, u
<1> QED BY <1>1, <1>2, <1>3, UpdateKeepsRow

LEMMA RowStep ==
  ASSUME TypeOK, WorkInv, RowInv, [Next]_vars
  PROVE  RowKept /\ RowInv'
<1>1. SUFFICES RowKept
  BY DEF RowKept, RowInv
<1>2. ASSUME row' = row PROVE RowKept
  BY <1>2 DEF RowKept
<1>3. CASE Environment
  BY <1>3, EnvironmentKeepsRow
<1>4. ASSUME NEW e \in Event, Deliver(e) \/ HandlerStep(e) \/ FailEvent(e)
      PROVE  RowKept
  <2>1. CASE WriteRow(e) \/ StampDeletion(e)
    BY <2>1, WriteKeepsRow
  <2>2. CASE ~(WriteRow(e) \/ StampDeletion(e))
    BY <1>2, <1>4, <2>2 DEF Deliver, AcceptEvent, AnswerDuplicate, HandlerStep,
                            ReadPrior, AppendEvent, FinishEvent, FailEvent
  <2> QED BY <2>1, <2>2
<1>5. CASE ExpiryStep \/ MarkExpiredFail
  <2>1. CASE MarkExpiredWrite
    BY <2>1, ExpiryKeepsRow
  <2>2. \/ MarkExpiredWrite
        \/ ExpiryTick \/ MarkExpiredAppend \/ MarkExpiredFail
        \/ \E u \in User : MarkExpiredRead(u)
    BY <1>5 DEF ExpiryStep
  <2>3. CASE \/ ExpiryTick \/ MarkExpiredAppend \/ MarkExpiredFail
             \/ \E u \in User : MarkExpiredRead(u)
    <3>1. CASE ExpiryTick
      BY <1>2, <3>1, Zenon DEF ExpiryTick
    <3>2. CASE MarkExpiredAppend \/ MarkExpiredFail
      BY <1>2, <3>2 DEF MarkExpiredAppend, MarkExpiredFail
    <3>3. CASE \E u \in User : MarkExpiredRead(u)
      BY <1>2, <3>3 DEF MarkExpiredRead
    <3> QED BY <2>3, <3>1, <3>2, <3>3
  <2> QED BY <2>1, <2>2, <2>3
<1>6. CASE PurgeStep
  BY <1>2, <1>6 DEF PurgeStep, PurgeTick, CheckSignalled, AppendSignal, EndPass
<1>7. ASSUME NEW u \in User, BackfillInsert(u)
      PROVE  RowKept
  BY <1>7, SeedKeepsRow DEF BackfillInsert
<1>8. CASE BackfillAppend \/ Crash \/ UNCHANGED vars
  BY <1>2, <1>8 DEF BackfillAppend, Crash, vars
<1> QED BY <1>3, <1>4, <1>5, <1>6, <1>7, <1>8 DEF Next

(* Signup and the migration backfill, each of which may be about to insert a
   row while checkout and webhooks fill it, and every other writer leave the
   customer and the subscription a row has learnt in place.                *)
THEOREM LinksStay == Spec => LinkNeverLost
<1>1. Init => RowInv
  <2>1. /\ SeedRow.status = "trial"
        /\ ~NoRow.customer /\ ~NoRow.subId
    BY DEF SeedRow, NoRow
  <2> QED BY <2>1 DEF Init, RowInv
<1>2. IInv /\ RowInv /\ [Next]_vars => RowInv' /\ RowKept
  BY RowStep DEF IInv
<1> DEFINE LinkKept == \A u \in User : /\ row[u].customer => row'[u].customer
                                       /\ row[u].subId => row'[u].subId
<1>3. RowKept => LinkKept
  BY DEF RowKept
<1>4. LinkNeverLost <=> [][LinkKept]_row
  BY DEF LinkNeverLost
<1>5. IInv /\ RowInv /\ [Next]_vars => [LinkKept]_row
  BY <1>2, <1>3
<1> HIDE DEF LinkKept
<1> QED BY Inductive, <1>1, <1>2, <1>4, <1>5, PTL DEF Spec

-----------------------------------------------------------------------------
(* The signals of the purge cron *)

Pass == {"warn", "purge"}

(* The user in the hands of the cron has not had the signal of this pass. *)
PurgeInv ==
  purge.cur # NoUser => purge.pc \in Pass /\ ~Signalled(purge.cur, purge.pc)

(* The log gains no signal. *)
NoSignal ==
  \A v \in User : \A i \in DOMAIN audit'[v] :
    audit'[v][i].reason \in {Reason("warn"), Reason("purge")} =>
      i \in DOMAIN audit[v] /\ audit'[v][i] = audit[v][i]

LEMMA OtherReason ==
  ASSUME TypeOK, NEW u \in User,
         NEW from \in Status \cup {"none"}, NEW to \in Status,
         NEW reason \in {"stripe", "trial_ended_no_card", "migration_backfill"},
         NEW e \in Nat, AppendAudit(u, from, to, reason, e)
  PROVE  NoSignal
<1> DEFINE new == Len(audit[u]) + 1
<1>1. reason \in {"stripe", "trial_ended_no_card", "migration_backfill",
                  "purge_warning_30d", "purge_scheduled"}
  OBVIOUS
<1>2. /\ \A v \in User \ {u} : audit'[v] = audit[v]
      /\ DOMAIN audit[u] = 1..Len(audit[u]) /\ Len(audit[u]) \in Nat
      /\ DOMAIN audit'[u] = 1..new
      /\ \A i \in DOMAIN audit[u] : audit'[u][i] = audit[u][i]
      /\ audit'[u][new] =
           [from |-> from, to |-> to, reason |-> reason, event |-> e]
  BY <1>1, AuditGrows
<1>3. audit'[u][new].reason \notin {Reason("warn"), Reason("purge")}
  BY <1>2 DEF Reason
<1>4. \A i \in DOMAIN audit'[u] : i = new \/ i \in DOMAIN audit[u]
  BY <1>2
<1> QED BY <1>2, <1>3, <1>4 DEF NoSignal

(* Every step but AppendSignal adds no signal. *)
LEMMA OthersDoNotSignal ==
  ASSUME TypeOK, WorkInv, [Next]_vars,
         ~ \E pass \in Pass : AppendSignal(pass)
  PROVE  NoSignal
<1>s. {"trial", "canceled"} \subseteq Status
  BY DEF Status
<1>0. ASSUME audit' = audit PROVE NoSignal
  BY <1>0 DEF NoSignal
<1>1. CASE Environment
  BY <1>0, <1>1, EnvironmentType
<1>2. ASSUME NEW e \in Event, Deliver(e) \/ HandlerStep(e) \/ FailEvent(e)
      PROVE  NoSignal
  <2>1. CASE AppendEvent(e)
    <3> DEFINE b == stripeLog[e]
    <3>1. b \in Body /\ b.user \in User
      BY <2>1, EventBody DEF AppendEvent, Working
    <3>2. NewStatus(b) \in Status
      BY <2>1, <3>1, NewStatusType DEF AppendEvent, WorkInv
    <3>3. handler[e].prior \in Status \cup {"none"} /\ e \in Nat
      BY DEF TypeOK, Event
    <3>4. AppendAudit(b.user, handler[e].prior, NewStatus(b), "stripe", e)
      BY <2>1 DEF AppendEvent
    <3> HIDE DEF b
    <3> QED BY <3>1, <3>2, <3>3, <3>4, OtherReason
  <2>2. CASE ~AppendEvent(e)
    BY <1>0, <1>2, <2>2 DEF Deliver, AcceptEvent, AnswerDuplicate, HandlerStep,
       ReadPrior, WriteRow, StampDeletion, FinishEvent, FailEvent
  <2> QED BY <2>1, <2>2
<1>3. CASE MarkExpiredAppend
  <2>1. expiry.cur \in User /\ expiry.prior \in Status \cup {"none"}
    BY <1>3 DEF MarkExpiredAppend, WorkInv, TypeOK
  <2>2. AppendAudit(expiry.cur, expiry.prior, "canceled",
                    "trial_ended_no_card", 0)
    BY <1>3 DEF MarkExpiredAppend
  <2> QED BY <1>s, <2>1, <2>2, OtherReason
<1>4. CASE BackfillAppend
  <2>1. backfill \in User
    BY <1>4 DEF BackfillAppend, TypeOK
  <2>2. AppendAudit(backfill, "none", "trial", "migration_backfill", 0)
    BY <1>4 DEF BackfillAppend
  <2> QED BY <1>s, <2>1, <2>2, OtherReason
<1>5. CASE \/ \E u \in User : MarkExpiredRead(u)
           \/ ExpiryTick \/ MarkExpiredWrite \/ MarkExpiredFail
  <2>1. CASE ExpiryTick
    BY <1>0, <2>1, Zenon DEF ExpiryTick
  <2>2. CASE \E u \in User : MarkExpiredRead(u)
    BY <1>0, <2>2 DEF MarkExpiredRead
  <2>3. CASE MarkExpiredWrite \/ MarkExpiredFail
    BY <1>0, <2>3 DEF MarkExpiredWrite, MarkExpiredFail
  <2> QED BY <1>5, <2>1, <2>2, <2>3
<1>6. CASE PurgeTick \/ \E pass \in Pass : \/ \E u \in User : CheckSignalled(u, pass)
                                           \/ EndPass(pass)
  BY <1>0, <1>6 DEF PurgeTick, CheckSignalled, EndPass
<1>7. CASE (\E u \in User : BackfillInsert(u)) \/ Crash \/ UNCHANGED vars
  BY <1>0, <1>7 DEF BackfillInsert, Crash, vars
<1> QED BY <1>1, <1>2, <1>3, <1>4, <1>5, <1>6, <1>7
        DEF Next, ExpiryStep, PurgeStep, Pass

LEMMA NoSignalKeeps ==
  ASSUME NoSignal, PurgeSignalledOnce
  PROVE  /\ PurgeSignalledOnce'
         /\ \A u \in User, pass \in Pass :
              Signalled(u, pass)' => Signalled(u, pass)
<1>1. PurgeSignalledOnce'
  BY DEF NoSignal, PurgeSignalledOnce, Reason
<1>2. \A u \in User, pass \in Pass : Signalled(u, pass)' => Signalled(u, pass)
  BY DEF NoSignal, Signalled, Pass, Reason
<1> QED BY <1>1, <1>2

LEMMA SignalOnce ==
  ASSUME TypeOK, PurgeInv, PurgeSignalledOnce, NEW pass \in Pass,
         AppendSignal(pass)
  PROVE  PurgeInv' /\ PurgeSignalledOnce'
<1> DEFINE u == purge.cur
           new == Len(audit[u]) + 1
<1>1. /\ u \in User /\ purge.pc = pass /\ ~Signalled(u, pass)
      /\ purge' = [purge EXCEPT !.todo = @ \ {u}, !.cur = NoUser]
      /\ AppendAudit(u, "canceled", "canceled", Reason(pass), 0)
  BY DEF AppendSignal, PurgeInv, TypeOK
<1>2. PurgeInv'
  BY <1>1 DEF PurgeInv, TypeOK
<1>3. /\ Reason(pass) \in {"stripe", "trial_ended_no_card", "migration_backfill",
                           "purge_warning_30d", "purge_scheduled"}
      /\ "canceled" \in Status /\ "canceled" \in Status \cup {"none"}
      /\ 0 \in Nat
  BY DEF Reason, Status
<1> HIDE DEF u
<1>4. /\ \A v \in User \ {u} : audit'[v] = audit[v]
      /\ DOMAIN audit[u] = 1..Len(audit[u]) /\ Len(audit[u]) \in Nat
      /\ DOMAIN audit'[u] = 1..new
      /\ \A i \in DOMAIN audit[u] : audit'[u][i] = audit[u][i]
      /\ audit'[u][new] = [from |-> "canceled", to |-> "canceled",
                           reason |-> Reason(pass), event |-> 0]
  BY ONLY TypeOK, <1>1, <1>3, AuditGrows
<1>5. /\ audit'[u][new].reason = Reason(pass)
      /\ \A i \in DOMAIN audit'[u] \ {new} :
           /\ i \in DOMAIN audit[u]
           /\ audit'[u][i] = audit[u][i]
           /\ audit'[u][i].reason # Reason(pass)
  BY <1>1, <1>4 DEF Signalled
<1> HIDE DEF new
<1>6. PurgeSignalledOnce'
  <2> SUFFICES ASSUME NEW v \in User, NEW i \in DOMAIN audit'[v],
                      NEW j \in DOMAIN audit'[v],
                      audit'[v][i].reason \in {Reason("warn"), Reason("purge")},
                      audit'[v][j].reason = audit'[v][i].reason
               PROVE  i = j
    BY DEF PurgeSignalledOnce, Reason
  <2>1. CASE v # u
    BY <1>4, <2>1 DEF PurgeSignalledOnce
  <2>2. CASE v = u /\ i # new /\ j # new
    BY <1>5, <2>2 DEF PurgeSignalledOnce
  <2>3. CASE v = u /\ (i = new \/ j = new)
    BY <1>5, <2>3
  <2> QED BY <2>1, <2>2, <2>3
<1> QED BY <1>2, <1>6

LEMMA PurgeInvStep ==
  ASSUME TypeOK, WorkInv, PurgeInv, PurgeSignalledOnce, [Next]_vars
  PROVE  PurgeInv' /\ PurgeSignalledOnce'
<1>1. CASE \E pass \in Pass : AppendSignal(pass)
  BY <1>1, SignalOnce
<1>2. CASE ~ \E pass \in Pass : AppendSignal(pass)
  <2>1. /\ PurgeSignalledOnce'
        /\ \A u \in User, pass \in Pass :
             Signalled(u, pass)' => Signalled(u, pass)
    BY <1>2, OthersDoNotSignal, NoSignalKeeps
  <2> SUFFICES PurgeInv'
    BY <2>1
  <2>p. /\ purge \in [pc : {"idle", "warn", "purge"}, todo : SUBSET User,
                      cur : User \cup {NoUser}]
        /\ NoPurge.cur = NoUser
    BY DEF TypeOK, NoPurge
  <2>2. CASE PurgeTick
    <3>1. purge.cur = NoUser /\ purge'.cur = purge.cur
      BY <2>2, <2>p DEF PurgeTick, PurgeInv, Pass
    <3> QED BY <2>1, <3>1 DEF PurgeInv
  <2>3. ASSUME NEW u \in User, NEW pass \in Pass, CheckSignalled(u, pass)
        PROVE  PurgeInv'
    <3>1. purge.pc = pass /\ purge.cur = NoUser
      BY <2>3 DEF CheckSignalled, PurgePass
    <3>2. CASE Signalled(u, pass)
      BY <2>3, <2>p, <3>1, <3>2 DEF CheckSignalled, PurgeInv
    <3>3. CASE ~Signalled(u, pass)
      <4>1. purge'.pc = pass /\ purge'.cur = u
        BY <2>3, <2>p, <3>1, <3>3 DEF CheckSignalled
      <4> QED BY <2>1, <3>3, <4>1 DEF PurgeInv, Signalled
    <3> QED BY <3>2, <3>3
  <2>4. ASSUME NEW pass \in Pass, EndPass(pass)
        PROVE  PurgeInv'
    <3>1. purge'.cur = NoUser
      BY <2>4, <2>p DEF EndPass, PurgePass
    <3> QED BY <3>1 DEF PurgeInv
  <2>5. CASE Crash
    BY <2>5, <2>p DEF Crash, PurgeInv
  <2>6. ASSUME purge' = purge PROVE PurgeInv'
    <3>1. purge.cur # NoUser => purge.cur \in User
      BY <2>p
    <3> QED BY <2>1, <2>6, <3>1 DEF PurgeInv, Signalled
  <2>7. CASE \/ Environment
             \/ \E e \in Event : Deliver(e) \/ HandlerStep(e) \/ FailEvent(e)
             \/ UNCHANGED vars
    <3>1. CASE Environment
      BY <2>6, <3>1, EnvironmentType DEF cronVars
    <3>2. ASSUME NEW e \in Event, Deliver(e) \/ HandlerStep(e) \/ FailEvent(e)
          PROVE  purge' = purge
      BY <3>2 DEF Deliver, AcceptEvent, AnswerDuplicate, HandlerStep, ReadPrior,
         WriteRow, StampDeletion, AppendEvent, FinishEvent, FailEvent, cronVars
    <3> QED BY <2>6, <2>7, <3>1, <3>2 DEF vars, cronVars
  <2>8. CASE ExpiryStep \/ MarkExpiredFail
    <3>1. CASE ExpiryTick
      BY <2>6, <3>1, Zenon DEF ExpiryTick
    <3>2. CASE \E u \in User : MarkExpiredRead(u)
      BY <2>6, <3>2 DEF MarkExpiredRead
    <3>3. CASE MarkExpiredWrite \/ MarkExpiredAppend \/ MarkExpiredFail
      BY <2>6, <3>3 DEF MarkExpiredWrite, MarkExpiredAppend, MarkExpiredFail
    <3> QED BY <2>8, <3>1, <3>2, <3>3 DEF ExpiryStep
  <2>9. CASE (\E u \in User : BackfillInsert(u)) \/ BackfillAppend
    BY <2>6, <2>9 DEF BackfillInsert, BackfillAppend
  <2> QED BY <1>2, <2>1, <2>2, <2>3, <2>4, <2>5, <2>7, <2>8, <2>9
          DEF Next, PurgeStep, Pass
<1> QED BY <1>1, <1>2

(* Nobody is warned, or signalled for the purge, twice, however often a purge
   run dies between its check and its append and is started again, and for
   any number of users it loops over.                                      *)
THEOREM SignalledOnce == Spec => []PurgeSignalledOnce
<1>1. Init => PurgeInv /\ PurgeSignalledOnce
  <2> SUFFICES ASSUME Init PROVE PurgeInv /\ PurgeSignalledOnce
    OBVIOUS
  <2>1. \A u \in User : DOMAIN audit[u] = {}
    BY EmptySeq DEF Init
  <2> QED BY <2>1 DEF Init, PurgeInv, NoPurge, PurgeSignalledOnce
<1>2. IInv /\ PurgeInv /\ PurgeSignalledOnce /\ [Next]_vars
        => PurgeInv' /\ PurgeSignalledOnce'
  BY PurgeInvStep DEF IInv
<1> QED BY Inductive, <1>1, <1>2, PTL DEF Spec

-----------------------------------------------------------------------------
(* What moves a handler, the cron and the log *)

LEMMA NoFault ==
  ASSUME TypeOK, faults' = 0
  PROVE  /\ ~Fault
         /\ \A e \in Event : ~FailEvent(e)
         /\ ~MarkExpiredFail
         /\ ~Crash
<1>1. faults \in Nat
  BY DEF TypeOK
<1>2. ~Fault
  BY <1>1 DEF Fault
<1> QED BY <1>2 DEF FailEvent, MarkExpiredFail, Crash

(* Until it has appended its row, a handler is moved by its own steps only. *)
LEMMA HandlerGoesOn ==
  ASSUME TypeOK, WorkInv, [Next]_vars, faults' = 0, NEW e \in Event,
         handler[e].pc \in {"write", "stamp", "append"}
  PROVE  /\ stripeLog'[e] = stripeLog[e]
         /\ \/ handler'[e] = handler[e]
            \/ WriteRow(e) \/ StampDeletion(e) \/ AppendEvent(e)
<1> USE DEF stripeVars, cronVars, GoTo
<1>w. /\ Working(e) /\ e \in 1..Len(stripeLog)
      /\ inbox[e] # "absent" /\ handler[e].pc \notin {"read", "finish"}
  <2>1. Len(stripeLog) \in Nat
    BY LenProperties DEF TypeOK
  <2> QED BY <2>1 DEF WorkInv, Event, Working
<1>1. CASE Environment
  BY <1>1, <1>w, EnvironmentType
<1>2. ASSUME NEW d \in Event, Deliver(d) \/ HandlerStep(d)
      PROVE  /\ stripeLog' = stripeLog
             /\ \/ handler'[e] = handler[e]
                \/ WriteRow(e) \/ StampDeletion(e) \/ AppendEvent(e)
  <2>1. stripeLog' = stripeLog
    BY <1>2 DEF Deliver, AcceptEvent, AnswerDuplicate, HandlerStep, ReadPrior,
         WriteRow, StampDeletion, AppendEvent, FinishEvent
  <2>2. CASE d = e
    BY <1>2, <1>w, <2>1, <2>2 DEF Deliver, AcceptEvent, AnswerDuplicate,
       HandlerStep, ReadPrior, FinishEvent
  <2>3. CASE d # e
    BY <1>2, <2>1, <2>3 DEF Deliver, AcceptEvent, AnswerDuplicate, HandlerStep,
         ReadPrior, WriteRow, HandleSubscriptionUpsert,
         HandleSubscriptionDeleted, HandleInvoice, HandlePaymentMethodAttached,
         StampDeletion, AppendEvent, FinishEvent, TypeOK
  <2> QED BY <2>2, <2>3
<1>3. CASE ExpiryStep
  BY <1>3 DEF ExpiryStep, ExpiryTick, MarkExpiredRead, MarkExpiredWrite,
              MarkExpiredAppend
<1>4. CASE \/ PurgeStep \/ (\E u \in User : BackfillInsert(u))
           \/ BackfillAppend \/ UNCHANGED vars
  BY <1>4 DEF PurgeStep, PurgeTick, CheckSignalled, AppendSignal, EndPass,
              BackfillInsert, BackfillAppend, vars
<1> QED BY <1>1, <1>2, <1>3, <1>4, NoFault DEF Next

(* So is the expiry cron. *)
LEMMA ExpiryGoesOn ==
  ASSUME TypeOK, [Next]_vars, faults' = 0, expiry.pc = "append"
  PROVE  expiry' = expiry \/ MarkExpiredAppend
<1> USE DEF stripeVars, cronVars
<1>1. CASE Environment
  BY <1>1, EnvironmentType
<1>2. ASSUME NEW d \in Event, Deliver(d) \/ HandlerStep(d)
      PROVE  expiry' = expiry
  BY <1>2 DEF Deliver, AcceptEvent, AnswerDuplicate, HandlerStep, ReadPrior,
       WriteRow, StampDeletion, AppendEvent, FinishEvent
<1>3. CASE ExpiryStep
  BY <1>3 DEF ExpiryStep, ExpiryTick, MarkExpiredRead, MarkExpiredWrite
<1>4. CASE \/ PurgeStep \/ (\E u \in User : BackfillInsert(u))
           \/ BackfillAppend \/ UNCHANGED vars
  BY <1>4 DEF PurgeStep, PurgeTick, CheckSignalled, AppendSignal, EndPass,
              BackfillInsert, BackfillAppend, vars
<1> QED BY <1>1, <1>2, <1>3, <1>4, NoFault DEF Next

(* The log only grows. *)
AuditKept ==
  \A v \in User : \A i \in DOMAIN audit[v] :
    i \in DOMAIN audit'[v] /\ audit'[v][i] = audit[v][i]

LEMMA AppendKeeps ==
  ASSUME TypeOK, NEW u \in User,
         NEW from \in Status \cup {"none"}, NEW to \in Status,
         NEW reason \in {"stripe", "trial_ended_no_card", "migration_backfill",
                         "purge_warning_30d", "purge_scheduled"},
         NEW e \in Nat, AppendAudit(u, from, to, reason, e)
  PROVE  AuditKept /\ Audited(u, to)'
<1> DEFINE new == Len(audit[u]) + 1
<1>1. /\ \A v \in User \ {u} : audit'[v] = audit[v]
      /\ DOMAIN audit[u] = 1..Len(audit[u]) /\ Len(audit[u]) \in Nat
      /\ DOMAIN audit'[u] = 1..new
      /\ \A i \in DOMAIN audit[u] : audit'[u][i] = audit[u][i]
      /\ audit'[u][new] =
           [from |-> from, to |-> to, reason |-> reason, event |-> e]
  BY AuditGrows
<1>2. new \in DOMAIN audit'[u]
  BY <1>1
<1> HIDE DEF new
<1>3. Audited(u, to)'
  BY <1>1, <1>2 DEF Audited
<1>4. \A i \in DOMAIN audit[u] : i \in DOMAIN audit'[u]
  BY <1>1 DEF new
<1> QED BY <1>1, <1>3, <1>4 DEF AuditKept

LEMMA EventAudited ==
  ASSUME TypeOK, WorkInv, NEW e \in Event, AppendEvent(e)
  PROVE  AuditKept /\ Audited(stripeLog[e].user, NewStatus(stripeLog[e]))'
<1> DEFINE b == stripeLog[e]
           u == b.user
           s == NewStatus(b)
<1>1. b \in Body /\ u \in User
  BY EventBody DEF AppendEvent, Working
<1>2. s \in Status
  BY <1>1, NewStatusType DEF AppendEvent, WorkInv
<1>3. handler[e].prior \in Status \cup {"none"} /\ e \in Nat
  BY DEF TypeOK, Event
<1>4. AppendAudit(u, handler[e].prior, s, "stripe", e)
  BY DEF AppendEvent
<1>5. stripeLog' = stripeLog
  BY DEF AppendEvent, stripeVars
<1>6. PICK w \in User, t \in Status : w = u /\ t = s
  BY <1>1, <1>2
<1>7. AuditKept /\ Audited(w, t)'
  BY <1>3, <1>4, <1>6, AppendKeeps
<1> QED BY <1>5, <1>6, <1>7 DEF Audited

LEMMA ExpiryAudited ==
  ASSUME TypeOK, WorkInv, MarkExpiredAppend
  PROVE  AuditKept /\ \E i \in DOMAIN audit'[expiry.cur] :
                        /\ audit'[expiry.cur][i].to = "canceled"
                        /\ audit'[expiry.cur][i].reason = "trial_ended_no_card"
<1> DEFINE u == expiry.cur
           new == Len(audit[u]) + 1
<1>1. expiry.cur \in User /\ expiry.prior \in Status \cup {"none"}
  BY DEF MarkExpiredAppend, WorkInv, TypeOK
<1>2. AppendAudit(expiry.cur, expiry.prior, "canceled", "trial_ended_no_card", 0)
  BY DEF MarkExpiredAppend
<1>3. AuditKept
  BY <1>1, <1>2, AppendKeeps DEF Status
<1>d. /\ "canceled" \in Status /\ 0 \in Nat
      /\ "trial_ended_no_card" \in {"stripe", "trial_ended_no_card",
            "migration_backfill", "purge_warning_30d", "purge_scheduled"}
  BY DEF Status
<1>4. /\ Len(audit[u]) \in Nat
      /\ DOMAIN audit'[u] = 1..new
      /\ audit'[u][new] = [from |-> expiry.prior, to |-> "canceled",
                           reason |-> "trial_ended_no_card", event |-> 0]
  BY ONLY TypeOK, <1>1, <1>2, <1>d, AuditGrows
<1>5. new \in DOMAIN audit'[u]
  BY <1>4
<1> QED BY <1>3, <1>4, <1>5

LEMMA AuditOnlyGrows ==
  ASSUME TypeOK, WorkInv, [Next]_vars
  PROVE  AuditKept
<1> USE DEF stripeVars, cronVars
<1>s. {"trial", "canceled"} \subseteq Status
  BY DEF Status
<1>0. ASSUME audit' = audit PROVE AuditKept
  BY <1>0 DEF AuditKept
<1>1. CASE Environment
  BY <1>0, <1>1, EnvironmentType
<1>2. ASSUME NEW e \in Event, Deliver(e) \/ HandlerStep(e) \/ FailEvent(e)
      PROVE  AuditKept
  <2>1. CASE AppendEvent(e)
    BY <2>1, EventAudited
  <2>2. CASE ~AppendEvent(e)
    BY <1>0, <1>2, <2>2 DEF Deliver, AcceptEvent, AnswerDuplicate, HandlerStep,
       ReadPrior, WriteRow, StampDeletion, FinishEvent, FailEvent
  <2> QED BY <2>1, <2>2
<1>3. CASE MarkExpiredAppend
  BY <1>3, ExpiryAudited
<1>4. CASE BackfillAppend
  <2>1. backfill \in User
    BY <1>4 DEF BackfillAppend, TypeOK
  <2>2. AppendAudit(backfill, "none", "trial", "migration_backfill", 0)
    BY <1>4 DEF BackfillAppend
  <2> QED BY <1>s, <2>1, <2>2, AppendKeeps
<1>5. ASSUME NEW pass \in Pass, AppendSignal(pass)
      PROVE  AuditKept
  <2>1. purge.cur \in User
    BY <1>5 DEF AppendSignal, TypeOK
  <2>2. AppendAudit(purge.cur, "canceled", "canceled", Reason(pass), 0)
    BY <1>5 DEF AppendSignal
  <2>3. Reason(pass) \in {"stripe", "trial_ended_no_card", "migration_backfill",
                          "purge_warning_30d", "purge_scheduled"}
    BY DEF Reason
  <2> QED BY <1>s, <2>1, <2>2, <2>3, AppendKeeps
<1>6. CASE \/ \E u \in User : MarkExpiredRead(u)
           \/ ExpiryTick \/ MarkExpiredWrite \/ MarkExpiredFail
  <2>1. CASE ExpiryTick
    BY <1>0, <2>1, Zenon DEF ExpiryTick
  <2>2. CASE \E u \in User : MarkExpiredRead(u)
    BY <1>0, <2>2 DEF MarkExpiredRead
  <2>3. CASE MarkExpiredWrite \/ MarkExpiredFail
    BY <1>0, <2>3 DEF MarkExpiredWrite, MarkExpiredFail
  <2> QED BY <1>6, <2>1, <2>2, <2>3
<1>7. CASE PurgeTick \/ \E pass \in Pass : \/ \E u \in User : CheckSignalled(u, pass)
                                           \/ EndPass(pass)
  BY <1>0, <1>7 DEF PurgeTick, CheckSignalled, EndPass
<1>8. CASE (\E u \in User : BackfillInsert(u)) \/ Crash \/ UNCHANGED vars
  BY <1>0, <1>8 DEF BackfillInsert, Crash, vars
<1> QED BY <1>1, <1>2, <1>3, <1>4, <1>5, <1>6, <1>7, <1>8
        DEF Next, ExpiryStep, PurgeStep, Pass

-----------------------------------------------------------------------------
(* Who may write the row of a user, and what *)

Kept(u) ==
  /\ row'[u].status = row[u].status
  /\ row'[u].expired = row[u].expired
  /\ row[u].purgeAt # "none" => row'[u].purgeAt # "none"

Started(u) == row[u].status = "none" /\ row'[u] = SeedRow

(* An upsert or an invoice gives the row the status of its event. *)
Mirrored(u, e) ==
  /\ stripeLog[e].user = u
  /\ WriteRow(e)
  /\ HandleSubscriptionUpsert(e) \/ HandleInvoice(e)
  /\ row'[u].status = NewStatus(stripeLog[e])
  /\ row'[u].expired = row[u].expired
  /\ row'[u].purgeAt = row[u].purgeAt

Deletes(u, e) ==
  /\ stripeLog[e].user = u
  /\ WriteRow(e)
  /\ HandleSubscriptionDeleted(e)
  /\ row'[u].status = "canceled"

Expires(u) ==
  row'[u].status = "canceled" /\ row'[u].expired /\ row'[u].purgeAt = "far"

RowWriter(u) ==
  \/ Kept(u)
  \/ Started(u)
  \/ \E e \in Event : \/ Mirrored(u, e)
                      \/ Deletes(u, e)
                      \/ StampDeletion(e) /\ stripeLog[e].user = u /\ Expires(u)
  \/ MarkExpiredWrite /\ expiry.cur = u /\ Expires(u)

LEMMA UpdatedRow ==
  ASSUME TypeOK, NEW u \in User, NEW r \in Row, UpdateRow(u, r), NEW v \in User
  PROVE  row'[v] = row[v] \/ (v = u /\ row'[v] = r)
BY DEF UpdateRow, TypeOK

LEMMA HandlerWrites ==
  ASSUME TypeOK, WorkInv, NEW e \in Event, WriteRow(e) \/ StampDeletion(e),
         NEW u \in User
  PROVE  RowWriter(u)
<1> DEFINE b == stripeLog[e]
           v == b.user
           r == row[v]
<1>1. b \in Body /\ v \in User /\ r \in Row
  BY EventBody DEF Working, WriteRow, StampDeletion
<1>k. ASSUME row'[u] = row[u] PROVE RowWriter(u)
  BY <1>k DEF RowWriter, Kept
<1>2. ASSUME NEW q \in Row, UpdateRow(v, q)
      PROVE  row'[u] = row[u] \/ (u = v /\ row'[u] = q)
  BY <1>1, <1>2, UpdatedRow
<1>3. CASE WriteRow(e) /\ HandleSubscriptionUpsert(e)
  <2> DEFINE q == [r EXCEPT !.status = NewStatus(b),
                            !.trialEnds = IF b.trial THEN "stripe" ELSE "none",
                            !.customer = TRUE, !.subId = TRUE]
  <2>1. NewStatus(b) \in Status
    BY <1>1, <1>3, NewStatusType DEF HandleSubscriptionUpsert
  <2>2. /\ q \in Row /\ q.status = NewStatus(b)
        /\ q.expired = r.expired /\ q.purgeAt = r.purgeAt
    BY <1>1, <2>1 DEF Row
  <2>3. UpdateRow(v, q)
    BY <1>3 DEF HandleSubscriptionUpsert
  <2>4. row'[u] = row[u] \/ (u = v /\ row'[u] = q)
    <3> HIDE DEF q, v, b
    <3> QED BY <1>2, <2>2, <2>3
  <2> HIDE DEF q
  <2>5. CASE u = v /\ row'[u] = q
    BY <1>3, <2>2, <2>5 DEF RowWriter, Mirrored
  <2> QED BY <1>k, <2>4, <2>5
<1>4. CASE WriteRow(e) /\ HandleSubscriptionDeleted(e)
  <2> DEFINE q == [r EXCEPT !.status = "canceled"]
  <2>1. q \in Row /\ q.status = "canceled"
    BY <1>1 DEF Row, Status
  <2>2. UpdateRow(v, q)
    BY <1>4 DEF HandleSubscriptionDeleted
  <2>3. row'[u] = row[u] \/ (u = v /\ row'[u] = q)
    <3> HIDE DEF q, v, b
    <3> QED BY <1>2, <2>1, <2>2
  <2> HIDE DEF q
  <2>4. CASE u = v /\ row'[u] = q
    BY <1>4, <2>1, <2>4 DEF RowWriter, Deletes
  <2> QED BY <1>k, <2>3, <2>4
<1>5. CASE WriteRow(e) /\ HandleInvoice(e)
  <2> DEFINE q == [r EXCEPT !.status = NewStatus(b)]
  <2>1. NewStatus(b) \in Status
    BY <1>1, <1>5, NewStatusType DEF HandleInvoice
  <2>2. /\ q \in Row /\ q.status = NewStatus(b)
        /\ q.expired = r.expired /\ q.purgeAt = r.purgeAt
    BY <1>1, <2>1 DEF Row
  <2>3. UpdateRow(v, q)
    BY <1>5 DEF HandleInvoice
  <2>4. row'[u] = row[u] \/ (u = v /\ row'[u] = q)
    <3> HIDE DEF q, v, b
    <3> QED BY <1>2, <2>2, <2>3
  <2> HIDE DEF q
  <2>5. CASE u = v /\ row'[u] = q
    BY <1>5, <2>2, <2>5 DEF RowWriter, Mirrored
  <2> QED BY <1>k, <2>4, <2>5
<1>6. CASE HandlePaymentMethodAttached(e)
  <2> DEFINE q == [r EXCEPT !.card = TRUE]
  <2>1. /\ q \in Row /\ q.status = r.status
        /\ q.expired = r.expired /\ q.purgeAt = r.purgeAt
    BY <1>1 DEF Row
  <2>2. UpdateRow(v, q)
    BY <1>6 DEF HandlePaymentMethodAttached
  <2>3. row'[u] = row[u] \/ (u = v /\ row'[u] = q)
    <3> HIDE DEF q, v, b
    <3> QED BY <1>2, <2>1, <2>2
  <2> HIDE DEF q
  <2>4. CASE u = v /\ row'[u] = q
    BY <2>1, <2>4 DEF RowWriter, Kept
  <2> QED BY <1>k, <2>3, <2>4
<1>7. CASE StampDeletion(e)
  <2> DEFINE q == [r EXCEPT !.status = "canceled", !.expired = TRUE,
                            !.purgeAt = "far"]
  <2>1. q \in Row /\ q.status = "canceled" /\ q.expired /\ q.purgeAt = "far"
    BY <1>1 DEF Row, Status
  <2>2. UpdateRow(v, q)
    BY <1>7 DEF StampDeletion
  <2>3. row'[u] = row[u] \/ (u = v /\ row'[u] = q)
    <3> HIDE DEF q, v, b
    <3> QED BY <1>2, <2>1, <2>2
  <2> HIDE DEF q
  <2>4. CASE u = v /\ row'[u] = q
    BY <1>7, <2>1, <2>4 DEF RowWriter, Expires
  <2> QED BY <1>k, <2>3, <2>4
<1> QED BY <1>3, <1>4, <1>5, <1>6, <1>7 DEF WriteRow

LEMMA EnvironmentWrites ==
  ASSUME TypeOK, Environment, NEW u \in User
  PROVE  Kept(u) \/ Started(u)
<1> PICK v \in User : \/ EnsureSubscription(v)
                      \/ CreateCheckoutSession(v)
                      \/ TrialClock(v)
                      \/ PurgeClock(v)
                      \/ StripeCheckoutCompletes(v)
                      \/ StripeTransition(v)
                      \/ StripeSideEvent(v)
  BY DEF Environment
<1>r. row[v] \in Row /\ row \in [User -> Row]
  BY DEF TypeOK
<1>k. ASSUME row'[u] = row[u] PROVE Kept(u)
  BY <1>k DEF Kept
<1>1. CASE EnsureSubscription(v)
  BY <1>r, <1>1, <1>k DEF EnsureSubscription, Started
<1>2. CASE CreateCheckoutSession(v)
  <2> DEFINE q == [row[v] EXCEPT !.customer = TRUE]
  <2>1. /\ q \in Row /\ q.status = row[v].status
        /\ q.expired = row[v].expired /\ q.purgeAt = row[v].purgeAt
    BY <1>r DEF Row
  <2>2. UpdateRow(v, q)
    BY <1>2 DEF CreateCheckoutSession
  <2> HIDE DEF q
  <2>3. row'[u] = row[u] \/ (u = v /\ row'[u] = q)
    BY <2>1, <2>2, UpdatedRow
  <2> QED BY <1>k, <2>1, <2>3 DEF Kept
<1>3. CASE PurgeClock(v)
  <2>1. row' = [row EXCEPT ![v] =
                 [row[v] EXCEPT !.purgeAt = IF row[v].purgeAt = "far"
                                            THEN "soon" ELSE "past"]]
    BY <1>3 DEF PurgeClock
  <2>2. /\ row'[v].expired = row[v].expired
        /\ row'[v].status = row[v].status
        /\ row'[v].purgeAt # "none"
        /\ \A w \in User \ {v} : row'[w] = row[w]
    BY <1>r, <2>1 DEF Row
  <2> QED BY <1>k, <2>2 DEF Kept
<1>4. CASE TrialClock(v)
  BY <1>k, <1>4 DEF TrialClock
<1>5. CASE \/ StripeCheckoutCompletes(v)
           \/ StripeTransition(v)
           \/ StripeSideEvent(v)
  <2>1. row' = row
    BY <1>5 DEF StripeCheckoutCompletes, StripeTransition, StripeSideEvent,
                StripeMoves
  <2> QED BY <1>k, <2>1
<1> QED BY <1>1, <1>2, <1>3, <1>4, <1>5

LEMMA RowWriters ==
  ASSUME TypeOK, WorkInv, [Next]_vars, NEW u \in User
  PROVE  RowWriter(u)
<1>k. ASSUME row' = row PROVE RowWriter(u)
  BY <1>k DEF RowWriter, Kept
<1>1. CASE Environment
  BY <1>1, EnvironmentWrites DEF RowWriter
<1>2. ASSUME NEW e \in Event, Deliver(e) \/ HandlerStep(e) \/ FailEvent(e)
      PROVE  RowWriter(u)
  <2>1. CASE WriteRow(e) \/ StampDeletion(e)
    BY <2>1, HandlerWrites
  <2>2. CASE ~(WriteRow(e) \/ StampDeletion(e))
    BY <1>k, <1>2, <2>2 DEF Deliver, AcceptEvent, AnswerDuplicate, HandlerStep,
                            ReadPrior, AppendEvent, FinishEvent, FailEvent
  <2> QED BY <2>1, <2>2
<1>3. CASE MarkExpiredWrite
  <2> DEFINE v == expiry.cur
             q == [row[v] EXCEPT !.status = "canceled", !.expired = TRUE,
                                 !.purgeAt = "far"]
  <2>1. v \in User /\ row[v] \in Row
    BY <1>3 DEF MarkExpiredWrite, WorkInv, TypeOK
  <2>2. q \in Row /\ q.status = "canceled" /\ q.expired /\ q.purgeAt = "far"
    BY <2>1 DEF Row, Status
  <2>3. UpdateRow(v, q)
    BY <1>3 DEF MarkExpiredWrite
  <2>4. row'[u] = row[u] \/ (u = v /\ row'[u] = q)
    <3> HIDE DEF q, v
    <3> QED BY <2>1, <2>2, <2>3, UpdatedRow
  <2> HIDE DEF q
  <2>5. CASE row'[u] = row[u]
    BY <2>5 DEF RowWriter, Kept
  <2>6. CASE u = v /\ row'[u] = q
    BY <1>3, <2>2, <2>6 DEF RowWriter, Expires
  <2> QED BY <2>4, <2>5, <2>6
<1>4. CASE \/ ExpiryTick \/ MarkExpiredAppend \/ MarkExpiredFail
           \/ \E v \in User : MarkExpiredRead(v)
  <2>1. CASE ExpiryTick
    BY <1>k, <2>1, Zenon DEF ExpiryTick
  <2>2. CASE MarkExpiredAppend \/ MarkExpiredFail
    BY <1>k, <2>2 DEF MarkExpiredAppend, MarkExpiredFail
  <2>3. CASE \E v \in User : MarkExpiredRead(v)
    BY <1>k, <2>3 DEF MarkExpiredRead
  <2> QED BY <1>4, <2>1, <2>2, <2>3
<1>5. CASE PurgeStep
  BY <1>k, <1>5 DEF PurgeStep, PurgeTick, CheckSignalled, AppendSignal, EndPass
<1>6. ASSUME NEW v \in User, BackfillInsert(v)
      PROVE  RowWriter(u)
  BY <1>6 DEF BackfillInsert, RowWriter, Kept, Started, TypeOK
<1>7. CASE BackfillAppend \/ Crash \/ UNCHANGED vars
  BY <1>k, <1>7 DEF BackfillAppend, Crash, vars
<1> QED BY <1>1, <1>2, <1>3, <1>4, <1>5, <1>6, <1>7 DEF Next, ExpiryStep

LEMMA FaultsGrow ==
  ASSUME TypeOK, [Next]_vars, faults' = 0
  PROVE  faults = 0
<1> USE DEF stripeVars, cronVars
<1>1. CASE Environment
  BY <1>1, EnvironmentType
<1>2. ASSUME NEW d \in Event, Deliver(d) \/ HandlerStep(d)
      PROVE  faults' = faults
  BY <1>2 DEF Deliver, AcceptEvent, AnswerDuplicate, HandlerStep, ReadPrior,
       WriteRow, StampDeletion, AppendEvent, FinishEvent
<1>3. CASE ExpiryStep
  BY <1>3 DEF ExpiryStep, ExpiryTick, MarkExpiredRead, MarkExpiredWrite,
              MarkExpiredAppend
<1>4. CASE \/ PurgeStep \/ (\E u \in User : BackfillInsert(u))
           \/ BackfillAppend \/ UNCHANGED vars
  BY <1>4 DEF PurgeStep, PurgeTick, CheckSignalled, AppendSignal, EndPass,
              BackfillInsert, BackfillAppend, vars
<1> QED BY <1>1, <1>2, <1>3, <1>4, NoFault DEF Next

LEMMA OnlyReadsLeadToWrites ==
  ASSUME TypeOK, [Next]_vars, NEW e \in Event,
         handler[e].pc # "write", handler'[e].pc = "write"
  PROVE  ReadPrior(e)
<1> USE DEF stripeVars, cronVars, GoTo
<1>1. CASE Environment
  BY <1>1, EnvironmentType
<1>2. ASSUME NEW d \in Event, Deliver(d) \/ HandlerStep(d) \/ FailEvent(d)
      PROVE  ReadPrior(e)
  BY <1>2 DEF Deliver, AcceptEvent, AnswerDuplicate, HandlerStep, ReadPrior,
       WriteRow, HandleSubscriptionUpsert, HandleSubscriptionDeleted,
       HandleInvoice, HandlePaymentMethodAttached, StampDeletion, AppendEvent,
       FinishEvent, FailEvent, NoRequest, TypeOK
<1>3. CASE ExpiryStep \/ MarkExpiredFail
  BY <1>3 DEF ExpiryStep, ExpiryTick, MarkExpiredRead, MarkExpiredWrite,
              MarkExpiredAppend, MarkExpiredFail
<1>4. CASE \/ PurgeStep \/ (\E u \in User : BackfillInsert(u))
           \/ BackfillAppend \/ UNCHANGED vars
  BY <1>4 DEF PurgeStep, PurgeTick, CheckSignalled, AppendSignal, EndPass,
              BackfillInsert, BackfillAppend, vars
<1>5. CASE Crash
  BY <1>5 DEF Crash, NoRequest
<1> QED BY <1>1, <1>2, <1>3, <1>4, <1>5 DEF Next

-----------------------------------------------------------------------------
(* Without failures, the log explains the status *)

(* The row that will say so is still to be appended. *)
Pending(u, s) ==
  \/ \E e \in Event : /\ handler[e].pc \in {"stamp", "append"}
                      /\ stripeLog[e].user = u
                      /\ NewStatus(stripeLog[e]) = s
  \/ expiry.pc = "append" /\ expiry.cur = u /\ s = "canceled"

Explained(u, s) == s \in {"none", "trial"} \/ Audited(u, s) \/ Pending(u, s)

(* A status is explained as soon as it is in the row, and one that a handler
   has read stays explained while the handler decides from it.             *)
ExplainInv ==
  faults = 0 =>
    /\ \A u \in User : Explained(u, row[u].status)
    /\ \A e \in Event :
         handler[e].pc = "write" => Explained(stripeLog[e].user, handler[e].prior)

LEMMA ExplainedStays ==
  ASSUME TypeOK, WorkInv, [Next]_vars, faults' = 0,
         NEW u \in User, NEW s \in Status \cup {"none"}, Explained(u, s)
  PROVE  Explained(u, s)'
<1>k. AuditKept
  BY AuditOnlyGrows
<1>1. CASE s \in {"none", "trial"}
  BY <1>1 DEF Explained
<1>2. CASE Audited(u, s)
  BY <1>k, <1>2 DEF Explained, Audited, AuditKept
<1>3. ASSUME NEW e \in Event, handler[e].pc \in {"stamp", "append"},
             stripeLog[e].user = u, NewStatus(stripeLog[e]) = s
      PROVE  Explained(u, s)'
  <2>1. /\ stripeLog'[e] = stripeLog[e]
        /\ \/ handler'[e] = handler[e]
           \/ WriteRow(e) \/ StampDeletion(e) \/ AppendEvent(e)
    BY <1>3, HandlerGoesOn
  <2>n. NewStatus(stripeLog'[e]) = s
    BY <1>3, <2>1
  <2>2. CASE AppendEvent(e)
    <3>1. Audited(stripeLog[e].user, NewStatus(stripeLog[e]))'
      BY <2>2, EventAudited
    <3>2. Audited(u, s)'
      BY <1>3, <2>1, <2>n, <3>1 DEF Audited
    <3> QED BY <3>2 DEF Explained
  <2>3. CASE ~AppendEvent(e)
    <3>1. handler'[e].pc \in {"stamp", "append"}
      BY <1>3, <2>1, <2>3 DEF WriteRow, StampDeletion, GoTo, TypeOK
    <3> QED BY <1>3, <2>1, <2>n, <3>1 DEF Explained, Pending
  <2> QED BY <2>2, <2>3
<1>4. CASE expiry.pc = "append" /\ expiry.cur = u /\ s = "canceled"
  <2>1. expiry' = expiry \/ MarkExpiredAppend
    BY <1>4, ExpiryGoesOn
  <2>2. CASE expiry' = expiry
    BY <1>4, <2>2 DEF Explained, Pending
  <2>3. CASE MarkExpiredAppend
    BY <1>4, <2>3, ExpiryAudited DEF Explained, Audited
  <2> QED BY <2>1, <2>2, <2>3
<1> QED BY <1>1, <1>2, <1>3, <1>4 DEF Explained, Pending

(* A handler that has given the row the status of its event appends it, or
   read that status before.                                                *)
LEMMA WriteExplained ==
  ASSUME TypeOK, WorkInv, ExplainInv, [Next]_vars, faults = 0, faults' = 0,
         NEW u \in User, NEW e \in Event, stripeLog[e].user = u, WriteRow(e),
         ~HandlePaymentMethodAttached(e),
         row'[u].status = NewStatus(stripeLog[e])
  PROVE  Explained(u, row[u].status)'
<1> DEFINE b == stripeLog[e]
<1>1. handler[e].pc = "write" /\ Working(e) /\ stripeLog' = stripeLog
  BY DEF WriteRow, stripeVars, Working
<1>b. b \in Body
  BY <1>1, EventBody
<1>2. CASE handler'[e].pc \in {"stamp", "append"}
  BY <1>1, <1>2 DEF Explained, Pending
<1>3. CASE handler'[e].pc \notin {"stamp", "append"}
  <2>1. /\ HandleSubscriptionUpsert(e)
        /\ handler[e].prior = NewStatus(b)
    BY <1>3 DEF WriteRow, HandleSubscriptionUpsert, HandleSubscriptionDeleted,
                HandleInvoice, GoTo, TypeOK
  <2>2. NewStatus(b) \in Status
    BY <1>b, <2>1, NewStatusType DEF HandleSubscriptionUpsert
  <2>3. Explained(u, handler[e].prior)
    BY <1>1 DEF ExplainInv
  <2>4. PICK s \in Status \cup {"none"} : s = NewStatus(b)
    BY <2>2
  <2>5. Explained(u, s)
    BY <2>1, <2>3, <2>4
  <2>6. Explained(u, s)'
    BY <2>5, ExplainedStays
  <2> QED BY <2>4, <2>6 DEF Explained, Audited, Pending
<1> QED BY <1>2, <1>3

LEMMA DeletedStatus ==
  ASSUME TypeOK, WorkInv, NEW e \in Event,
         handler[e].pc = "stamp" \/ HandleSubscriptionDeleted(e)
  PROVE  NewStatus(stripeLog[e]) = "canceled"
<1>1. stripeLog[e].type = Deleted
  BY DEF WorkInv, HandleSubscriptionDeleted
<1> QED BY <1>1 DEF NewStatus, Upsert, Deleted, Paid, Failed

LEMMA RowExplained ==
  ASSUME TypeOK, WorkInv, ExplainInv, [Next]_vars, faults = 0, faults' = 0,
         NEW u \in User
  PROVE  Explained(u, row[u].status)'
<1>r. row[u] \in Row
  BY DEF TypeOK
<1>1. CASE Kept(u)
  <2>1. PICK s \in Status \cup {"none"} : s = row[u].status
    BY <1>r DEF Row
  <2>2. Explained(u, s)
    BY <2>1 DEF ExplainInv
  <2>3. Explained(u, s)'
    BY <2>2, ExplainedStays
  <2> QED BY <1>1, <2>1, <2>3 DEF Kept, Explained, Audited, Pending
<1>2. CASE Started(u)
  BY <1>2 DEF Started, SeedRow, NoRow, Explained
<1>3. ASSUME NEW e \in Event, Mirrored(u, e) PROVE Explained(u, row[u].status)'
  <2>1. ~HandlePaymentMethodAttached(e)
    BY <1>3 DEF Mirrored, HandleSubscriptionUpsert, HandleInvoice,
                HandlePaymentMethodAttached, Upsert, Paid, Failed
  <2> QED BY <1>3, <2>1, WriteExplained DEF Mirrored
<1>4. ASSUME NEW e \in Event, Deletes(u, e) PROVE Explained(u, row[u].status)'
  <2>1. ~HandlePaymentMethodAttached(e)
    BY <1>4 DEF Deletes, HandleSubscriptionDeleted,
                HandlePaymentMethodAttached, Deleted
  <2> QED BY <1>4, <2>1, DeletedStatus, WriteExplained DEF Deletes
<1>5. ASSUME NEW e \in Event, StampDeletion(e), stripeLog[e].user = u, Expires(u)
      PROVE  Explained(u, row[u].status)'
  <2>1. handler'[e].pc = "append" /\ stripeLog' = stripeLog
        /\ handler[e].pc = "stamp"
    BY <1>5 DEF StampDeletion, GoTo, TypeOK, stripeVars
  <2>2. NewStatus(stripeLog[e]) = "canceled"
    BY <2>1, DeletedStatus
  <2> QED BY <1>5, <2>1, <2>2 DEF Expires, Explained, Pending
<1>6. CASE MarkExpiredWrite /\ expiry.cur = u /\ Expires(u)
  <2>1. expiry'.pc = "append" /\ expiry'.cur = u
    BY <1>6 DEF MarkExpiredWrite, TypeOK
  <2> QED BY <1>6, <2>1 DEF Expires, Explained, Pending
<1> QED BY <1>1, <1>2, <1>3, <1>4, <1>5, <1>6, RowWriters DEF RowWriter

(* What a handler about to write has read. *)
LEMMA PriorExplained ==
  ASSUME TypeOK, WorkInv, ExplainInv, [Next]_vars, faults = 0, faults' = 0,
         NEW e \in Event, handler'[e].pc = "write"
  PROVE  Explained(stripeLog[e].user, handler[e].prior)'
<1>1. CASE handler[e].pc = "write"
  <2>1. Working(e)
    BY <1>1 DEF Working
  <2>w. ASSUME WriteRow(e) \/ StampDeletion(e) \/ AppendEvent(e) PROVE FALSE
    <3>1. CASE WriteRow(e)
      <4>1. \E pc \in {"stamp", "append", "finish"} : GoTo(e, pc)
        BY <3>1 DEF WriteRow, HandleSubscriptionUpsert,
           HandleSubscriptionDeleted, HandleInvoice, HandlePaymentMethodAttached
      <4> QED BY <4>1 DEF GoTo, TypeOK
    <3>2. CASE StampDeletion(e) \/ AppendEvent(e)
      BY <1>1, <3>2 DEF StampDeletion, AppendEvent
    <3> QED BY <2>w, <3>1, <3>2
  <2>2. /\ stripeLog'[e] = stripeLog[e]
        /\ handler'[e] = handler[e]
    BY <1>1, <2>w, HandlerGoesOn
  <2>3. PICK u \in User, s \in Status \cup {"none"} :
          u = stripeLog[e].user /\ s = handler[e].prior
    BY <2>1, EventBody DEF TypeOK
  <2>4. Explained(u, s)
    BY <1>1, <2>3 DEF ExplainInv
  <2>5. Explained(u, s)'
    BY <2>4, ExplainedStays
  <2>6. u = stripeLog'[e].user /\ s = handler'[e].prior
    BY <2>2, <2>3
  <2> QED BY <2>5, <2>6 DEF Explained, Audited, Pending
<1>2. CASE handler[e].pc # "write"
  <2>1. ReadPrior(e)
    BY <1>2, OnlyReadsLeadToWrites
  <2>2. /\ Working(e) /\ UNCHANGED <<stripeLog, audit, expiry, row>>
        /\ handler'[e].prior = row[stripeLog[e].user].status
        /\ \A d \in Event \ {e} : handler'[d] = handler[d]
        /\ handler[e].pc = "read"
    BY <2>1 DEF ReadPrior, Working, stripeVars, cronVars, TypeOK
  <2>3. stripeLog[e].user \in User
    BY <2>2, EventBody
  <2>4. Explained(stripeLog[e].user, row[stripeLog[e].user].status)'
    BY <2>2, <2>3, RowExplained
  <2> QED BY <2>2, <2>4 DEF Explained, Audited, Pending
<1> QED BY <1>1, <1>2

LEMMA ExplainStep ==
  ASSUME TypeOK, WorkInv, ExplainInv, [Next]_vars
  PROVE  ExplainInv'
<1> SUFFICES ASSUME faults' = 0
             PROVE  /\ \A u \in User : Explained(u, row[u].status)'
                    /\ \A e \in Event : handler'[e].pc = "write" =>
                         Explained(stripeLog[e].user, handler[e].prior)'
  BY DEF ExplainInv
<1>1. faults = 0
  BY FaultsGrow
<1> QED BY <1>1, RowExplained, PriorExplained

(* Signup, webhook handlers that interleave and decide from stale rows, and
   the trial cron: for any number of events, without failures every status a
   quiet user's row has, beyond the trial, is in the audit log.            *)
THEOREM StatusExplained == Spec => []AuditExplainsStatus
<1>1. Init => ExplainInv
  BY DEF Init, ExplainInv, Explained, SeedRow, NoRow, NoRequest
<1>2. IInv /\ ExplainInv /\ [Next]_vars => ExplainInv'
  BY ExplainStep DEF IInv
<1>3. IInv /\ ExplainInv => AuditExplainsStatus
  <2> SUFFICES ASSUME TypeOK, WorkInv, ExplainInv, faults = 0,
                      NEW u \in User, Quiet(u)
               PROVE  \/ row[u].status \in {"none", "trial"}
                      \/ Audited(u, row[u].status)
    BY DEF AuditExplainsStatus, IInv
  <2>1. Explained(u, row[u].status)
    BY DEF ExplainInv
  <2>2. ~Pending(u, row[u].status)
    <3>1. Len(stripeLog) \in Nat
      BY LenProperties DEF TypeOK
    <3>2. \A e \in Event : Working(e) => stripeLog[e].user # u
      BY <3>1 DEF Quiet, WorkInv, Event
    <3> QED BY <3>2 DEF Pending, Quiet, Working
  <2> QED BY <2>1, <2>2 DEF Explained
<1> QED BY Inductive, <1>1, <1>2, <1>3, PTL DEF Spec

-----------------------------------------------------------------------------
(* What Stripe writes *)

NoLater(i) ==
  \A j \in (i + 1)..Len(stripeLog) : stripeLog[j].user # stripeLog[i].user

Previous(p, i) ==
  /\ stripeLog[p].user = stripeLog[i].user
  /\ \A j \in (p + 1)..(i - 1) : stripeLog[j].user # stripeLog[i].user

(* An event that neither tells the status nor deletes, after the status from. *)
Follows(from, type, to) ==
  \/ type = Paid /\ to = "active" /\ from \notin {"canceled", "incomplete_expired"}
  \/ type = Failed /\ to = "past_due"
  \/ type \in Side /\ to = from

Tells(type, to) ==
  \/ type = Upsert /\ to # "canceled"
  \/ type = Deleted /\ to = "canceled"

EventInv(i) ==
  LET b == stripeLog[i]
  IN /\ b.status = "incomplete_expired" => stripe[b.user].status = "incomplete_expired"
     /\ NoLater(i) => b.status = stripe[b.user].status
     /\ \/ Tells(b.type, b.status)
        \/ \E p \in 1..(i - 1) :
             Previous(p, i) /\ Follows(stripeLog[p].status, b.type, b.status)

LogInv ==
  /\ \A i \in 1..Len(stripeLog) : EventInv(i)
  /\ \A u \in User : stripe[u].status # "none" =>
       \E p \in 1..Len(stripeLog) : stripeLog[p].user = u /\ NoLater(p)
  /\ \A u \in User : stripe[u].status = "none" =>
       \A p \in 1..Len(stripeLog) : stripeLog[p].user # u

LEMMA NewEvents ==
  ASSUME TypeOK, NEW u \in User, NEW s \in StripeStatus, NEW t \in BOOLEAN,
         NEW types \in Seq(EventType), StripeMoves(u, s, t, types)
  PROVE  /\ Len(stripeLog) \in Nat /\ Len(types) \in Nat
         /\ Len(stripeLog') = Len(stripeLog) + Len(types)
         /\ \A e \in 1..Len(stripeLog) : stripeLog'[e] = stripeLog[e]
         /\ \A n \in 1..Len(types) : stripeLog'[Len(stripeLog) + n] =
              [user |-> u, type |-> types[n], status |-> s, trial |-> t]
         /\ stripe'[u].status = s
         /\ \A v \in User \ {u} : stripe'[v] = stripe[v]
<1> DEFINE new == [i \in 1..Len(types) |->
                     [user |-> u, type |-> types[i], status |-> s, trial |-> t]]
<1>1. Len(types) \in Nat /\ Len(stripeLog) \in Nat /\ stripeLog \in Seq(Body)
  BY LenProperties DEF TypeOK
<1>2. new \in Seq(Body) /\ Len(new) = Len(types)
  <2>1. \A i \in 1..Len(types) : types[i] \in EventType
    BY ElementOfSeq
  <2>2. new \in [1..Len(types) -> Body]
    BY <2>1 DEF Body, EventType
  <2>3. new \in Seq(Body)
    BY <1>1, <2>2, SeqDef
  <2>4. DOMAIN new = 1..Len(types) /\ DOMAIN new = 1..Len(new) /\ Len(new) \in Nat
    BY <2>2, <2>3, LenProperties
  <2> QED BY <1>1, <2>3, <2>4
<1>3. stripeLog' = stripeLog \o new
  BY DEF StripeMoves
<1>4. \A n \in 1..Len(types) : new[n] =
        [user |-> u, type |-> types[n], status |-> s, trial |-> t]
  OBVIOUS
<1> HIDE DEF new
<1>5. /\ Len(stripeLog') = Len(stripeLog) + Len(new)
      /\ \A e \in 1..Len(stripeLog) : stripeLog'[e] = stripeLog[e]
      /\ \A n \in 1..Len(new) : stripeLog'[Len(stripeLog) + n] = new[n]
  <2>1. \A k \in 1..(Len(stripeLog) + Len(new)) :
          (stripeLog \o new)[k] = IF k <= Len(stripeLog) THEN stripeLog[k]
                                  ELSE new[k - Len(stripeLog)]
    BY <1>1, <1>2, ConcatProperties
  <2>2. Len(stripeLog \o new) = Len(stripeLog) + Len(new)
    BY <1>1, <1>2, ConcatProperties
  <2>3. \A n \in 1..Len(new) : /\ Len(stripeLog) + n \in 1..(Len(stripeLog) + Len(new))
                               /\ ~(Len(stripeLog) + n <= Len(stripeLog))
                               /\ Len(stripeLog) + n - Len(stripeLog) = n
    BY <1>1, <1>2
  <2>4. \A e \in 1..Len(stripeLog) : /\ e \in 1..(Len(stripeLog) + Len(new))
                                     /\ e <= Len(stripeLog)
    BY <1>1, <1>2
  <2> QED BY <1>3, <2>1, <2>2, <2>3, <2>4
<1>6. /\ stripe'[u].status = s
      /\ \A v \in User \ {u} : stripe'[v] = stripe[v]
  BY DEF StripeMoves, TypeOK
<1> QED BY <1>1, <1>2, <1>4, <1>5, <1>6

LEMMA LogStep ==
  ASSUME TypeOK, LogInv, NEW u \in User, NEW s \in StripeStatus,
         NEW t \in BOOLEAN, NEW types \in Seq(EventType), Len(types) \in {1, 2},
         StripeMoves(u, s, t, types),
         stripe[u].status = "incomplete_expired" => s = "incomplete_expired",
         \A n \in 1..Len(types) :
           \/ Tells(types[n], s)
           \/ n = 1 /\ stripe[u].status # "none" /\ Follows(stripe[u].status, types[n], s)
           \/ n = 2 /\ Follows(s, types[n], s)
  PROVE  LogInv'
<1> DEFINE L == Len(stripeLog)
           b == stripeLog'
<1>1. /\ L \in Nat /\ Len(types) \in Nat
      /\ Len(b) = L + Len(types)
      /\ \A e \in 1..L : b[e] = stripeLog[e]
      /\ \A n \in 1..Len(types) : b[L + n] =
           [user |-> u, type |-> types[n], status |-> s, trial |-> t]
      /\ stripe'[u].status = s
      /\ \A v \in User \ {u} : stripe'[v] = stripe[v]
  BY NewEvents
<1>t. \A i \in 1..L : stripeLog[i].user \in User
  <2>1. \A i \in 1..L : stripeLog[i] \in Body
    BY ElementOfSeq DEF TypeOK
  <2> QED BY <2>1 DEF Body
<1> HIDE DEF L
<1>n. \A i \in (L + 1)..Len(b) : /\ i - L \in 1..Len(types) /\ i = L + (i - L)
                                 /\ i \in Int /\ i > L
  BY <1>1
<1>u. \A i \in (L + 1)..Len(b) : b[i].user = u /\ b[i].status = s
                                 /\ b[i].type = types[i - L]
  <2> TAKE i \in (L + 1)..Len(b)
  <2>1. b[i] = [user |-> u, type |-> types[i - L], status |-> s, trial |-> t]
    BY <1>1, <1>n
  <2> QED BY <2>1
<1>l. \A i \in 1..Len(b) : i \in 1..L \/ i \in (L + 1)..Len(b)
  BY <1>1
<1>2. ASSUME NEW i \in 1..L, stripeLog[i].user # u, NoLater(i) PROVE NoLater(i)'
  <2> SUFFICES ASSUME NEW j \in (i + 1)..Len(b) PROVE b[j].user # b[i].user
    BY DEF NoLater
  <2>1. j \in (i + 1)..L \/ j \in (L + 1)..Len(b)
    BY <1>1
  <2>2. CASE j \in (i + 1)..L
    <3>1. j \in 1..L
      BY <1>1, <2>2
    <3> QED BY <1>1, <1>2, <2>2, <3>1 DEF NoLater, L
  <2>3. CASE j \in (L + 1)..Len(b)
    BY <1>1, <1>2, <1>u, <2>3
  <2> QED BY <2>1, <2>2, <2>3
<1>3. ASSUME NEW i \in 1..L, NoLater(i)'
      PROVE  stripeLog[i].user # u /\ NoLater(i)
  <2>1. L + 1 \in (i + 1)..Len(b) /\ L + 1 \in (L + 1)..Len(b)
    BY <1>1
  <2>2. b[L + 1].user # b[i].user
    BY <1>3, <2>1 DEF NoLater
  <2>3. stripeLog[i].user # u
    BY <1>1, <1>u, <2>1, <2>2
  <2>4. ASSUME NEW j \in (i + 1)..L PROVE stripeLog[j].user # stripeLog[i].user
    <3>1. j \in (i + 1)..Len(b) /\ j \in 1..L
      BY <1>1, <2>4
    <3>2. b[j].user # b[i].user
      BY <1>3, <3>1 DEF NoLater
    <3> QED BY <1>1, <3>1, <3>2
  <2> QED BY <2>3, <2>4 DEF NoLater, L
<1>p. ASSUME NEW i \in 1..L, NEW p \in 1..(i - 1), Previous(p, i)
      PROVE  Previous(p, i)' /\ b[p] = stripeLog[p] /\ b[i] = stripeLog[i]
  <2>1. p \in 1..L /\ \A j \in (p + 1)..(i - 1) : j \in 1..L
    BY <1>1, <1>p
  <2> QED BY <1>1, <1>p, <2>1 DEF Previous
<1>4. ASSUME NEW i \in 1..L PROVE EventInv(i)'
  <2> DEFINE c == stripeLog[i]
  <2>0. EventInv(i) /\ b[i] = c /\ c.user \in User
    BY <1>1, <1>t DEF LogInv, L
  <2>1. c.status = "incomplete_expired" => stripe'[c.user].status = "incomplete_expired"
    <3>1. CASE c.user = u
      BY <1>1, <2>0, <3>1 DEF EventInv
    <3>2. CASE c.user # u
      BY <1>1, <2>0, <3>2 DEF EventInv
    <3> QED BY <3>1, <3>2
  <2>2. NoLater(i)' => c.status = stripe'[c.user].status
    <3> SUFFICES ASSUME NoLater(i)' PROVE c.status = stripe'[c.user].status
      OBVIOUS
    <3>1. c.user # u /\ NoLater(i)
      BY <1>3
    <3> QED BY <1>1, <2>0, <3>1 DEF EventInv
  <2>3. \/ Tells(c.type, c.status)
        \/ \E p \in 1..(i - 1) :
             Previous(p, i)' /\ Follows(b[p].status, c.type, c.status)
    <3>1. CASE Tells(c.type, c.status)
      BY <3>1
    <3>2. CASE ~Tells(c.type, c.status)
      <4>1. PICK p \in 1..(i - 1) :
              Previous(p, i) /\ Follows(stripeLog[p].status, c.type, c.status)
        BY <2>0, <3>2 DEF EventInv
      <4> QED BY <1>p, <4>1
    <3> QED BY <3>1, <3>2
  <2> QED BY <2>0, <2>1, <2>2, <2>3 DEF EventInv
<1>5. ASSUME NEW i \in (L + 1)..Len(b) PROVE EventInv(i)'
  <2>1. b[i].user = u /\ b[i].status = s /\ b[i].type = types[i - L]
        /\ i - L \in 1..Len(types) /\ i \in Int
    BY <1>u, <1>n
  <2>2. \/ Tells(b[i].type, b[i].status)
        \/ \E p \in 1..(i - 1) :
             Previous(p, i)' /\ Follows(b[p].status, b[i].type, b[i].status)
    <3>1. CASE Tells(types[i - L], s)
      BY <2>1, <3>1
    <3>2. CASE i - L = 1 /\ stripe[u].status # "none"
               /\ Follows(stripe[u].status, types[i - L], s)
      <4>1. PICK p \in 1..L : stripeLog[p].user = u /\ NoLater(p)
        BY <3>2 DEF LogInv, L
      <4>2. EventInv(p) /\ p \in 1..(i - 1) /\ i - 1 = L
        BY <1>1, <2>1, <3>2, <4>1 DEF LogInv, L
      <4>3. stripeLog[p].status = stripe[u].status /\ b[p] = stripeLog[p]
        BY <1>1, <4>1, <4>2 DEF EventInv
      <4>4. \A j \in (p + 1)..(i - 1) : b[j].user # u
        <5> TAKE j \in (p + 1)..(i - 1)
        <5>1. j \in 1..L /\ j \in (p + 1)..L
          BY <1>1, <4>2
        <5> QED BY <1>1, <4>1, <5>1 DEF NoLater, L
      <4>5. Previous(p, i)'
        BY <2>1, <4>1, <4>3, <4>4 DEF Previous
      <4> QED BY <2>1, <3>2, <4>2, <4>3, <4>5
    <3>3. CASE i - L = 2 /\ Follows(s, types[i - L], s)
      <4>1. PICK p \in 1..(i - 1) : p = L + 1 /\ p \in (L + 1)..Len(b)
        BY <1>1, <2>1, <3>3
      <4>2. b[p].user = u /\ b[p].status = s
        BY <1>u, <4>1
      <4>3. \A j \in (p + 1)..(i - 1) : FALSE
        BY <1>1, <2>1, <3>3, <4>1
      <4>4. Previous(p, i)'
        BY <2>1, <4>2, <4>3 DEF Previous
      <4> QED BY <2>1, <3>3, <4>2, <4>4
    <3> QED BY <2>1, <3>1, <3>2, <3>3
  <2>3. b[i].status = stripe'[b[i].user].status
    BY <1>1, <2>1
  <2> QED BY <2>1, <2>2, <2>3 DEF EventInv
<1>6. ASSUME NEW v \in User, stripe'[v].status # "none"
      PROVE  \E p \in 1..Len(b) : b[p].user = v /\ NoLater(p)'
  <2>1. CASE v = u
    <3>1. Len(b) \in Nat /\ Len(b) > L
      BY <1>1
    <3>2. PICK p \in 1..Len(b) : p = Len(b)
      BY <1>1, <3>1
    <3>3. p \in (L + 1)..Len(b) /\ \A j \in (p + 1)..Len(b) : FALSE
      BY <1>1, <3>1, <3>2
    <3>4. b[p].user = u /\ NoLater(p)'
      BY <1>u, <3>3 DEF NoLater
    <3> QED BY <2>1, <3>4
  <2>2. CASE v # u
    <3>1. PICK p \in 1..L : stripeLog[p].user = v /\ NoLater(p)
      BY <1>1, <1>6, <2>2 DEF LogInv, L
    <3>2. p \in 1..Len(b) /\ b[p].user = v
      BY <1>1, <3>1
    <3>3. NoLater(p)'
      BY <1>2, <2>2, <3>1
    <3> QED BY <3>2, <3>3
  <2> QED BY <2>1, <2>2
<1>7. ASSUME NEW v \in User, stripe'[v].status = "none", NEW p \in 1..Len(b)
      PROVE  b[p].user # v
  <2>1. v # u /\ stripe[v].status = "none"
    BY <1>1, <1>7 DEF StripeStatus
  <2>2. CASE p \in 1..L
    BY <1>1, <2>1, <2>2 DEF LogInv, L
  <2>3. CASE p \in (L + 1)..Len(b)
    BY <1>u, <2>1, <2>3
  <2> QED BY <1>l, <2>2, <2>3
<1> QED BY <1>4, <1>5, <1>6, <1>7, <1>l DEF LogInv

LEMMA LogKept ==
  ASSUME LogInv, UNCHANGED <<stripe, stripeLog>>
  PROVE  LogInv'
BY DEF LogInv, EventInv, NoLater, Previous

(* Stripe's own steps; it never takes an expired first payment back. *)
LEMMA LogEnvironment ==
  ASSUME TypeOK, LogInv, Environment
  PROVE  /\ LogInv'
         /\ \A v \in User : stripe[v].status = "incomplete_expired" =>
              stripe'[v].status = "incomplete_expired"
<1> DEFINE Ends == \A v \in User : stripe[v].status = "incomplete_expired" =>
                     stripe'[v].status = "incomplete_expired"
<1> PICK u \in User : \/ EnsureSubscription(u)
                      \/ CreateCheckoutSession(u)
                      \/ TrialClock(u)
                      \/ PurgeClock(u)
                      \/ StripeCheckoutCompletes(u)
                      \/ StripeTransition(u)
                      \/ StripeSideEvent(u)
  BY DEF Environment
<1>1. CASE \/ EnsureSubscription(u)
           \/ CreateCheckoutSession(u)
           \/ TrialClock(u)
           \/ PurgeClock(u)
  <2>1. UNCHANGED <<stripe, stripeLog>>
    BY <1>1 DEF EnsureSubscription, CreateCheckoutSession, TrialClock,
                PurgeClock, stripeVars
  <2> QED BY <2>1, LogKept
<1>2. ASSUME NEW s \in StripeStatus, NEW t \in BOOLEAN,
             NEW types \in Seq(EventType), Len(types) \in {1, 2},
             StripeMoves(u, s, t, types),
             stripe[u].status = "incomplete_expired" => s = "incomplete_expired",
             \A n \in 1..Len(types) :
               \/ Tells(types[n], s)
               \/ /\ n = 1 /\ stripe[u].status # "none"
                  /\ Follows(stripe[u].status, types[n], s)
               \/ n = 2 /\ Follows(s, types[n], s)
      PROVE  LogInv' /\ Ends
  <2>1. LogInv'
    BY <1>2, LogStep
  <2>2. Ends
    BY <1>2, NewEvents
  <2> QED BY <2>1, <2>2
<1>3. ASSUME NEW s \in StripeStatus, NEW t \in BOOLEAN, NEW a \in EventType,
             NEW types, types = <<a>>, StripeMoves(u, s, t, types),
             stripe[u].status = "incomplete_expired" => s = "incomplete_expired",
             \/ Tells(a, s)
             \/ stripe[u].status # "none" /\ Follows(stripe[u].status, a, s)
      PROVE  LogInv' /\ Ends
  <2>1. /\ types \in Seq(EventType) /\ Len(types) = 1 /\ types[1] = a
        /\ \A n \in 1..Len(types) : n = 1
    BY <1>3
  <2> QED BY <1>2, <1>3, <2>1
<1>4. ASSUME NEW s \in StripeStatus, NEW t \in BOOLEAN,
             NEW a \in EventType, NEW b \in EventType,
             NEW types, types = <<a, b>>, StripeMoves(u, s, t, types),
             stripe[u].status = "incomplete_expired" => s = "incomplete_expired",
             \/ Tells(a, s)
             \/ stripe[u].status # "none" /\ Follows(stripe[u].status, a, s),
             Tells(b, s) \/ Follows(s, b, s)
      PROVE  LogInv' /\ Ends
  <2>1. /\ types \in Seq(EventType) /\ Len(types) = 2
        /\ types[1] = a /\ types[2] = b
        /\ \A n \in 1..Len(types) : n = 1 \/ n = 2
    BY <1>4
  <2> QED BY <1>2, <1>4, <2>1
<1>e. /\ {Upsert, Paid, Failed, Deleted} \subseteq EventType
      /\ SideTypes \subseteq EventType
  BY DEF EventType
<1>s. /\ stripe[u].trial \in BOOLEAN
      /\ {"trialing", "active", "past_due", "incomplete", "incomplete_expired",
          "canceled"} \subseteq StripeStatus
  BY DEF TypeOK, StripeStatus
<1> HIDE DEF Ends
<1>5. CASE StripeCheckoutCompletes(u)
  <2>p. PICK s \in {"trialing", "active", "incomplete"} :
          StripeMoves(u, s, session[u] = "trial", <<Upsert>>)
    BY <1>5 DEF StripeCheckoutCompletes
  <2>1. PICK types : types = <<Upsert>> /\ StripeMoves(u, s, session[u] = "trial", types)
    BY <2>p
  <2>2. stripe[u].status = "none" /\ (session[u] = "trial") \in BOOLEAN
    BY <1>5 DEF StripeCheckoutCompletes
  <2>3. s \in StripeStatus /\ Tells(Upsert, s)
    BY <1>s DEF Tells
  <2> QED BY <1>3, <1>e, <2>1, <2>2, <2>3 DEF Ends
<1>6. CASE StripeTransition(u)
  <2> DEFINE s == stripe[u].status
  <2>t. PICK t \in BOOLEAN : t = stripe[u].trial
    BY <1>s
  <2>1. CASE s = "trialing"
             /\ StripeMoves(u, "active", t, <<Upsert, Paid>>)
    <3>1. PICK types : types = <<Upsert, Paid>> /\ StripeMoves(u, "active", t, types)
      BY <2>1
    <3>2. Tells(Upsert, "active") /\ Follows("active", Paid, "active")
      BY <2>1 DEF Tells, Follows
    <3> QED BY <1>4, <1>e, <1>s, <2>1, <3>1, <3>2 DEF Ends
  <2>2. CASE s = "active"
             /\ StripeMoves(u, "active", t, <<Paid>>)
    <3>1. PICK types : types = <<Paid>> /\ StripeMoves(u, "active", t, types)
      BY <2>2
    <3>2. Follows("active", Paid, "active")
      BY <2>2 DEF Tells, Follows
    <3> QED BY <1>3, <1>e, <1>s, <2>2, <3>1, <3>2 DEF Ends
  <2>3. CASE s = "active"
             /\ StripeMoves(u, "past_due", t, <<Failed, Upsert>>)
    <3>1. PICK types : types = <<Failed, Upsert>> /\ StripeMoves(u, "past_due", t, types)
      BY <2>3
    <3>2. Follows("active", Failed, "past_due") /\ Tells(Upsert, "past_due")
      BY <2>3 DEF Tells, Follows
    <3> QED BY <1>4, <1>e, <1>s, <2>3, <3>1, <3>2 DEF Ends
  <2>4. CASE s \in {"past_due", "incomplete"}
             /\ StripeMoves(u, "active", t, <<Paid, Upsert>>)
    <3>1. PICK types : types = <<Paid, Upsert>> /\ StripeMoves(u, "active", t, types)
      BY <2>4
    <3>2. Follows(s, Paid, "active") /\ Tells(Upsert, "active")
      BY <2>4 DEF Tells, Follows
    <3> QED BY <1>4, <1>e, <1>s, <2>4, <3>1, <3>2 DEF Ends
  <2>5. CASE s = "incomplete"
             /\ StripeMoves(u, "incomplete_expired", t, <<Upsert>>)
    <3>1. PICK types : types = <<Upsert>> /\ StripeMoves(u, "incomplete_expired", t, types)
      BY <2>5
    <3>2. Tells(Upsert, "incomplete_expired")
      BY <2>5 DEF Tells, Follows
    <3> QED BY <1>3, <1>e, <1>s, <2>5, <3>1, <3>2 DEF Ends
  <2>6. CASE s \in {"trialing", "active", "past_due"}
             /\ StripeMoves(u, "canceled", t, <<Deleted>>)
    <3>1. PICK types : types = <<Deleted>> /\ StripeMoves(u, "canceled", t, types)
      BY <2>6
    <3>2. Tells(Deleted, "canceled")
      BY <2>6 DEF Tells, Follows
    <3> QED BY <1>3, <1>e, <1>s, <2>6, <3>1, <3>2 DEF Ends
  <2> QED BY <1>6, <2>t, <2>1, <2>2, <2>3, <2>4, <2>5, <2>6 DEF StripeTransition
<1>7. CASE StripeSideEvent(u)
  <2>1. stripe[u].status \in StripeStatus
    BY <1>7 DEF TypeOK, StripeSideEvent
  <2>t. PICK t \in BOOLEAN : t = stripe[u].trial
    BY <1>s
  <2>p. PICK a \in SideTypes : StripeMoves(u, stripe[u].status, t, <<a>>)
    BY <1>7, <2>t DEF StripeSideEvent
  <2>2. PICK types : types = <<a>> /\ StripeMoves(u, stripe[u].status, t, types)
    BY <2>p
  <2>3. Follows(stripe[u].status, a, stripe[u].status)
    BY DEF Follows
  <2>4. stripe[u].status # "none"
    BY <1>7 DEF StripeSideEvent
  <2> QED BY <1>3, <1>e, <2>1, <2>2, <2>3, <2>4 DEF Ends
<1> QED BY <1>1, <1>5, <1>6, <1>7 DEF Ends

LEMMA LogInvStep ==
  ASSUME TypeOK, LogInv, [Next]_vars
  PROVE  /\ LogInv'
         /\ \A v \in User : stripe[v].status = "incomplete_expired" =>
              stripe'[v].status = "incomplete_expired"
<1> USE DEF stripeVars, cronVars
<1>0. ASSUME UNCHANGED <<stripe, stripeLog>> PROVE LogInv' /\ stripe' = stripe
  BY <1>0, LogKept
<1>1. CASE Environment
  BY <1>1, LogEnvironment
<1>2. ASSUME NEW d \in Event, Deliver(d) \/ HandlerStep(d) \/ FailEvent(d)
      PROVE  UNCHANGED <<stripe, stripeLog>>
  BY <1>2 DEF Deliver, AcceptEvent, AnswerDuplicate, HandlerStep, ReadPrior,
       WriteRow, StampDeletion, AppendEvent, FinishEvent, FailEvent
<1>3. ASSUME ExpiryStep \/ MarkExpiredFail
      PROVE  UNCHANGED <<stripe, stripeLog>>
  BY <1>3 DEF ExpiryStep, ExpiryTick, MarkExpiredRead, MarkExpiredWrite,
              MarkExpiredAppend, MarkExpiredFail
<1>4. ASSUME \/ PurgeStep \/ (\E u \in User : BackfillInsert(u))
             \/ BackfillAppend \/ Crash \/ UNCHANGED vars
      PROVE  UNCHANGED <<stripe, stripeLog>>
  BY <1>4 DEF PurgeStep, PurgeTick, CheckSignalled, AppendSignal, EndPass,
              BackfillInsert, BackfillAppend, Crash, vars
<1> QED BY <1>0, <1>1, <1>2, <1>3, <1>4 DEF Next

LEMMA LogInvInit == Init => LogInv
<1> SUFFICES ASSUME Init PROVE LogInv
  OBVIOUS
<1>1. Len(stripeLog) = 0 /\ \A u \in User : stripe[u].status = "none"
  BY EmptySeq DEF Init
<1> QED BY <1>1 DEF LogInv

-----------------------------------------------------------------------------
(* Without failures, whoever is canceled has a purge date *)

Stamped(u) ==
  \/ stripe[u].status = "incomplete_expired"
  \/ row[u].expired /\ row[u].purgeAt # "none"
  \/ \E e \in Event : handler[e].pc = "stamp" /\ stripeLog[e].user = u

StampInv ==
  faults = 0 => \A u \in User : row[u].status = "canceled" => Stamped(u)

LEMMA StampStep ==
  ASSUME TypeOK, WorkInv, LogInv, StampInv, [Next]_vars
  PROVE  StampInv'
<1> SUFFICES ASSUME faults' = 0, NEW u \in User, row'[u].status = "canceled"
             PROVE  Stamped(u)'
  BY DEF StampInv
<1>f. faults = 0
  BY FaultsGrow
<1>e. stripe[u].status = "incomplete_expired" =>
        stripe'[u].status = "incomplete_expired"
  BY LogInvStep
<1>1. CASE Kept(u)
  <2>1. Stamped(u)
    BY <1>f, <1>1 DEF Kept, StampInv
  <2>2. ASSUME NEW e \in Event, handler[e].pc = "stamp", stripeLog[e].user = u
        PROVE  Stamped(u)'
    <3>1. /\ stripeLog'[e] = stripeLog[e]
          /\ \/ handler'[e] = handler[e]
             \/ WriteRow(e) \/ StampDeletion(e) \/ AppendEvent(e)
      BY <2>2, HandlerGoesOn
    <3>2. CASE handler'[e] = handler[e]
      BY <2>2, <3>1, <3>2 DEF Stamped
    <3>3. CASE handler'[e] # handler[e]
      <4>1. StampDeletion(e)
        BY <2>2, <3>1, <3>3 DEF WriteRow, AppendEvent
      <4> DEFINE q == [row[u] EXCEPT !.status = "canceled", !.expired = TRUE,
                                     !.purgeAt = "far"]
      <4>2. UpdateRow(u, q) /\ row[u] \in Row /\ row[u].status = "canceled"
        BY <1>1, <2>2, <4>1 DEF StampDeletion, Kept, TypeOK
      <4>3. q.expired /\ q.purgeAt = "far"
        BY <4>2 DEF Row
      <4> HIDE DEF q
      <4>4. row'[u] = q
        BY <4>2 DEF UpdateRow, TypeOK
      <4> QED BY <4>3, <4>4 DEF Stamped
    <3> QED BY <3>2, <3>3
  <2> QED BY <1>e, <1>1, <2>1, <2>2 DEF Stamped, Kept
<1>2. CASE Started(u)
  BY <1>2 DEF Started, SeedRow, NoRow
<1>3. ASSUME NEW e \in Event, Mirrored(u, e) PROVE Stamped(u)'
  <2> DEFINE b == stripeLog[e]
  <2>1. /\ NewStatus(b) = "canceled" /\ b.user = u
        /\ HandleSubscriptionUpsert(e) \/ HandleInvoice(e)
        /\ handler[e].pc = "write"
    BY <1>3 DEF Mirrored, WriteRow
  <2>2. Len(stripeLog) \in Nat /\ b \in Body
    BY <2>1, EventBody, LenProperties DEF TypeOK, Working
  <2>3. e \in 1..Len(stripeLog)
    BY <2>1, <2>2 DEF WorkInv, Working, Event
  <2>4. b.type = Upsert
    <3>1. NewStatus(b) = "canceled" /\ b.type \in {Upsert, Paid, Failed}
      BY <2>1 DEF HandleSubscriptionUpsert, HandleInvoice
    <3> HIDE DEF b
    <3> QED BY <3>1 DEF NewStatus, Upsert, Deleted, Paid, Failed
  <2>5. MapStripeStatus(b.status) = "canceled"
    BY <2>1, <2>4 DEF NewStatus, Upsert, Deleted, Paid, Failed
  <2>6. b.status \in {"canceled", "incomplete_expired"}
    BY <2>2, <2>5 DEF MapStripeStatus, StripeStatus, Body
  <2>7. EventInv(e)
    BY <2>3 DEF LogInv
  <2>8. b.status = "incomplete_expired"
    BY <2>4, <2>6, <2>7 DEF EventInv, Tells, Follows, Upsert, Deleted, Paid,
                            Failed, Side
  <2> QED BY <1>e, <2>1, <2>7, <2>8 DEF EventInv, Stamped
<1>4. ASSUME NEW e \in Event, Deletes(u, e) PROVE Stamped(u)'
  <2>1. handler'[e].pc = "stamp" /\ stripeLog' = stripeLog
    BY <1>4 DEF Deletes, WriteRow, HandleSubscriptionDeleted, GoTo, TypeOK,
                stripeVars
  <2> QED BY <1>4, <2>1 DEF Deletes, Stamped
<1>5. CASE Expires(u)
  BY <1>5 DEF Expires, Stamped
<1> QED BY <1>1, <1>2, <1>3, <1>4, <1>5, RowWriters DEF RowWriter

(* For any events, in any order, and however the trial cron races with the
   deletion of the subscription, a quiet user who is canceled is on the way
   to dormancy, if nothing failed.                                         *)
THEOREM DormancyStarts == Spec => []DormancyScheduled
<1>1. Init => LogInv /\ StampInv
  <2> SUFFICES ASSUME Init PROVE StampInv
    BY LogInvInit
  <2>1. \A u \in User : row[u].status # "canceled"
    BY DEF Init, SeedRow, NoRow
  <2> QED BY <2>1 DEF StampInv
<1>2. IInv /\ LogInv /\ StampInv /\ [Next]_vars => LogInv' /\ StampInv'
  BY LogInvStep, StampStep DEF IInv
<1>3. IInv /\ StampInv => DormancyScheduled
  <2> SUFFICES ASSUME TypeOK, WorkInv, StampInv, faults = 0,
                      NEW u \in User, Quiet(u), row[u].status = "canceled",
                      stripe[u].status # "incomplete_expired"
               PROVE  row[u].expired /\ row[u].purgeAt # "none"
    BY DEF DormancyScheduled, IInv
  <2>1. Len(stripeLog) \in Nat
    BY LenProperties DEF TypeOK
  <2>2. \A e \in Event : Working(e) => stripeLog[e].user # u
    BY <2>1 DEF Quiet, WorkInv, Event
  <2> QED BY <2>2 DEF StampInv, Stamped, Working
<1> QED BY Inductive, <1>1, <1>2, <1>3, PTL DEF Spec

-----------------------------------------------------------------------------
(* Events answered one at a time: the mirror *)

LEMMA LogPrefix ==
  ASSUME TypeOK, [Next]_vars
  PROVE  /\ Len(stripeLog) \in Nat /\ Len(stripeLog') \in Nat
         /\ Len(stripeLog) <= Len(stripeLog')
         /\ \A e \in 1..Len(stripeLog) : stripeLog'[e] = stripeLog[e]
<1> USE DEF stripeVars, cronVars
<1>l. Len(stripeLog) \in Nat
  BY LenProperties DEF TypeOK
<1>m. stripeLog' = stripeLog => Len(stripeLog') = Len(stripeLog)
  OBVIOUS
<1>1. CASE Environment
  <2>1. TypeOK' /\ Len(stripeLog) <= Len(stripeLog')
        /\ \A e \in 1..Len(stripeLog) : stripeLog'[e] = stripeLog[e]
    BY <1>1, EnvironmentType
  <2> QED BY <1>l, <2>1, LenProperties DEF TypeOK
<1>2. ASSUME NEW d \in Event, Deliver(d) \/ HandlerStep(d) \/ FailEvent(d)
      PROVE  stripeLog' = stripeLog
  BY <1>2 DEF Deliver, AcceptEvent, AnswerDuplicate, HandlerStep, ReadPrior,
       WriteRow, StampDeletion, AppendEvent, FinishEvent, FailEvent
<1>3. ASSUME ExpiryStep \/ MarkExpiredFail PROVE stripeLog' = stripeLog
  BY <1>3 DEF ExpiryStep, ExpiryTick, MarkExpiredRead, MarkExpiredWrite,
              MarkExpiredAppend, MarkExpiredFail
<1>4. ASSUME \/ PurgeStep \/ (\E u \in User : BackfillInsert(u))
             \/ BackfillAppend \/ Crash \/ UNCHANGED vars
      PROVE  stripeLog' = stripeLog
  BY <1>4 DEF PurgeStep, PurgeTick, CheckSignalled, AppendSignal, EndPass,
              BackfillInsert, BackfillAppend, Crash, vars
<1> QED BY <1>l, <1>m, <1>1, <1>2, <1>3, <1>4 DEF Next

(* An event is moved by its own delivery and its own handler. *)
LEMMA Moves ==
  ASSUME TypeOK, [Next]_vars, faults' = 0, NEW e \in Event
  PROVE  /\ e \in acked => e \in acked'
         /\ e \in acked' => e \in acked \/ AnswerDuplicate(e) \/ FinishEvent(e)
         /\ inbox'[e] = inbox[e] \/ AcceptEvent(e) \/ FinishEvent(e)
         /\ handler'[e] = handler[e] \/ AcceptEvent(e) \/ HandlerStep(e)
<1> USE DEF stripeVars, cronVars, GoTo
<1> DEFINE Moved == /\ e \in acked => e \in acked'
                    /\ e \in acked' => e \in acked \/ AnswerDuplicate(e) \/ FinishEvent(e)
                    /\ inbox'[e] = inbox[e] \/ AcceptEvent(e) \/ FinishEvent(e)
                    /\ handler'[e] = handler[e] \/ AcceptEvent(e) \/ HandlerStep(e)
<1>0. ASSUME UNCHANGED <<acked, inbox, handler>> PROVE Moved
  BY <1>0
<1>1. CASE Environment
  BY <1>0, <1>1, EnvironmentType
<1>2. ASSUME NEW d \in Event, Deliver(d) \/ HandlerStep(d)
      PROVE  Moved
  <2>1. CASE d = e
    BY <1>2, <2>1 DEF Deliver, AcceptEvent, AnswerDuplicate, HandlerStep,
       ReadPrior, WriteRow, StampDeletion, AppendEvent, FinishEvent
  <2>2. CASE d # e
    BY <1>2, <2>2 DEF Deliver, AcceptEvent, AnswerDuplicate, HandlerStep,
         ReadPrior, WriteRow, HandleSubscriptionUpsert,
         HandleSubscriptionDeleted, HandleInvoice, HandlePaymentMethodAttached,
         StampDeletion, AppendEvent, FinishEvent, TypeOK
  <2> QED BY <2>1, <2>2
<1>3. ASSUME ExpiryStep PROVE UNCHANGED <<acked, inbox, handler>>
  BY <1>3 DEF ExpiryStep, ExpiryTick, MarkExpiredRead, MarkExpiredWrite,
              MarkExpiredAppend
<1>4. ASSUME \/ PurgeStep \/ (\E u \in User : BackfillInsert(u))
             \/ BackfillAppend \/ UNCHANGED vars
      PROVE  UNCHANGED <<acked, inbox, handler>>
  BY <1>4 DEF PurgeStep, PurgeTick, CheckSignalled, AppendSignal, EndPass,
              BackfillInsert, BackfillAppend, vars
<1> QED BY <1>0, <1>1, <1>2, <1>3, <1>4, NoFault DEF Next

(* Without failures, an event that was delivered is handled or answered, and
   so is all that came before it.                                          *)
OrderInv ==
  InOrder /\ faults = 0 =>
    \A e \in Event :
      /\ inbox[e] # "absent" => /\ e <= Len(stripeLog)
                                /\ \A i \in 1..(e - 1) : i \in acked
                                /\ e \in acked \/ Working(e)
      /\ e \in acked => inbox[e] # "absent" /\ ~Working(e)

LEMMA OrderStep ==
  ASSUME TypeOK, WorkInv, OrderInv, [Next]_vars
  PROVE  OrderInv'
<1> SUFFICES ASSUME InOrder, faults' = 0, NEW e \in Event
             PROVE  /\ inbox'[e] # "absent" => /\ e <= Len(stripeLog')
                                               /\ \A i \in 1..(e - 1) : i \in acked'
                                               /\ e \in acked' \/ Working(e)'
                    /\ e \in acked' => inbox'[e] # "absent" /\ ~Working(e)'
  BY DEF OrderInv
<1>f. faults = 0
  BY FaultsGrow
<1>o. /\ inbox[e] # "absent" => /\ e <= Len(stripeLog)
                                /\ \A i \in 1..(e - 1) : i \in acked
                                /\ e \in acked \/ Working(e)
      /\ e \in acked => inbox[e] # "absent" /\ ~Working(e)
      /\ Working(e) => inbox[e] # "absent"
  BY <1>f DEF OrderInv, WorkInv
<1>k. /\ e <= Len(stripeLog) => e <= Len(stripeLog')
      /\ (\A i \in 1..(e - 1) : i \in acked) => \A i \in 1..(e - 1) : i \in acked'
  <2>1. \A i \in 1..(e - 1) : i \in Event
    BY DEF Event
  <2> QED BY <2>1, LogPrefix, Moves DEF Event
<1>1. CASE AcceptEvent(e)
  BY <1>k, <1>1 DEF AcceptEvent, Working, TypeOK
<1>2. CASE AnswerDuplicate(e)
  BY <1>o, <1>2 DEF AnswerDuplicate
<1>3. CASE FinishEvent(e)
  <2>1. /\ inbox[e] # "absent"
        /\ e \in acked' /\ inbox'[e] # "absent" /\ handler'[e].pc = "idle"
    BY <1>o, <1>3 DEF FinishEvent, Working, NoRequest, TypeOK
  <2> QED BY <1>o, <1>k, <2>1 DEF Working
<1>4. CASE ReadPrior(e) \/ WriteRow(e) \/ StampDeletion(e) \/ AppendEvent(e)
  <2>1. Working(e) /\ Working(e)' /\ UNCHANGED <<inbox, acked>>
    BY <1>4 DEF ReadPrior, WriteRow, HandleSubscriptionUpsert,
       HandleSubscriptionDeleted, HandleInvoice, HandlePaymentMethodAttached,
       StampDeletion, AppendEvent, GoTo, Working, TypeOK
  <2> QED BY <1>o, <1>k, <2>1
<1>5. CASE /\ handler'[e] = handler[e] /\ inbox'[e] = inbox[e]
           /\ e \in acked' <=> e \in acked
  BY <1>o, <1>k, <1>5 DEF Working
<1> QED BY <1>1, <1>2, <1>3, <1>4, <1>5, Moves DEF HandlerStep

(* A row that is there, and a customer once there is something to charge. *)
CustomerInv ==
  \A u \in User :
    /\ row[u].status # "none"
    /\ session[u] # "none" \/ stripe[u].status # "none" => row[u].customer

LEMMA CustomerStep ==
  ASSUME TypeOK, WorkInv, RowInv, CustomerInv, [Next]_vars
  PROVE  CustomerInv'
<1> USE DEF stripeVars, cronVars
<1>k. RowKept
  BY RowStep
<1> SUFFICES ASSUME NEW u \in User,
                    session'[u] # "none" \/ stripe'[u].status # "none"
             PROVE  row'[u].customer
  BY <1>k DEF RowKept, CustomerInv
<1>0. ASSUME session[u] # "none" \/ stripe[u].status # "none"
      PROVE  row'[u].customer
  BY <1>k, <1>0 DEF RowKept, CustomerInv
<1>1. CASE Environment
  <2> PICK v \in User : \/ EnsureSubscription(v)
                        \/ CreateCheckoutSession(v)
                        \/ TrialClock(v)
                        \/ PurgeClock(v)
                        \/ StripeCheckoutCompletes(v)
                        \/ StripeTransition(v)
                        \/ StripeSideEvent(v)
    BY <1>1 DEF Environment
  <2>1. CASE CreateCheckoutSession(v)
    <3>1. CASE u = v
      <4>1. /\ row' = [row EXCEPT ![u] = [row[u] EXCEPT !.customer = TRUE]]
            /\ row[u] \in Row
        BY <2>1, <3>1 DEF CreateCheckoutSession, UpdateRow, CustomerInv, TypeOK
      <4> QED BY <4>1 DEF Row, TypeOK
    <3>2. CASE u # v
      BY <1>0, <2>1, <3>2 DEF CreateCheckoutSession, TypeOK
    <3> QED BY <3>1, <3>2
  <2>2. CASE EnsureSubscription(v) \/ TrialClock(v) \/ PurgeClock(v)
    BY <1>0, <2>2 DEF EnsureSubscription, TrialClock, PurgeClock
  <2>3. CASE StripeCheckoutCompletes(v)
    BY <1>0, <2>3 DEF StripeCheckoutCompletes, StripeMoves, TypeOK
  <2>4. CASE StripeTransition(v)
    <3>1. /\ stripe[v].status # "none" /\ session' = session
          /\ \A w \in User \ {v} : stripe'[w] = stripe[w]
      BY <2>4 DEF StripeTransition, StripeMoves, TypeOK
    <3> QED BY <1>0, <3>1
  <2>5. CASE StripeSideEvent(v)
    <3>1. /\ stripe[v].status # "none" /\ session' = session
          /\ \A w \in User \ {v} : stripe'[w] = stripe[w]
      BY <2>5 DEF StripeSideEvent, StripeMoves, TypeOK
    <3> QED BY <1>0, <3>1
  <2> QED BY <2>1, <2>2, <2>3, <2>4, <2>5
<1>2. ASSUME NEW d \in Event, Deliver(d) \/ HandlerStep(d) \/ FailEvent(d)
      PROVE  UNCHANGED <<session, stripe>>
  BY <1>2 DEF Deliver, AcceptEvent, AnswerDuplicate, HandlerStep, ReadPrior,
       WriteRow, StampDeletion, AppendEvent, FinishEvent, FailEvent
<1>3. ASSUME ExpiryStep \/ MarkExpiredFail PROVE UNCHANGED <<session, stripe>>
  BY <1>3 DEF ExpiryStep, ExpiryTick, MarkExpiredRead, MarkExpiredWrite,
              MarkExpiredAppend, MarkExpiredFail
<1>4. ASSUME \/ PurgeStep \/ (\E v \in User : BackfillInsert(v))
             \/ BackfillAppend \/ Crash \/ UNCHANGED vars
      PROVE  UNCHANGED <<session, stripe>>
  BY <1>4 DEF PurgeStep, PurgeTick, CheckSignalled, AppendSignal, EndPass,
              BackfillInsert, BackfillAppend, Crash, vars
<1> QED BY <1>0, <1>1, <1>2, <1>3, <1>4 DEF Next

(* The handler of e has left its mark on the row, or decided to leave none. *)
Done(e) == e \in acked \/ handler[e].pc \in {"stamp", "append", "finish"}

Latest(e) ==
  /\ Done(e)
  /\ \A j \in (e + 1)..Len(stripeLog) :
       stripeLog[j].user = stripeLog[e].user => ~Done(j)

CutOff(u) ==
  /\ row[u].status = "canceled"
  /\ \/ \E i \in DOMAIN audit[u] : audit[u][i].reason = "trial_ended_no_card"
     \/ expiry.pc = "append" /\ expiry.cur = u

Mirrors(u, s) == row[u].status = s \/ CutOff(u)

MirrorInv ==
  InOrder /\ faults = 0 =>
    \A e \in 1..Len(stripeLog) :
      Latest(e) => Mirrors(stripeLog[e].user, MapStripeStatus(stripeLog[e].status))

LEMMA MirrorsStays ==
  ASSUME TypeOK, WorkInv, [Next]_vars, faults' = 0, NEW u \in User, NEW s,
         Mirrors(u, s), row'[u].status = row[u].status
  PROVE  Mirrors(u, s)'
<1>1. CASE CutOff(u)
  <2>1. CASE expiry.pc = "append" /\ expiry.cur = u
    <3>1. expiry' = expiry \/ MarkExpiredAppend
      BY <2>1, ExpiryGoesOn
    <3>2. CASE expiry' = expiry
      BY <1>1, <2>1, <3>2 DEF CutOff, Mirrors
    <3>3. CASE MarkExpiredAppend
      BY <1>1, <2>1, <3>3, ExpiryAudited DEF CutOff, Mirrors
    <3> QED BY <3>1, <3>2, <3>3
  <2>2. CASE \E i \in DOMAIN audit[u] : audit[u][i].reason = "trial_ended_no_card"
    BY <1>1, <2>2, AuditOnlyGrows DEF AuditKept, CutOff, Mirrors
  <2> QED BY <1>1, <2>1, <2>2 DEF CutOff
<1>2. CASE ~CutOff(u)
  BY <1>2 DEF Mirrors
<1> QED BY <1>1, <1>2

LEMMA DoneStays ==
  ASSUME TypeOK, WorkInv, [Next]_vars, faults' = 0, NEW e \in Event, Done(e)
  PROVE  Done(e)'
<1>1. CASE e \in acked
  BY <1>1, Moves DEF Done
<1>2. CASE handler[e].pc \in {"stamp", "append", "finish"}
  <2>1. ~AcceptEvent(e)
    BY <1>2 DEF AcceptEvent, WorkInv, Working
  <2>2. ~ReadPrior(e) /\ ~WriteRow(e)
    BY <1>2 DEF ReadPrior, WriteRow
  <2>3. CASE StampDeletion(e) \/ AppendEvent(e)
    BY <2>3 DEF StampDeletion, AppendEvent, GoTo, Done, TypeOK
  <2>4. CASE FinishEvent(e)
    BY <2>4 DEF FinishEvent, Done
  <2> QED BY <1>2, <2>1, <2>2, <2>3, <2>4, Moves DEF Done, HandlerStep
<1> QED BY <1>1, <1>2 DEF Done

LEMMA DoneBy ==
  ASSUME TypeOK, WorkInv, OrderInv, [Next]_vars, InOrder, faults = 0, faults' = 0,
         NEW e \in Event, ~Done(e), Done(e)'
  PROVE  ReadPrior(e) \/ WriteRow(e)
<1>1. ~AnswerDuplicate(e)
  BY DEF AnswerDuplicate, OrderInv
<1>2. ~FinishEvent(e) /\ ~StampDeletion(e) /\ ~AppendEvent(e)
  BY DEF FinishEvent, StampDeletion, AppendEvent, Done
<1>3. e \notin acked'
  BY <1>1, <1>2, Moves DEF Done
<1>4. ~AcceptEvent(e)
  BY <1>3 DEF AcceptEvent, Done, TypeOK
<1> QED BY <1>2, <1>3, <1>4, Moves DEF Done, HandlerStep

(* The events before one that is being handled are done, and no later one
   has been touched.                                                       *)
LEMMA WorkingOrder ==
  ASSUME TypeOK, WorkInv, OrderInv, InOrder, faults = 0,
         NEW d \in Event, Working(d)
  PROVE  /\ d \in 1..Len(stripeLog) /\ Len(stripeLog) \in Nat
         /\ \A i \in 1..(d - 1) : i \in acked
         /\ \A j \in Event : Done(j) => j <= d
<1>1. /\ Len(stripeLog) \in Nat
      /\ d \in 1..Len(stripeLog)
      /\ inbox[d] # "absent"
  <2>1. Len(stripeLog) \in Nat
    BY LenProperties DEF TypeOK
  <2> QED BY <2>1 DEF WorkInv, Event
<1>2. \A i \in 1..(d - 1) : i \in acked
  BY <1>1 DEF OrderInv
<1>3. ASSUME NEW j \in Event, Done(j), j > d PROVE FALSE
  <2>1. inbox[j] # "absent"
    BY <1>3 DEF Done, OrderInv, WorkInv, Working
  <2>2. d \in 1..(j - 1)
    BY <1>3 DEF Event
  <2>3. d \in acked
    BY <2>1, <2>2 DEF OrderInv
  <2> QED BY <2>3 DEF OrderInv
<1> QED BY <1>1, <1>2, <1>3 DEF Event

(* What a handler writes is the status its event tells. *)
LEMMA WrittenStatus ==
  ASSUME TypeOK, WorkInv, LogInv, NEW e \in Event, Working(e),
         stripeLog[e].type \in {Upsert, Deleted, Paid, Failed}
  PROVE  NewStatus(stripeLog[e]) = MapStripeStatus(stripeLog[e].status)
<1> DEFINE b == stripeLog[e]
<1>1. EventInv(e)
  <2>1. Len(stripeLog) \in Nat
    BY LenProperties DEF TypeOK
  <2> QED BY <2>1 DEF LogInv, WorkInv, Event
<1>2. CASE b.type = Upsert
  <2>2. NewStatus(b) = MapStripeStatus(b.status)
    <3> HIDE DEF b
    <3> QED BY <1>2 DEF NewStatus, Upsert, Deleted, Paid, Failed
  <2> QED BY <2>2
<1>3. CASE b.type = Deleted
  <2>1. b.status = "canceled"
    BY <1>1, <1>3 DEF EventInv, Tells, Follows, Upsert, Deleted, Paid, Failed, Side
  <2>2. NewStatus(b) = MapStripeStatus(b.status)
    <3> HIDE DEF b
    <3> QED BY <1>3, <2>1 DEF NewStatus, Upsert, Deleted, Paid, Failed, MapStripeStatus
  <2> QED BY <2>2
<1>4. CASE b.type = Paid
  <2>1. b.status = "active"
    BY <1>1, <1>4 DEF EventInv, Tells, Follows, Upsert, Deleted, Paid, Failed, Side
  <2>2. NewStatus(b) = MapStripeStatus(b.status)
    <3> HIDE DEF b
    <3> QED BY <1>4, <2>1 DEF NewStatus, Upsert, Deleted, Paid, Failed, MapStripeStatus
  <2> QED BY <2>2
<1>5. CASE b.type = Failed
  <2>1. b.status = "past_due"
    BY <1>1, <1>5 DEF EventInv, Tells, Follows, Upsert, Deleted, Paid, Failed, Side
  <2>2. NewStatus(b) = MapStripeStatus(b.status)
    <3> HIDE DEF b
    <3> QED BY <1>5, <2>1 DEF NewStatus, Upsert, Deleted, Paid, Failed, MapStripeStatus
  <2> QED BY <2>2
<1> QED BY <1>2, <1>3, <1>4, <1>5

(* The row after a handler has written it. *)
LEMMA RowWritten ==
  ASSUME TypeOK, WorkInv, LogInv, CustomerInv, NEW e \in Event,
         (WriteRow(e) /\ ~HandlePaymentMethodAttached(e)) \/ StampDeletion(e)
  PROVE  /\ row'[stripeLog[e].user].status = MapStripeStatus(stripeLog[e].status)
         /\ \A v \in User \ {stripeLog[e].user} : row'[v] = row[v]
<1> DEFINE b == stripeLog[e]
           u == b.user
           r == row[u]
<1>1. Working(e) /\ b \in Body /\ u \in User /\ r \in Row /\ r.status # "none"
  BY EventBody DEF Working, WriteRow, StampDeletion, CustomerInv
<1>2. ASSUME NEW q \in Row, UpdateRow(u, q)
      PROVE  row'[u] = q /\ \A v \in User \ {u} : row'[v] = row[v]
  BY <1>1, <1>2 DEF UpdateRow, TypeOK
<1>3. CASE HandleSubscriptionUpsert(e)
  <2> DEFINE q == [r EXCEPT !.status = NewStatus(b),
                            !.trialEnds = IF b.trial THEN "stripe" ELSE "none",
                            !.customer = TRUE, !.subId = TRUE]
  <2>0. b.type = Upsert
    BY <1>3 DEF HandleSubscriptionUpsert
  <2>1. NewStatus(b) \in Status /\ NewStatus(b) = MapStripeStatus(b.status)
    BY <1>1, <2>0, NewStatusType, WrittenStatus
  <2>2. q \in Row /\ q.status = NewStatus(b)
    BY <1>1, <2>1 DEF Row
  <2>3. UpdateRow(u, q)
    BY <1>3 DEF HandleSubscriptionUpsert
  <2> HIDE DEF q, b, u
  <2>4. row'[u].status = MapStripeStatus(b.status) /\ \A v \in User \ {u} : row'[v] = row[v]
    BY <1>2, <2>1, <2>2, <2>3
  <2> QED BY <2>4 DEF b, u
<1>4. CASE HandleInvoice(e)
  <2> DEFINE q == [r EXCEPT !.status = NewStatus(b)]
  <2>0. b.type \in {Paid, Failed}
    BY <1>4 DEF HandleInvoice
  <2>1. NewStatus(b) \in Status /\ NewStatus(b) = MapStripeStatus(b.status)
    BY <1>1, <2>0, NewStatusType, WrittenStatus
  <2>2. q \in Row /\ q.status = NewStatus(b)
    BY <1>1, <2>1 DEF Row
  <2>3. UpdateRow(u, q)
    BY <1>4 DEF HandleInvoice
  <2> HIDE DEF q, b, u
  <2>4. row'[u].status = MapStripeStatus(b.status) /\ \A v \in User \ {u} : row'[v] = row[v]
    BY <1>2, <2>1, <2>2, <2>3
  <2> QED BY <2>4 DEF b, u
<1>5. CASE HandleSubscriptionDeleted(e) \/ StampDeletion(e)
  <2>0. b.type = Deleted /\ NewStatus(b) = "canceled"
    BY <1>5, DeletedStatus DEF HandleSubscriptionDeleted, StampDeletion, WorkInv
  <2>1. MapStripeStatus(b.status) = "canceled"
    BY <1>1, <2>0, WrittenStatus
  <2>2. \E q \in Row : q.status = "canceled" /\ UpdateRow(u, q)
    <3>1. CASE HandleSubscriptionDeleted(e)
      <4> DEFINE q == [r EXCEPT !.status = "canceled"]
      <4>1. q \in Row /\ q.status = "canceled"
        BY <1>1 DEF Row, Status
      <4>2. UpdateRow(u, q)
        BY <3>1 DEF HandleSubscriptionDeleted
      <4> HIDE DEF q
      <4> QED BY <4>1, <4>2
    <3>2. CASE StampDeletion(e)
      <4> DEFINE q == [r EXCEPT !.status = "canceled", !.expired = TRUE,
                                !.purgeAt = "far"]
      <4>1. q \in Row /\ q.status = "canceled"
        BY <1>1 DEF Row, Status
      <4>2. UpdateRow(u, q)
        BY <3>2 DEF StampDeletion
      <4> HIDE DEF q
      <4> QED BY <4>1, <4>2
    <3> QED BY <1>5, <3>1, <3>2
  <2> HIDE DEF b, u
  <2>3. row'[u].status = MapStripeStatus(b.status) /\ \A v \in User \ {u} : row'[v] = row[v]
    BY <1>2, <2>1, <2>2
  <2> QED BY <2>3 DEF b, u
<1> QED BY <1>3, <1>4, <1>5 DEF WriteRow

(* An event that is not to be written tells what the one before it told. *)
LEMMA PreviousMirrors ==
  ASSUME TypeOK, WorkInv, LogInv, OrderInv, MirrorInv, InOrder, faults = 0,
         NEW d \in Event, Working(d), ~Done(d),
         stripeLog[d].type \notin {Upsert, Deleted}
  PROVE  \E p \in 1..(d - 1) :
           /\ Follows(stripeLog[p].status, stripeLog[d].type, stripeLog[d].status)
           /\ Mirrors(stripeLog[d].user, MapStripeStatus(stripeLog[p].status))
<1>1. /\ d \in 1..Len(stripeLog) /\ Len(stripeLog) \in Nat
      /\ \A i \in 1..(d - 1) : i \in acked
      /\ \A j \in Event : Done(j) => j <= d
  BY WorkingOrder
<1>2. EventInv(d)
  BY <1>1 DEF LogInv
<1>3. PICK p \in 1..(d - 1) :
        Previous(p, d) /\ Follows(stripeLog[p].status, stripeLog[d].type, stripeLog[d].status)
  BY <1>2 DEF EventInv, Tells
<1>4. p \in 1..Len(stripeLog) /\ Done(p)
  BY <1>1 DEF Done
<1>5. ASSUME NEW j \in (p + 1)..Len(stripeLog), stripeLog[j].user = stripeLog[p].user
      PROVE  ~Done(j)
  <2>1. j \in Event
    BY <1>1 DEF TypeOK, Event
  <2>2. ~(j < d)
    <3>1. j < d => j \in (p + 1)..(d - 1)
      BY <1>1
    <3> QED BY <1>3, <1>5, <3>1 DEF Previous
  <2>3. CASE j = d
    BY <2>3
  <2>4. CASE j > d
    BY <1>1, <2>1, <2>4
  <2> QED BY <1>1, <2>1, <2>2, <2>3, <2>4 DEF Event
<1>6. Latest(p)
  BY <1>4, <1>5 DEF Latest
<1>7. Mirrors(stripeLog[d].user, MapStripeStatus(stripeLog[p].status))
  BY <1>3, <1>4, <1>6 DEF MirrorInv, Previous
<1> QED BY <1>3, <1>7

LEMMA SameStatus ==
  ASSUME NEW u \in User, NEW from \in StripeStatus, NEW type \in EventType,
         NEW to \in StripeStatus, Follows(from, type, to),
         Mirrors(u, MapStripeStatus(from)),
         \/ type \in Side
         \/ type = Paid /\ row[u].status \notin {"trial", "past_due"}
         \/ type = Failed /\ row[u].status = "past_due"
  PROVE  Mirrors(u, MapStripeStatus(to))
<1>1. CASE type \in Side
  BY <1>1 DEF Follows, Side, Paid, Failed
<1>2. CASE type = Paid /\ row[u].status \notin {"trial", "past_due"}
  <2>1. to = "active" /\ from \notin {"canceled", "incomplete_expired"}
    BY <1>2 DEF Follows, Side, Paid, Failed
  <2>2. MapStripeStatus(from) \in {"trial", "past_due", "active"}
    BY <2>1 DEF MapStripeStatus, StripeStatus
  <2>3. MapStripeStatus(to) = "active"
    BY <2>1 DEF MapStripeStatus
  <2> QED BY <1>2, <2>2, <2>3 DEF Mirrors
<1>3. CASE type = Failed /\ row[u].status = "past_due"
  <2>1. to = "past_due"
    BY <1>3 DEF Follows, Side, Paid, Failed
  <2> QED BY <1>3, <2>1 DEF Mirrors, MapStripeStatus
<1> QED BY <1>1, <1>2, <1>3

(* A handler that ends without a status to write finds it there already. *)
LEMMA NothingToWrite ==
  ASSUME TypeOK, WorkInv, LogInv, OrderInv, CustomerInv, MirrorInv,
         InOrder, faults = 0, NEW d \in Event,
         \/ ReadPrior(d) /\ handler'[d].pc = "finish"
         \/ WriteRow(d) /\ HandlePaymentMethodAttached(d)
  PROVE  Mirrors(stripeLog[d].user, MapStripeStatus(stripeLog[d].status))
<1> DEFINE b == stripeLog[d]
           u == b.user
<1>1. Working(d)
  BY DEF ReadPrior, WriteRow, Working
<1>2. ~Done(d)
  BY <1>1 DEF ReadPrior, WriteRow, Done, OrderInv
<1>3. b \in Body /\ u \in User /\ row[u] \in Row
  BY <1>1, EventBody
<1>4. d \in 1..Len(stripeLog) /\ Len(stripeLog) \in Nat
  BY <1>1, WorkingOrder
<1>5. row[u].status # "none" /\ row[u].customer
  <2>1. stripe[u].status # "none"
    BY <1>3, <1>4 DEF LogInv
  <2> QED BY <1>3, <2>1 DEF CustomerInv
<1>6. \/ b.type \in Side
      \/ b.type = Paid /\ row[u].status \notin {"trial", "past_due"}
      \/ b.type = Failed /\ row[u].status = "past_due"
  <2>1. CASE ReadPrior(d) /\ handler'[d].pc = "finish"
    <3>1. ~(Resolved(b) /\ Writes(b, row[u].status))
      BY <2>1 DEF ReadPrior, TypeOK
    <3>2. ~Writes(b, row[u].status)
      BY <1>5, <3>1 DEF Resolved
    <3>3. b.type \in {Upsert, Deleted, Paid, Failed} \cup Side
      BY <1>3 DEF Body
    <3> QED BY <1>5, <3>2, <3>3 DEF Writes
  <2>2. CASE WriteRow(d) /\ HandlePaymentMethodAttached(d)
    BY <2>2 DEF HandlePaymentMethodAttached, Side
  <2> QED BY <2>1, <2>2
<1>7. b.type \notin {Upsert, Deleted}
  BY <1>6 DEF Side, Upsert, Deleted, Paid, Failed
<1>8. PICK p \in 1..(d - 1) : /\ Follows(stripeLog[p].status, b.type, b.status)
                              /\ Mirrors(u, MapStripeStatus(stripeLog[p].status))
  BY <1>1, <1>2, <1>7, PreviousMirrors
<1>9. stripeLog[p].status \in StripeStatus /\ b.status \in StripeStatus /\ b.type \in EventType
  <2>1. p \in 1..Len(stripeLog)
    BY <1>4
  <2>2. stripeLog[p] \in Body
    BY <2>1, ElementOfSeq DEF TypeOK
  <2> QED BY <1>3, <2>2 DEF Body, EventType
<1> QED BY <1>3, <1>6, <1>8, <1>9, SameStatus

(* While the latest event of a user stays the same, so does the mirror. *)
LEMMA LatestHolds ==
  ASSUME TypeOK, WorkInv, LogInv, OrderInv, CustomerInv, MirrorInv,
         [Next]_vars, InOrder, faults = 0, faults' = 0,
         NEW e \in Event, e <= Len(stripeLog), Done(e), Latest(e)'
  PROVE  Mirrors(stripeLog[e].user, MapStripeStatus(stripeLog[e].status))'
<1> DEFINE b == stripeLog[e]
           u == b.user
           s == MapStripeStatus(b.status)
<1>1. /\ Len(stripeLog) \in Nat /\ Len(stripeLog') \in Nat
      /\ Len(stripeLog) <= Len(stripeLog')
      /\ \A i \in 1..Len(stripeLog) : stripeLog'[i] = stripeLog[i]
  BY LogPrefix
<1>2. e \in 1..Len(stripeLog) /\ stripeLog'[e] = b
  BY <1>1 DEF Event
<1>3. u \in User
  <2>1. b \in Body
    BY <1>2, ElementOfSeq DEF TypeOK
  <2> QED BY <2>1 DEF Body
<1>l. ASSUME NEW j \in Event, j \in (e + 1)..Len(stripeLog), stripeLog[j].user = u
      PROVE  ~Done(j)'
  <2>1. j \in 1..Len(stripeLog) /\ j \in (e + 1)..Len(stripeLog')
    BY <1>1, <1>l, <1>2
  <2>2. stripeLog'[j].user = stripeLog'[e].user
    BY <1>1, <1>2, <1>l, <2>1
  <2> QED BY <2>1, <2>2 DEF Latest
<1>4. Mirrors(u, s)
  <2>1. ASSUME NEW j \in (e + 1)..Len(stripeLog), stripeLog[j].user = u
        PROVE  ~Done(j)
    <3>1. j \in Event
      BY <1>1, <1>2 DEF TypeOK, Event
    <3> QED BY <1>l, <2>1, <3>1, DoneStays
  <2>2. Latest(e)
    BY <2>1 DEF Latest
  <2> QED BY <1>2, <2>2 DEF MirrorInv
<1>5. ASSUME NEW d \in Event, WriteRow(d) \/ StampDeletion(d),
             stripeLog[d].user = u
      PROVE  d = e /\ StampDeletion(e)
  <2>1. Working(d) /\ Done(d)'
    BY <1>5 DEF WriteRow, HandleSubscriptionUpsert, HandleSubscriptionDeleted,
       HandleInvoice, HandlePaymentMethodAttached, StampDeletion, GoTo, Working,
       Done, TypeOK
  <2>2. d \in 1..Len(stripeLog) /\ e <= d
    BY <2>1, WorkingOrder
  <2>3. d = e
    <3>1. CASE d > e
      BY <1>1, <1>l, <1>5, <2>1, <2>2, <3>1
    <3> QED BY <2>2, <3>1, <1>2
  <2>4. ~WriteRow(e)
    <3>1. e \in acked => ~Working(e)
      BY DEF OrderInv
    <3>2. handler[e].pc = "write" => e \in acked
      BY DEF Done
    <3> QED BY <2>1, <2>3, <3>1, <3>2 DEF WriteRow
  <2> QED BY <1>5, <2>3, <2>4
<1>6. CASE Kept(u)
  <2>1. row'[u].status = row[u].status
    BY <1>6 DEF Kept
  <2>2. PICK v \in User : v = u
    BY <1>3
  <2>3. PICK q : q = s
    OBVIOUS
  <2>4. Mirrors(v, q) /\ row'[v].status = row[v].status
    BY <1>4, <2>1, <2>2, <2>3
  <2>5. Mirrors(v, q)'
    BY <2>4, MirrorsStays
  <2>6. stripeLog'[e].user = v /\ MapStripeStatus(stripeLog'[e].status) = q
    BY <1>2, <2>2, <2>3
  <2> QED BY <2>5, <2>6 DEF Mirrors, CutOff
<1>7. ~Started(u)
  BY <1>3 DEF Started, CustomerInv
<1>8. ASSUME NEW d \in Event,
             Mirrored(u, d) \/ Deletes(u, d) \/ (StampDeletion(d) /\ stripeLog[d].user = u)
      PROVE  row'[u].status = s
  <2>1. StampDeletion(e)
    BY <1>5, <1>8 DEF Mirrored, Deletes
  <2> QED BY <2>1, RowWritten
<1>9. CASE MarkExpiredWrite /\ expiry.cur = u /\ Expires(u)
  <2>1. expiry'.pc = "append" /\ expiry'.cur = u /\ row'[u].status = "canceled"
    BY <1>9 DEF MarkExpiredWrite, Expires, TypeOK
  <2> QED BY <1>2, <2>1 DEF Mirrors, CutOff
<1>10. RowWriter(u)
  BY <1>3, RowWriters
<1>11. CASE row'[u].status = s
  BY <1>2, <1>11 DEF Mirrors
<1> QED BY <1>6, <1>7, <1>8, <1>9, <1>10, <1>11 DEF RowWriter

(* When an event becomes the latest, its handler wrote or had nothing to. *)
LEMMA LatestTaken ==
  ASSUME TypeOK, WorkInv, LogInv, OrderInv, CustomerInv, MirrorInv,
         [Next]_vars, InOrder, faults = 0, faults' = 0,
         NEW e \in Event, ~Done(e), Done(e)'
  PROVE  /\ e <= Len(stripeLog)
         /\ Mirrors(stripeLog[e].user, MapStripeStatus(stripeLog[e].status))'
<1> DEFINE b == stripeLog[e]
           u == b.user
           s == MapStripeStatus(b.status)
<1>1. ReadPrior(e) \/ WriteRow(e)
  BY DoneBy
<1>2. Working(e)
  BY <1>1 DEF ReadPrior, WriteRow, Working
<1>3. e <= Len(stripeLog) /\ b \in Body /\ u \in User
  BY <1>2, EventBody DEF WorkInv
<1>4. stripeLog' = stripeLog
  BY <1>1 DEF ReadPrior, WriteRow, stripeVars
<1>5. CASE ReadPrior(e)
  <2>1. handler'[e].pc = "finish" /\ row' = row
    BY <1>5 DEF ReadPrior, Done, TypeOK
  <2>2. Mirrors(u, s)
    BY <1>5, <2>1, NothingToWrite
  <2>3. row'[u].status = row[u].status
    BY <2>1
  <2> QED BY <1>3, <1>4, <2>2, <2>3, MirrorsStays DEF Mirrors, CutOff
<1>6. CASE WriteRow(e) /\ HandlePaymentMethodAttached(e)
  <2>1. Mirrors(u, s)
    BY <1>6, NothingToWrite
  <2>2. row'[u].status = row[u].status
    <3> DEFINE q == [row[u] EXCEPT !.card = TRUE]
    <3>1. row[u] \in Row
      BY <1>2, EventBody
    <3>2. q \in Row /\ q.status = row[u].status
      BY <3>1 DEF Row
    <3>3. UpdateRow(u, q)
      BY <1>6 DEF HandlePaymentMethodAttached
    <3> HIDE DEF q, u
    <3>4. row'[u] = row[u] \/ row'[u] = q
      BY <1>3, <3>2, <3>3, UpdatedRow
    <3> QED BY <3>2, <3>4
  <2> QED BY <1>3, <1>4, <2>1, <2>2, MirrorsStays DEF Mirrors, CutOff
<1>7. CASE WriteRow(e) /\ ~HandlePaymentMethodAttached(e)
  <2>1. row'[u].status = s
    BY <1>7, RowWritten
  <2> QED BY <1>3, <1>4, <2>1 DEF Mirrors
<1> QED BY <1>1, <1>3, <1>5, <1>6, <1>7

LEMMA MirrorStep ==
  ASSUME TypeOK, WorkInv, LogInv, OrderInv, CustomerInv, MirrorInv, [Next]_vars
  PROVE  MirrorInv'
<1> SUFFICES ASSUME InOrder, faults' = 0, NEW e \in 1..Len(stripeLog'), Latest(e)'
             PROVE  Mirrors(stripeLog[e].user, MapStripeStatus(stripeLog[e].status))'
  BY DEF MirrorInv
<1>1. faults = 0
  BY FaultsGrow
<1>2. e \in Event
  <2>1. TypeOK'
    BY TypeStep
  <2>2. Len(stripeLog') \in Nat
    BY LogPrefix
  <2> QED BY <2>1, <2>2 DEF TypeOK, Event
<1>3. CASE Done(e)
  <2>1. e <= Len(stripeLog)
    BY <1>1, <1>2, <1>3 DEF Done, OrderInv, WorkInv, Working
  <2> QED BY <1>1, <1>2, <1>3, <2>1, LatestHolds
<1>4. CASE ~Done(e)
  BY <1>1, <1>2, <1>4, LatestTaken DEF Latest
<1> QED BY <1>3, <1>4

(* Stripe sends the next event only after the answer to the last, every user
   has a row from signup, and nothing fails: however many events there are
   and wherever the trial cron and the other requests step in between, the
   row of a user whose events are all answered has the status Stripe has, or
   the cron canceled it, and a cancellation has closed the access.         *)
THEOREM MirrorAgrees ==
  ASSUME Seeded = User
  PROVE  Spec => []MirrorConverges
<1> DEFINE LogSide == LogInv /\ OrderInv
           RowSide == RowInv /\ CustomerInv /\ MirrorInv
<1>1. Init => LogSide /\ RowSide
  <2> SUFFICES ASSUME Init PROVE OrderInv /\ RowInv /\ CustomerInv /\ MirrorInv
    BY LogInvInit
  <2>1. Len(stripeLog) = 0
    BY EmptySeq DEF Init
  <2>2. OrderInv
    BY DEF Init, OrderInv
  <2>3. RowInv /\ CustomerInv
    BY DEF Init, RowInv, CustomerInv, SeedRow, NoRow
  <2>4. MirrorInv
    BY <2>1 DEF MirrorInv
  <2> QED BY <2>2, <2>3, <2>4
<1>2. IInv /\ LogSide /\ RowSide /\ [Next]_vars => LogSide' /\ RowSide'
  <2> SUFFICES ASSUME IInv, LogSide, RowSide, [Next]_vars
               PROVE  LogSide' /\ RowSide'
    OBVIOUS
  <2> USE DEF IInv
  <2>1. LogInv'
    BY LogInvStep
  <2>2. OrderInv'
    BY OrderStep
  <2>3. RowInv'
    BY RowStep
  <2>4. CustomerInv'
    BY CustomerStep
  <2>5. MirrorInv'
    BY MirrorStep
  <2> QED BY <2>1, <2>2, <2>3, <2>4, <2>5
<1>3. IInv /\ LogSide /\ RowSide => MirrorConverges
  <2> SUFFICES ASSUME TypeOK, LogInv, OrderInv, MirrorInv, InOrder, faults = 0,
                      NEW u \in User, Settled(u), stripe[u].status # "none"
               PROVE  /\ stripe[u].status = "canceled" => IsReadOnly(u)
                      /\ \/ row[u].status = MapStripeStatus(stripe[u].status)
                         \/ /\ row[u].status = "canceled"
                            /\ \E i \in DOMAIN audit[u] :
                                 audit[u][i].reason = "trial_ended_no_card"
    BY DEF MirrorConverges, IInv
  <2>1. PICK p \in 1..Len(stripeLog) : stripeLog[p].user = u /\ NoLater(p)
    BY DEF LogInv
  <2>2. stripeLog[p].status = stripe[u].status
    BY <2>1 DEF LogInv, EventInv
  <2>3. Latest(p)
    BY <2>1 DEF Latest, Done, Settled, NoLater
  <2>4. Mirrors(u, MapStripeStatus(stripe[u].status))
    BY <2>1, <2>2, <2>3 DEF MirrorInv
  <2>5. expiry.pc = "idle"
    BY DEF Settled, Quiet
  <2>6. stripe[u].status = "canceled" => MapStripeStatus(stripe[u].status) = "canceled"
    BY DEF MapStripeStatus
  <2> QED BY <2>4, <2>5, <2>6 DEF Mirrors, CutOff, IsReadOnly
<1> HIDE DEF LogSide, RowSide
<1> QED BY Inductive, <1>1, <1>2, <1>3, PTL DEF Spec

=============================================================================
