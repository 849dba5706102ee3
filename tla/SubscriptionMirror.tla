------------------------- MODULE SubscriptionMirror -------------------------
(***************************************************************************)
(* The subscription row Divinr keeps for each user, the Stripe webhooks    *)
(* that drive it and the two lifecycle crons that compete with them.       *)
(*                                                                         *)
(* The database has no transactions in this code: every rawQuery is one    *)
(* committed statement, so every statement is an action of its own and     *)
(* whatever a handler read before is carried in its record.  Stripe is     *)
(* external: it owns the real subscription, writes one event per change    *)
(* and delivers it at least once, in any order unless InOrder.             *)
(***************************************************************************)
EXTENDS Naturals, Sequences, FiniteSets

CONSTANTS
  User,         \* user ids
  NoUser,       \* "no user": the cron is between two users
  Seeded,       \* users whose row exists from signup
  MaxEvents,    \* bound: events Stripe writes
  MaxFaults,    \* bound: failed statements and process crashes
  SideTypes,    \* the event types Stripe may emit that are no status change
  InOrder,      \* Stripe waits for the answer to an event before the next
  Crons         \* the crons that come due: {} if they are disabled

Side == {"payment_method.attached", "trial_will_end", "checkout.completed"}

ASSUME ConstantsAssumption ==
  /\ NoUser \notin User
  /\ Seeded \subseteq User
  /\ MaxEvents \in Nat
  /\ MaxFaults \in Nat
  /\ SideTypes \subseteq Side
  /\ InOrder \in BOOLEAN
  /\ Crons \subseteq {"expiry", "purge"}

VARIABLES
  stripe,     \* Stripe's own subscription of each user
  stripeLog,  \* the events Stripe wrote; an event's id is its index
  acked,      \* the events Stripe got a 2xx answer for
  session,    \* the Checkout session a user holds open
  clock,      \* which of a user's trial deadlines have passed
  inbox,      \* billing.stripe_webhook_events
  handler,    \* the webhook request working on each event
  row,        \* billing.subscriptions
  audit,      \* billing.subscription_events
  expiry,     \* the hourly trialExpiryTick
  purge,      \* the daily purgeTick
  backfill,   \* the user migrateBackfillSubscriptions has just inserted
  faults      \* failures so far

stripeVars == <<stripe, stripeLog, session, clock>>
cronVars   == <<expiry, purge, backfill>>
vars == <<stripeVars, acked, inbox, handler, row, audit, cronVars, faults>>

-----------------------------------------------------------------------------
(* Data *)

Event == 1..MaxEvents

Status == {"trial", "active", "past_due", "canceled", "dormant"}

StripeStatus ==
  {"trialing", "active", "past_due", "unpaid", "incomplete",
   "incomplete_expired", "paused", "canceled"}

Upsert  == "subscription.updated"   \* .created takes the same handler
Deleted == "subscription.deleted"
Paid    == "invoice.paid"
Failed  == "invoice.payment_failed"

Body == [user   : User,
         type   : {Upsert, Deleted, Paid, Failed} \cup Side,
         status : StripeStatus,
         trial  : BOOLEAN]          \* sub.trial_end is set

(* trialEnds names a deadline: "seed" is 30 days after signup, "stripe" the
   trial_end Stripe fixed at checkout, which is never the earlier one.
   purgeAt is the distance of purge_scheduled_at: more than 30 days away,
   within 30 days, or past.                                               *)
Row == [status    : Status \cup {"none"},   \* "none": no row
        trialEnds : {"none", "seed", "stripe"},
        customer  : BOOLEAN,        \* stripe_customer_id is set
        subId     : BOOLEAN,        \* stripe_subscription_id is set
        card      : BOOLEAN,        \* card_last4 is set
        expired   : BOOLEAN,        \* expired_at is set
        purgeAt   : {"none", "far", "soon", "past"}]

AuditRow == [from   : Status \cup {"none"},
             to     : Status,
             reason : {"stripe", "trial_ended_no_card", "migration_backfill",
                       "purge_warning_30d", "purge_scheduled"},
             event  : Nat]          \* the Stripe event id, 0 for none

NoRow == [status |-> "none", trialEnds |-> "none", customer |-> FALSE,
          subId |-> FALSE, card |-> FALSE, expired |-> FALSE,
          purgeAt |-> "none"]

(* The row ensureSubscription inserts. *)
SeedRow == [NoRow EXCEPT !.status = "trial", !.trialEnds = "seed"]

(* Mutant: "incomplete" is not mapped and goes into the row as it is. *)
MapStripeStatusRaw(s) ==
  CASE s = "trialing" -> "trial"
    [] s \in {"past_due", "unpaid", "paused"} -> "past_due"
    [] s \in {"canceled", "incomplete_expired"} -> "canceled"
    [] OTHER -> s

MapStripeStatus(s) ==
  CASE s = "trialing" -> "trial"
    [] s = "active" -> "active"
    [] s \in {"past_due", "unpaid", "incomplete", "paused"} -> "past_due"
    [] s \in {"canceled", "incomplete_expired"} -> "canceled"

IsReadOnly(u) == row[u].status \in {"canceled", "dormant"}

(* trial_ends_at IS NOT NULL AND trial_ends_at < now() *)
TrialOver(u) ==
  \/ row[u].trialEnds = "seed"   /\ clock[u] >= 1
  \/ row[u].trialEnds = "stripe" /\ clock[u] >= 2

NoRequest == [pc |-> "idle", prior |-> "none"]
NoExpiry  == [pc |-> "idle", todo |-> {}, cur |-> NoUser, prior |-> "none"]
NoPurge   == [pc |-> "idle", todo |-> {}, cur |-> NoUser]

Init ==
  /\ stripe = [u \in User |-> [status |-> "none", trial |-> FALSE]]
  /\ stripeLog = <<>>
  /\ acked = {}
  /\ session = [u \in User |-> "none"]
  /\ clock = [u \in User |-> 0]
  /\ inbox = [e \in Event |-> "absent"]
  /\ handler = [e \in Event |-> NoRequest]
  /\ row = [u \in User |-> IF u \in Seeded THEN SeedRow ELSE NoRow]
  /\ audit = [u \in User |-> <<>>]
  /\ expiry = NoExpiry
  /\ purge = NoPurge
  /\ backfill = NoUser
  /\ faults = 0

(* UPDATE ... WHERE user_id = u: no row, no effect. *)
UpdateRow(u, r) ==
  row' = IF row[u].status = "none" THEN row ELSE [row EXCEPT ![u] = r]

AppendAudit(u, from, to, reason, e) ==
  audit' = [audit EXCEPT ![u] =
    Append(@, [from |-> from, to |-> to, reason |-> reason, event |-> e])]

Fault == faults < MaxFaults /\ faults' = faults + 1

-----------------------------------------------------------------------------
(* Users, time and Stripe *)

EnsureSubscription(u) ==
  /\ row[u].status = "none"
  /\ row' = [row EXCEPT ![u] = SeedRow]
  /\ UNCHANGED <<stripeVars, acked, inbox, handler, audit, cronVars, faults>>

(* POST /billing/checkout-session for a regular (not .edu) user.  The trial
   that is left is fixed here, when the session is created.               *)
CreateCheckoutSession(u) ==
  /\ ~row[u].subId
  /\ session[u] = "none"
  /\ session' = [session EXCEPT ![u] =
       IF row[u].trialEnds # "none" /\ ~TrialOver(u) THEN "trial" ELSE "paid"]
  /\ UpdateRow(u, [row[u] EXCEPT !.customer = TRUE])
  /\ UNCHANGED <<stripe, stripeLog, clock, acked, inbox, handler, audit,
                 cronVars, faults>>

TrialClock(u) ==
  /\ row[u].status # "none"
  /\ clock[u] < 2
  /\ clock' = [clock EXCEPT ![u] = @ + 1]
  /\ UNCHANGED <<stripe, stripeLog, session, acked, inbox, handler, row,
                 audit, cronVars, faults>>

PurgeClock(u) ==
  /\ row[u].purgeAt \in {"far", "soon"}
  /\ row' = [row EXCEPT ![u].purgeAt = IF @ = "far" THEN "soon" ELSE "past"]
  /\ UNCHANGED <<stripeVars, acked, inbox, handler, audit, cronVars, faults>>

(* Stripe moves u's subscription to status s and writes one event per type. *)
StripeMoves(u, s, trial, types) ==
  /\ Len(stripeLog) + Len(types) <= MaxEvents
  /\ stripe' = [stripe EXCEPT ![u] = [status |-> s, trial |-> trial]]
  /\ stripeLog' = stripeLog \o
       [i \in 1..Len(types) |->
          [user |-> u, type |-> types[i], status |-> s, trial |-> trial]]
  /\ UNCHANGED <<acked, clock, inbox, handler, row, audit, cronVars, faults>>

(* One Stripe subscription per user is a bound of this model. *)
StripeCheckoutCompletes(u) ==
  /\ session[u] # "none"
  /\ stripe[u].status = "none"
  /\ session' = [session EXCEPT ![u] = "none"]
  /\ \E s \in IF session[u] = "trial" THEN {"trialing"}
              ELSE {"active", "incomplete"} :
       StripeMoves(u, s, session[u] = "trial", <<Upsert>>)

StripeTransition(u) ==
  /\ UNCHANGED session
  /\ LET s == stripe[u].status
         Moves(to, types) == StripeMoves(u, to, stripe[u].trial, types)
     IN \/ s = "trialing" /\ clock[u] = 2 /\ Moves("active", <<Upsert, Paid>>)
        \/ s = "active" /\ Moves("active", <<Paid>>)
        \/ s = "active" /\ Moves("past_due", <<Failed, Upsert>>)
        \/ s \in {"past_due", "incomplete"} /\ Moves("active", <<Paid, Upsert>>)
        \/ s = "incomplete" /\ Moves("incomplete_expired", <<Upsert>>)
        \/ /\ s \in {"trialing", "active", "past_due"}
           /\ Moves("canceled", <<Deleted>>)

StripeSideEvent(u) ==
  /\ stripe[u].status # "none"
  /\ UNCHANGED session
  /\ \E t \in SideTypes : StripeMoves(u, stripe[u].status, stripe[u].trial, <<t>>)

-----------------------------------------------------------------------------
(* Webhook delivery: BillingController.handleStripeWebhook *)

Working(e) == handler[e].pc # "idle"

(* Mutant: the inbox row only stops an event that was processed. *)
AcceptUnlessProcessed(e) ==
  /\ e <= Len(stripeLog)
  /\ e \notin acked
  /\ inbox[e] # "processed" /\ ~Working(e)
  /\ inbox' = [inbox EXCEPT ![e] = "received"]
  /\ handler' = [handler EXCEPT ![e].pc = "read"]
  /\ UNCHANGED <<stripeVars, acked, row, audit, cronVars, faults>>

(* INSERT ... ON CONFLICT DO NOTHING returned the row: handle the event. *)
AcceptEvent(e) ==
  /\ e <= Len(stripeLog)
  /\ e \notin acked
  /\ InOrder => 1..(e - 1) \subseteq acked
  /\ inbox[e] = "absent"
  /\ inbox' = [inbox EXCEPT ![e] = "received"]
  /\ handler' = [handler EXCEPT ![e].pc = "read"]
  /\ UNCHANGED <<stripeVars, acked, row, audit, cronVars, faults>>

(* The row was there: 200 with duplicate: true, and Stripe is satisfied. *)
AnswerDuplicate(e) ==
  /\ e \notin acked
  /\ InOrder => ~Working(e)
  /\ inbox[e] # "absent"
  /\ acked' = acked \cup {e}
  /\ UNCHANGED <<stripeVars, inbox, handler, row, audit, cronVars, faults>>

-----------------------------------------------------------------------------
(* Event handlers: BillingStripeSyncService.handle *)

(* The user is resolved from the subscription's metadata or, when the object
   has none, through the customer id in the row.                          *)
Resolved(b) ==
  \/ b.type \in {Upsert, Deleted, "trial_will_end"}
  \/ row[b.user].status # "none" /\ row[b.user].customer

(* Which handlers write to the row, given the status they read. *)
Writes(b, prior) ==
  \/ b.type \in {Upsert, Deleted, "payment_method.attached"}
  \/ b.type = Paid   /\ prior \in {"trial", "past_due"}
  \/ b.type = Failed /\ prior \notin {"none", "past_due"}

NewStatus(b) == CASE b.type = Upsert  -> MapStripeStatus(b.status)
                  [] b.type = Deleted -> "canceled"
                  [] b.type = Paid    -> "active"
                  [] b.type = Failed  -> "past_due"

GoTo(e, pc) == handler' = [handler EXCEPT ![e].pc = pc]

ReadPrior(e) ==
  /\ handler[e].pc = "read"
  /\ LET b == stripeLog[e]
         prior == row[b.user].status
     IN handler' = [handler EXCEPT ![e] =
          IF Resolved(b) /\ Writes(b, prior)
            THEN [pc |-> "write", prior |-> prior]
            ELSE [pc |-> "finish", prior |-> "none"]]
  /\ UNCHANGED <<stripeVars, acked, inbox, row, audit, cronVars, faults>>

(* Mutant: the upsert forgets the status field. *)
HandleUpsertWithoutStatus(e) ==
  LET b == stripeLog[e]
  IN /\ b.type = Upsert
     /\ UpdateRow(b.user,
          [row[b.user] EXCEPT !.trialEnds = IF b.trial THEN "stripe" ELSE "none",
                              !.customer = TRUE, !.subId = TRUE])
     /\ GoTo(e, IF handler[e].prior = NewStatus(b) THEN "finish" ELSE "append")

HandleSubscriptionUpsert(e) ==
  LET b == stripeLog[e]
      r == row[b.user]
  IN /\ b.type = Upsert
     /\ UpdateRow(b.user,
          [r EXCEPT !.status = NewStatus(b),
                    !.trialEnds = IF b.trial THEN "stripe" ELSE "none",
                    !.customer = TRUE,
                    !.subId = TRUE])
     /\ GoTo(e, IF handler[e].prior = NewStatus(b) THEN "finish" ELSE "append")

(* Mutant: the deletion sets the status and skips the second UPDATE. *)
HandleDeletedWithoutStamp(e) ==
  LET b == stripeLog[e]
  IN /\ b.type = Deleted
     /\ UpdateRow(b.user, [row[b.user] EXCEPT !.status = "canceled"])
     /\ GoTo(e, "append")

HandleSubscriptionDeleted(e) ==
  LET b == stripeLog[e]
  IN /\ b.type = Deleted
     /\ UpdateRow(b.user, [row[b.user] EXCEPT !.status = "canceled"])
     /\ GoTo(e, "stamp")

(* Mutant: invoice handlers move the status and append no audit row. *)
HandleInvoiceUnaudited(e) ==
  LET b == stripeLog[e]
  IN /\ b.type \in {Paid, Failed}
     /\ UpdateRow(b.user, [row[b.user] EXCEPT !.status = NewStatus(b)])
     /\ GoTo(e, "finish")

HandleInvoice(e) ==
  LET b == stripeLog[e]
  IN /\ b.type \in {Paid, Failed}
     /\ UpdateRow(b.user, [row[b.user] EXCEPT !.status = NewStatus(b)])
     /\ GoTo(e, "append")

HandlePaymentMethodAttached(e) ==
  LET b == stripeLog[e]
  IN /\ b.type = "payment_method.attached"
     /\ UpdateRow(b.user, [row[b.user] EXCEPT !.card = TRUE])
     /\ GoTo(e, "finish")

WriteRow(e) ==
  /\ handler[e].pc = "write"
  /\ \/ HandleSubscriptionUpsert(e)
     \/ HandleSubscriptionDeleted(e)
     \/ HandleInvoice(e)
     \/ HandlePaymentMethodAttached(e)
  /\ UNCHANGED <<stripeVars, acked, inbox, audit, cronVars, faults>>

(* The second UPDATE of handleSubscriptionDeleted. *)
StampDeletion(e) ==
  LET u == stripeLog[e].user
  IN /\ handler[e].pc = "stamp"
     /\ UpdateRow(u, [row[u] EXCEPT !.status = "canceled", !.expired = TRUE,
                                    !.purgeAt = "far"])
     /\ GoTo(e, "append")
     /\ UNCHANGED <<stripeVars, acked, inbox, audit, cronVars, faults>>

AppendEvent(e) ==
  LET b == stripeLog[e]
  IN /\ handler[e].pc = "append"
     /\ AppendAudit(b.user, handler[e].prior, NewStatus(b), "stripe", e)
     /\ handler' = [handler EXCEPT ![e] = [pc |-> "finish", prior |-> "none"]]
     /\ UNCHANGED <<stripeVars, acked, inbox, row, cronVars, faults>>

FinishEvent(e) ==
  /\ handler[e].pc = "finish"
  /\ inbox' = [inbox EXCEPT ![e] = "processed"]
  /\ acked' = acked \cup {e}
  /\ handler' = [handler EXCEPT ![e] = NoRequest]
  /\ UNCHANGED <<stripeVars, row, audit, cronVars, faults>>

(* A statement of the handler fails: handler_error is set and 500 returned. *)
FailEvent(e) ==
  /\ handler[e].pc \in {"read", "write", "stamp", "append"}
  /\ Fault
  /\ inbox' = [inbox EXCEPT ![e] = "error"]
  /\ handler' = [handler EXCEPT ![e] = NoRequest]
  /\ UNCHANGED <<stripeVars, acked, row, audit, cronVars>>

-----------------------------------------------------------------------------
(* trialExpiryTick: computeLifecycleTransitions and markExpired *)

(* Mutant: the cron leaves rows alone that are linked to a subscription. *)
ExpiryTickUnlinked ==
  /\ "expiry" \in Crons
  /\ expiry.pc = "idle"
  /\ LET due == {u \in User : /\ row[u].status = "trial" /\ TrialOver(u)
                              /\ ~row[u].subId}
     IN /\ due # {}
        /\ expiry' = [expiry EXCEPT !.pc = "loop", !.todo = due]
  /\ UNCHANGED <<stripeVars, acked, inbox, handler, row, audit, purge,
                 backfill, faults>>

ExpiryTick ==
  /\ "expiry" \in Crons
  /\ expiry.pc = "idle"
  /\ LET due == {u \in User : row[u].status = "trial" /\ TrialOver(u)}
     IN /\ due # {}
        /\ expiry' = [expiry EXCEPT !.pc = "loop", !.todo = due]
  /\ UNCHANGED <<stripeVars, acked, inbox, handler, row, audit, purge,
                 backfill, faults>>

MarkExpiredRead(u) ==
  /\ expiry.pc = "loop"
  /\ u \in expiry.todo
  /\ expiry' = [expiry EXCEPT !.pc = "write", !.cur = u,
                              !.prior = row[u].status]
  /\ UNCHANGED <<stripeVars, acked, inbox, handler, row, audit, purge,
                 backfill, faults>>

MarkExpiredWrite ==
  /\ expiry.pc = "write"
  /\ UpdateRow(expiry.cur,
       [row[expiry.cur] EXCEPT !.status = "canceled", !.expired = TRUE,
                               !.purgeAt = "far"])
  /\ expiry' = [expiry EXCEPT !.pc = "append"]
  /\ UNCHANGED <<stripeVars, acked, inbox, handler, audit, purge, backfill,
                 faults>>

NextExpiry ==
  LET rest == expiry.todo \ {expiry.cur}
  IN expiry' = IF rest = {} THEN NoExpiry
               ELSE [NoExpiry EXCEPT !.pc = "loop", !.todo = rest]

MarkExpiredAppend ==
  /\ expiry.pc = "append"
  /\ AppendAudit(expiry.cur, expiry.prior, "canceled", "trial_ended_no_card", 0)
  /\ NextExpiry
  /\ UNCHANGED <<stripeVars, acked, inbox, handler, row, purge, backfill,
                 faults>>

(* The error of one user is collected and the loop goes on. *)
MarkExpiredFail ==
  /\ expiry.pc \in {"write", "append"}
  /\ Fault
  /\ NextExpiry
  /\ UNCHANGED <<stripeVars, acked, inbox, handler, row, audit, purge, backfill>>

-----------------------------------------------------------------------------
(* purgeTick: computePurgeCandidates, a warning pass and then a purge pass *)

Reason(pass) == IF pass = "warn" THEN "purge_warning_30d" ELSE "purge_scheduled"

Candidates(pass) ==
  {u \in User : /\ row[u].status = "canceled"
                /\ row[u].purgeAt = IF pass = "warn" THEN "soon" ELSE "past"}

Signalled(u, pass) ==
  \E i \in DOMAIN audit[u] : audit[u][i].reason = Reason(pass)

PurgeTick ==
  /\ "purge" \in Crons
  /\ purge.pc = "idle"
  /\ Candidates("warn") \cup Candidates("purge") # {}
  /\ purge' = [purge EXCEPT !.pc = "warn", !.todo = Candidates("warn")]
  /\ UNCHANGED <<stripeVars, acked, inbox, handler, row, audit, expiry,
                 backfill, faults>>

PurgePass(pass) == purge.pc = pass /\ purge.cur = NoUser

(* Mutant: no look for an earlier signal. *)
CheckNothing(u, pass) ==
  /\ PurgePass(pass)
  /\ u \in purge.todo
  /\ purge' = [purge EXCEPT !.cur = u]
  /\ UNCHANGED <<stripeVars, acked, inbox, handler, row, audit, expiry,
                 backfill, faults>>

CheckSignalled(u, pass) ==
  /\ PurgePass(pass)
  /\ u \in purge.todo
  /\ purge' = IF Signalled(u, pass) THEN [purge EXCEPT !.todo = @ \ {u}]
              ELSE [purge EXCEPT !.cur = u]
  /\ UNCHANGED <<stripeVars, acked, inbox, handler, row, audit, expiry,
                 backfill, faults>>

AppendSignal(pass) ==
  /\ purge.pc = pass
  /\ purge.cur # NoUser
  /\ AppendAudit(purge.cur, "canceled", "canceled", Reason(pass), 0)
  /\ purge' = [purge EXCEPT !.todo = @ \ {purge.cur}, !.cur = NoUser]
  /\ UNCHANGED <<stripeVars, acked, inbox, handler, row, expiry, backfill,
                 faults>>

EndPass(pass) ==
  /\ PurgePass(pass)
  /\ purge.todo = {}
  /\ purge' = IF pass = "warn"
              THEN [purge EXCEPT !.pc = "purge", !.todo = Candidates("purge")]
              ELSE NoPurge
  /\ UNCHANGED <<stripeVars, acked, inbox, handler, row, audit, expiry,
                 backfill, faults>>

-----------------------------------------------------------------------------
(* migrateBackfillSubscriptions, and the process dying *)

(* Mutant: the backfill overwrites a row that was inserted meanwhile. *)
BackfillOverwrites(u) ==
  /\ backfill = NoUser
  /\ row' = [row EXCEPT ![u] = SeedRow]
  /\ backfill' = u
  /\ UNCHANGED <<stripeVars, acked, inbox, handler, audit, expiry, purge,
                 faults>>

BackfillInsert(u) ==
  /\ backfill = NoUser
  /\ row[u].status = "none"
  /\ row' = [row EXCEPT ![u] = SeedRow]
  /\ backfill' = u
  /\ UNCHANGED <<stripeVars, acked, inbox, handler, audit, expiry, purge,
                 faults>>

BackfillAppend ==
  /\ backfill # NoUser
  /\ AppendAudit(backfill, "none", "trial", "migration_backfill", 0)
  /\ backfill' = NoUser
  /\ UNCHANGED <<stripeVars, acked, inbox, handler, row, expiry, purge, faults>>

(* The API process dies: every request and every cron run is gone, the
   statements they made stay.                                             *)
Crash ==
  /\ Fault
  /\ \/ \E e \in Event : Working(e)
     \/ expiry.pc # "idle" \/ purge.pc # "idle" \/ backfill # NoUser
  /\ handler' = [e \in Event |-> NoRequest]
  /\ expiry' = NoExpiry
  /\ purge' = NoPurge
  /\ backfill' = NoUser
  /\ UNCHANGED <<stripeVars, acked, inbox, row, audit>>

-----------------------------------------------------------------------------

Environment == \E u \in User :
  \/ EnsureSubscription(u)
  \/ CreateCheckoutSession(u)
  \/ TrialClock(u)
  \/ PurgeClock(u)
  \/ StripeCheckoutCompletes(u)
  \/ StripeTransition(u)
  \/ StripeSideEvent(u)

Deliver(e) == AcceptEvent(e) \/ AnswerDuplicate(e)

HandlerStep(e) ==
  \/ ReadPrior(e)
  \/ WriteRow(e)
  \/ StampDeletion(e)
  \/ AppendEvent(e)
  \/ FinishEvent(e)

ExpiryStep ==
  \/ ExpiryTick
  \/ \E u \in User : MarkExpiredRead(u)
  \/ MarkExpiredWrite
  \/ MarkExpiredAppend

PurgeStep ==
  \/ PurgeTick
  \/ \E pass \in {"warn", "purge"} :
       \/ \E u \in User : CheckSignalled(u, pass)
       \/ AppendSignal(pass)
       \/ EndPass(pass)

Next ==
  \/ Environment
  \/ \E e \in Event : Deliver(e) \/ HandlerStep(e) \/ FailEvent(e)
  \/ ExpiryStep
  \/ MarkExpiredFail
  \/ PurgeStep
  \/ \E u \in User : BackfillInsert(u)
  \/ BackfillAppend
  \/ Crash

Spec == Init /\ [][Next]_vars

(* Stripe redelivers what it has no 2xx for, the event loop runs every
   request that is waiting, and the scheduler runs the hourly cron.       *)
Fairness ==
  /\ \A e \in Event : WF_vars(Deliver(e)) /\ WF_vars(HandlerStep(e))
  /\ WF_vars(ExpiryStep)

FairSpec == Spec /\ Fairness

-----------------------------------------------------------------------------
(* Properties *)

TypeOK ==
  /\ stripe \in [User -> [status : StripeStatus \cup {"none"}, trial : BOOLEAN]]
  /\ stripeLog \in Seq(Body) /\ Len(stripeLog) <= MaxEvents
  /\ acked \subseteq Event
  /\ session \in [User -> {"none", "trial", "paid"}]
  /\ clock \in [User -> 0..2]
  /\ inbox \in [Event -> {"absent", "received", "processed", "error"}]
  /\ handler \in [Event -> [pc : {"idle", "read", "write", "stamp", "append",
                                  "finish"},
                            prior : Status \cup {"none"}]]
  /\ row \in [User -> Row]
  /\ audit \in [User -> Seq(AuditRow)]
  /\ expiry \in [pc : {"idle", "loop", "write", "append"}, todo : SUBSET User,
                 cur : User \cup {NoUser}, prior : Status \cup {"none"}]
  /\ purge \in [pc : {"idle", "warn", "purge"}, todo : SUBSET User,
                cur : User \cup {NoUser}]
  /\ backfill \in User \cup {NoUser}
  /\ faults \in 0..MaxFaults

(* Nothing that could still touch u is running. *)
Quiet(u) ==
  /\ \A e \in 1..Len(stripeLog) : stripeLog[e].user = u => ~Working(e)
  /\ expiry.pc = "idle" /\ purge.pc = "idle" /\ backfill # u

(* Stripe has its answer to every event about u. *)
Settled(u) ==
  /\ Quiet(u)
  /\ \A e \in 1..Len(stripeLog) : stripeLog[e].user = u => e \in acked

Audited(u, to) == \E i \in DOMAIN audit[u] : audit[u][i].to = to

(* However often Stripe delivers an event, and wherever its handler fails or
   the process dies, the event leaves at most one row in the audit log: the
   insert into stripe_webhook_events is what decides who may handle it.    *)
OneAuditRowPerEvent ==
  \A u, v \in User : \A i \in DOMAIN audit[u], j \in DOMAIN audit[v] :
    /\ audit[u][i].reason = "stripe"
    /\ audit[v][j].reason = "stripe"
    /\ audit[u][i].event = audit[v][j].event
    => u = v /\ i = j

(* Every handler decides from the status it read before its UPDATE whether
   it appends an audit row, so two that interleave may both decide from the
   same stale row.  Even so, when everything is quiet and nothing failed,
   the status a user has is the one signup gave or one the log records.    *)
AuditExplainsStatus ==
  faults = 0 =>
    \A u \in User : Quiet(u) =>
      \/ row[u].status \in {"none", "trial"}
      \/ Audited(u, row[u].status)

(* The purge cron looks for an earlier signal and appends in two statements;
   a run that dies between two users is started again.  No user is sent the
   30-day warning, or the purge signal, twice.                             *)
PurgeSignalledOnce ==
  \A u \in User : \A i, j \in DOMAIN audit[u] :
    /\ audit[u][i].reason \in {Reason("warn"), Reason("purge")}
    /\ audit[u][j].reason = audit[u][i].reason
    => i = j

(* Whoever ends up canceled, by the cron or by a deletion that raced it and
   other events, has an expiry and a purge date, so that the 6-month dormancy
   runs out.  A checkout whose first payment never came is the one exception:
   incomplete_expired cancels through the upsert, which sets neither.      *)
DormancyScheduled ==
  faults = 0 =>
    \A u \in User :
      /\ Quiet(u)
      /\ row[u].status = "canceled"
      /\ stripe[u].status # "incomplete_expired"
      => row[u].expired /\ row[u].purgeAt # "none"

(* When Stripe waits for each answer before the next event and nothing fails,
   the mirror ends with the status Stripe has, or canceled by the trial cron,
   and access is read-only once Stripe has canceled.                       *)
MirrorConverges ==
  InOrder /\ faults = 0 =>
    \A u \in User : Settled(u) /\ stripe[u].status # "none" =>
      /\ stripe[u].status = "canceled" => IsReadOnly(u)
      /\ \/ row[u].status = MapStripeStatus(stripe[u].status)
         \/ /\ row[u].status = "canceled"
            /\ \E i \in DOMAIN audit[u] : audit[u][i].reason = "trial_ended_no_card"

(* What webhooks and checkout taught the row about Stripe is never lost:
   signup and the migration backfill, which may run at any moment against a
   row that is being filled, do not start it afresh.                       *)
LinkNeverLost ==
  [][\A u \in User : /\ row[u].customer => row'[u].customer
                     /\ row[u].subId => row'[u].subId]_row

(* A trial that is over does not last: the cron cancels it, or a webhook ends
   it or moves its deadline, even if the cron's first run failed half-way.  *)
ExpiredTrialEnds ==
  \A u \in User :
    [](row[u].status = "trial" /\ TrialOver(u)
         => <>~(row[u].status = "trial" /\ TrialOver(u)))

(* billing.controller.ts:269, "Return 500 so Stripe retries.": an event whose
   handler failed is not reported to Stripe as received.                   *)
FailedEventStaysOpen == \A e \in Event : inbox[e] = "error" => e \notin acked

=============================================================================
