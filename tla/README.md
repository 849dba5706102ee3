# Divinr.ai: a TLA+ verification of the API's state machines

Divinr.ai is a NestJS API (`src/apps/api`) over one PostgreSQL database: AI
analysts predict prices, users and analysts trade paper portfolios on the
predictions, clubs and tournaments compete, and Stripe bills it all. This
directory holds TLA+ modules of the parts where several actors work on the same
rows, the TLC runs that check them on small instances, and TLAPS proofs of what
matters most.

One fact about the code shapes every module. All SQL goes through
`rawQuery` (`src/packages/planes/database/postgresql-database.service.ts`),
which sends **one autocommitted statement** and returns `{ data, error }`. There
are no transactions and no row versions, many callers never look at `error`, and
every `await` lets another request, cron or webhook run. So in the modules
*one statement is one action*, and what a handler read earlier is carried in its
own record until it uses it.

- [What the system consists of](#inventory)
- [The modules](#the-modules)
- [What the runs check](#what-the-runs-check)
- [Bounds](#bounds) and [fairness](#fairness)
- [What is proved](#what-is-proved)
- [Where code and words disagree](#where-code-and-words-disagree)
- [What is not modelled](#what-is-not-modelled)
- [Plan](#plan)

To run them: `tlc -config <run>.cfg <MC module>.tla` and
`tlapm <module>Proofs.tla`. `PROJECT.json` lists runs, mutants, the map from
definitions to source lines, findings, hazards and theorems.

## Inventory

Paths are under `src/apps/api/src/`.

| Component | State it keeps | Operations | Hard because | Correct if |
|---|---|---|---|---|
| **Subscription mirror** (`billing/`) | `billing.subscriptions`, `subscription_events`, `stripe_webhook_events` | checkout, five webhook handlers, `trialExpiryTick` (hourly), `purgeTick` (daily), signup row, migration backfill | Stripe delivers at least once and in any order; handlers read, then write, then audit; crons act on earlier SELECTs | one audit row per event, the log explains the status, canceled users get a purge date, signals go out once, the row follows Stripe |
| **Run queue and prediction generator** (`markets/markets.service.ts`, `prediction-generator.service.ts`) | `prediction.orchestration_runs`, in-memory `isRunning` | enqueue, claim the oldest, execute, set a status, generate | two kinds of writers: claims with `SKIP LOCKED` and compare-and-swap, and a generator that updates by id | a run is claimed once, statuses follow the table, one pipeline run per instrument and window, predictions go on after a restart |
| **User portfolio** (`user-portfolio.service.ts`, `monthly-reset.service.ts`, `eod-settlement.service.ts`) | `user_portfolios`, `user_positions`, `user_trade_queue`, `bailout_ledger` | queue, cancel, execute now, execute to destinations, close; settlement; reset | a position and its cash are two statements; rows are updated by id from old reads; the reset writes an absolute balance | books balance, a queued trade is filled exactly once, a repeated click opens nothing |
| **Evaluation of predictions** (`nightly-evaluation`, `outcome-attribution`) | `market_predictions`, `prediction_horizon_evaluations`, `canonical_test_days`, `outcome_records` | midnight cron, settlement, admin request: evaluate each horizon, flag test days, attribute | runs overlap, each acts on what it selected; a prediction is pending for one day only | a horizon counts once, none is skipped, every evaluation is attributed |
| **Analyst portfolios** (`autotrade-open-helper`, `analyst-portfolio`, `eod-settlement`, `stop-loss-watcher`, `day-trader-runner`, `monthly-reset`) | `analyst_portfolios`, `analyst_positions`, `bailout_ledger` | conviction trader, paper pass, forced buy, backfill, expiry, stop loss, strategies, session end, reset | four background jobs open and close in one portfolio by increments | one position per signal, books balance, sessions end flat, the status fits the cash |
| **Tournaments** (`tournaments/`) | tournament, entries, portfolios, positions, trade queue, ranks, chat channel | lifecycle cron, enter, queue, trade at once, close, settle, mark, rank | as the user portfolio, and the lifecycle moves under it | results are final, standings add up, a queued trade is filled exactly once |
| **Clubs and their channels** (`clubs/`) | clubs, members, invites, channels, channel members | create, join, sign up with a code, invite, accept, leave, remove, promote, delete | membership is kept in two tables without a transaction | channel members are club members, an invite makes one member |
| Predictions: runner, arbitrator, paper mode | overrides, shadow rows | production pass, paper pass, arbitration, promotion | two passes upsert the same active triple | one active prediction per triple |
| Risk runner and debate | risk assessments, debates | run, debate, aggregate | model answers | one request from start to end |
| Pipeline: crawler, relevance, predictor generator, analyst pipeline | articles, predictors; `isRunning` flags | crons every 5, 15, 30 minutes | crons share tables; newest-first with a limit | no article is starved, none scored twice |
| Outcome tracking, learning, audit, coordination | scores, lessons | crons and admin calls | model answers, aggregates | |
| Authored items, bring-your-own keys | `billing.authored_items`, credentials, Stripe items | add, revoke, cancel | database and Stripe change in turn | a fee is charged exactly while a credential exists |
| Messaging | messages, reactions | post, read, open direct channel | look up, then insert | one direct channel per pair |
| Sign-up and invites | invite codes, users, API keys | claim, create account, unclaim | compensation after a failure | an invite makes one account |
| Sizing, strategies | none | pure functions | boundaries | match their tables |
| Everything else (curriculum, onboarding, notifications, leaderboards, adapters, platform packages, web client) | rows of their own or none | single statements, I/O, views | | |

How they meet: the web client calls the controllers in any order; the
analyst pipeline calls the predictor generator and then the prediction generator,
which fills the run queue and executes runs with the prediction runner, which publishes
a prediction and hands it to the conviction trader; the
end-of-day settlement settles the day's predictions, calls the forced buy and the
backfill, `executeQueuedTrades` of the user portfolio and of the tournaments, and an
evaluation run; `executeTradeDestinations`
opens one trade in the user's and in tournament portfolios; read-only users
(`read-only.guard.ts`) are those whose mirror row is canceled or dormant.
Everything else is shared through tables.

The hazards, each at its line with the property that would catch it, are listed
in `PROJECT.json`.

## The modules

### SubscriptionMirror

The row Divinr keeps for each user, and everybody who writes it.

| State | Code |
|---|---|
| `row`, `audit`, `inbox` | `billing.subscriptions`, `subscription_events`, `stripe_webhook_events` |
| `handler[e]` | the local variables of the webhook request that handles event `e`: where it is, and the status it read |
| `expiry`, `purge`, `backfill` | the loops of the two crons and of the migration, with the user in hand |
| `stripe`, `stripeLog`, `acked`, `session`, `clock` | the environment: Stripe's subscription, the events it wrote, the ones it got a 2xx for, the open Checkout page, the user's deadlines |

`AcceptEvent` is the `INSERT ... ON CONFLICT DO NOTHING` that decides who handles
an event, `ReadPrior`, `WriteRow`, `StampDeletion`, `AppendEvent` and `FinishEvent`
are the handler's statements in order, `FailEvent` its catch block. The crons have
one action per statement and user. `Crash` drops every request and every cron run
and keeps the tables. Stripe may deliver any unacknowledged event at any moment,
in order or not (`InOrder`), as often as it likes. Two small sets name what dates
do: a trial deadline is the one of signup or the one of Stripe, and
`purge_scheduled_at` is far, soon or past.

### OrchestrationRuns

`runs` is the table, `before` its creation order, `caller[c]` an API request in the
middle of `enqueueRun`, `processNextQueuedRun` or `updateRunStatus`, `gen` the
generator (`gen.pc # "idle"` is `isRunning`). `ClaimRun` is one statement, as
`FOR UPDATE SKIP LOCKED` inside an `UPDATE` makes it. `TransitionStatus` is the
compare-and-swap; `Refused` is what follows when it does not apply, the catch
block that tries to fail the run included. The generator's `CheckRecentRun`,
`EnqueuePipelineRun`, `StartPipelineRun`, `ExecutePipelineRun`, `EndPipelineRun`
each have the variant in which the statement fails, with what the code does then:
it goes on, as though nothing had happened, more often than one would think.
What a run executes is one choice between success and failure. `Forget` lets the
id of an old finished run stand for a new one, so that the generator can run for ever
over finitely many ids.

### UserPortfolio

One user, one instrument: users share no row, and positions on other
instruments share only the cash. `cash`, `realized`, `positions`, `trades`,
`ledger` are columns; `actor[a]` is a request, a settlement or a reset in the
middle of its statements, with the rows it selected *as they were then*, the
quantity left to trade and the cash it has yet to book. `SelectOpposite`,
`CloseRow`, `Credit`, `OpenRest` and `Debit` are shared by the four fillers
as `closeOppositeUserPositions` and `openUserDestination` are; `Continue` says what
distinguishes them: the look-up of `executeImmediate`, the cash check of
`openUserDestination`, the mark of the settlement. Selected rows and queued trades are sets, worked off
oldest id first (`Oldest`, `First`), as their ORDER BY has it. `Sum` (module `Sums`) adds up a function over a
finite set. Two history variables watch:
`filled` counts what was traded for a queued trade, and `drift` records which of four
things has happened after which the books need not balance.

### RunTable

The abstract specification of the run queue: a table of statuses and the one run the
generator holds, without requests, statements, stale reads or restarts. A run is inserted
only when its key has none waiting, moves along `allowedTransitions`, and only the held
run may be written over. `OrchestrationRuns` implements it under the mapping
`table <- [r |-> View(runs[r])]`, `held <- gen.run` (`ImplementsRunTable`, checked by
`run_queue` and proved as `Refinement`).

### Tournament

One tournament and one instrument. `status`, `channel`, `portfolios`, `entry`, `rank`,
`positions`, `trades` are columns, `channels` the messaging channels made for it, `clock` whether
its dates have come. `actor[a]` is a user's request (enter, queue, open at once, close by hand), a settlement
(fill queued trades, then mark open positions to the close) or a run of the lifecycle cron
(activate and create the channel; close, cancel, rank, complete and archive the channel). Closing is shared by
four of them: `CloseRow` is the UPDATE of a position by id from the row selected earlier, `Credit`
the increment of the portfolio. Statements that throw (`StatementThrows`) and statements whose error is ignored (`StatementIgnored`)
are two actions, as the code treats them differently; so are `RowIgnored`, `TotalIgnored` and `RankIgnored` inside the
loops over rows, portfolios and users. What a run works off is a set, in any order where its SELECT has no
ORDER BY (`InTurn` is the settlement's, `BestOf` the board's). `account` is a history: what each
portfolio's closed quantities earned, and which of six named causes (`Causes`) blurred its books. One of them is the
finalization's own: it takes `|mark - entry| * quantity` off the unrealized total, so a position closed in part
since its last marking, whose `current_price` is newer than its `unrealized_pnl`, leaves a rest behind.

### AnalystBooks

One machine-run portfolio of any of three `kind`s and the background work that trades in it:
`Pipeline` (publish, conviction trader, paper pass), `Settlement` (settle, forced buy, backfill,
expiry), `DayTick` (stop loss of analysts, strategies and session end of day traders), `Reset`. An order, a
close and a status check are the same statements whoever issues them (`Statement`); what
follows is in `Continue`. Sizes, the half-open tiers and the integer division of
`calculatePositionSize` and the thresholds of `determinePortfolioStatus` are operators. The
lists a run works off are sets, in any order, because their SELECTs have no ORDER BY.

### Evaluation

The predictions of one analyst on one instrument. Time is counted in half-days: midnight runs,
settlements, admin runs in between. A run carries the rows it *selected* for a horizon, compares them one
by one, flags canonical test days, then attributes the evaluations made since it started.
`Comparable` says for which horizons market data exists when the window opens (never for one day).
`Publish` rewrites an unsettled row under its id, as the upsert does.

### Club

One club. `roles`, `roll` and `invites` are `club_members`, `channel_members` and
`club_invites`; `request[r]` is a request between two of its statements, with the user and the invite
it is about and nothing else it read. Rows with a foreign key are refused once the club is gone;
errors the service does not look at leave the request going on (`StatementFails`).

### MC modules

`MCSubscriptionMirror`, `MCOrchestrationRuns`, `MCUserPortfolio`, `MCTournament`,
`MCAnalystBooks`, `MCEvaluation` and `MCClub` name the model values, sets and symmetries the
configurations use.

## What the runs check

| Run | Question | Properties |
|---|---|---|
| `mirror_faults` | two events, unordered and redelivered, one failing statement or crash, racing the trial cron | `TypeOK`, `OneAuditRowPerEvent`, `AuditExplainsStatus`, `DormancyScheduled` |
| `mirror_purge` | a user whose row appears late: signup, backfill, checkout, webhook and both crons | `PurgeSignalledOnce`, `LinkNeverLost` |
| `mirror_live` | events answered one at a time under fairness, one failure | `MirrorConverges`, `ExpiredTrialEnds` |
| `run_queue` | two API requests, a status set by hand, the generator and a crash | `TypeOK`, `ClaimedOnce`, `OnePipelineRunPerWindow`, `ImplementsRunTable` |
| `run_queue_live` | two instruments, a failed statement and a crash under fairness | `ExecutedRunEnds`, `PredictionsReturn` |
| `portfolio_books` | two at a time of a request, a settlement and a reset, a failure or crash, a midnight | `TypeOK`, `BooksBalance`, `TradesFillExactly` |
| `tournament_books` | two users, two at a time of a request, a settlement and the lifecycle | `TypeOK`, `BooksBalance`, `StandingsAddUp`, `ResultsAreFinal`, `TradesFillExactly`, `ChannelHasEntrants` |
| `tournament_live` | one user, a failure or crash anywhere, under fairness | `ResultsAreFinal`, `EntrantsTradeTheirEntry`, `EndedIsCompleted` |
| `analyst_books` | two at a time of pipeline, two settlements, tick and reset, over the three kinds of portfolio | `TypeOK`, `BooksBalance`, `OnePositionPerSignal`, `SettledSignalsAreTraded`, `SessionEndsFlat`, `StatusIsOfTheLastClose` |
| `evaluation` | six days of nights and one run by hand, a failure or crash, a prediction rewritten | `TypeOK`, `EvaluationsCountOnce`, `EveryHorizonEvaluated`, `EvaluationsAttributed` |
| `club` | three users, one invite, two requests at a time, a failure or crash | `ClubTypeOK`, `ChannelFollowsMembership`, `ClubIsWhole`, `InviteAdmitsOne` |
| `mirror_retry` | what a comment says and the code does not do, see [below](#where-code-and-words-disagree) | `FailedEventStaysOpen` |

The properties in words:

- **OneAuditRowPerEvent**: deliveries, failures and crashes leave at most
  one audit row per Stripe event. The primary key of the inbox is all that protects it.
- **AuditExplainsStatus**: whether to append an audit row is decided from the status
  read *before* the UPDATE; two handlers may decide from the same stale status, and yet,
  once quiet, the row's status is the one of signup or one the log records.
- **DormancyScheduled**: a deletion is two UPDATEs and an INSERT, the cron races it; whoever
  ends up canceled has an expiry and a purge date. The model found the one exception the
  code has: `incomplete_expired` cancels through the upsert handler, which stamps neither.
- **PurgeSignalledOnce**: no user is warned or signalled twice, though the check and the append
  are two statements and a run that dies is started again.
- **LinkNeverLost**: signup and backfill never reset a row that webhooks and checkout filled.
- **MirrorConverges**: with events answered in order and no failure, the row ends with
  Stripe's status, or canceled by the trial cron, and read-only once Stripe has canceled.
- **ExpiredTrialEnds**: no trial outlasts its deadline for good, one failed cron run included.
- **ClaimedOnce**: concurrent requests that read stale statuses never execute one run twice.
- **ImplementsRunTable**: statement by statement the queue behaves as `RunTable`: of several writers that read
  the same status one moves the run on, statuses follow `allowedTransitions`, two runs of a key never wait together, and
  only the run in the generator's hands is ever written over.
- **OnePipelineRunPerWindow**: `hasRecentRun` and the INSERT are two statements, runs are claimed
  and failed by others, the generator dies and comes back; unless a query fails there is
  one pipeline run per instrument and window.
- **ExecutedRunEnds**: a run whose execution succeeded and whose completing UPDATE failed is failed
  by the catch block and does not stay running.
- **PredictionsReturn**: an instrument is predicted again and again unless a queued run of its own
  stays in the way.
- **BooksBalance**: cash, cash in flight and open positions are worth what was put in,
  realized and topped up, until one of four named things happens (a position
  written from a stale row, a cash UPDATE lost to a failure, a reset over a balance that moved, a
  reset that cuts a balance above the target).
- **TradesFillExactly**: a trade marked executed was filled, is filled no more than its
  quantity unless something failed, and never again once marked.
- Tournament, **BooksBalance**: what a portfolio realized is what its closed quantities earned, and its cash follows,
  however users, settlement and finalization interleave. **StandingsAddUp**: the unrealized column is what
  the open positions were last marked at. **ResultsAreFinal**: in a completed tournament nothing of an entrant is open,
  queued or unrealized, and ranks follow earnings, also after a finalization that died half way.
  **TradesFillExactly**: as above, and a trade the finalization cancelled was not filled. **EntrantsTradeTheirEntry**: nobody trades on a
  portfolio that is not ranked. **ChannelHasEntrants**, **EndedIsCompleted**: the lifecycle reaches what it is there for.
  Each names the code's own exceptions (a row closed from a stale read, a lost update, a position closed by hand after its
  marking, a request landing in a finalization).
- Analysts, **OnePositionPerSignal**: pipeline, forced buy and backfill trade a signal once unless two looked before either
  inserted. **SettledSignalsAreTraded**: a settlement leaves none of the day's signals to nobody. **SessionEndsFlat**:
  what the session end found is closed, even where others were closing it. **StatusIsOfTheLastClose**:
  the portfolio's status is that of its cash after the last close, until two checks overlap.
- Evaluation, **EvaluationsCountOnce**: a prediction counts once at a horizon and a canonical day was earned at two, unless two
  runs had selected the pair. **EveryHorizonEvaluated**: the one-day window, hit once a night, lets no
  prediction through. **EvaluationsAttributed**: overlapping runs attribute for each other.
- Club, **ChannelFollowsMembership**: the two tables part only over users two requests were in the middle of.
  **ClubIsWhole**: one owner, and the channel open as long as the club is. **InviteAdmitsOne**: an invite makes one member.

For every property of a passing run `PROJECT.json` has a mutant: a definition of
the module changed as a plausible bug would change the code (no reset of a field, a dropped
guard, a missing second UPDATE), under which that run reports the property violated.

## Bounds

| Bound | Value | Why it is enough |
|---|---|---|
| `User` | 1 | handlers touch one user's row; crons loop over users, which for one user is a loop of one. The proofs hold for any set of users. |
| `MaxEvents` | 1 to 4 | two events already give every pairwise race of handlers; `mirror_live` takes three (created, renewed or failed, deleted); `mirror_purge` needs one |
| `MaxFaults` | 0 to 1 | one failure or crash anywhere, then everything retries |
| One Stripe subscription per user | | two Checkout pages open at once are a hazard of their own, not covered yet |
| `Callers`, `RunIds`, `Instruments` | 2, 3, 1 and 1, 2, 2 | two requests race; three runs give an order to claim in, with one id always left to the generator (`Spare`) |
| `MaxCrashes`, `MaxManual` | 1, 1 | a restart in every state, a status set by hand in every state |
| `MaxInFlight`, `MaxStarts` | 2, 4 | two at a time are every pairwise interleaving; four starts are, for instance, a trade queued, a position opened, a settlement and a close |
| `MaxPositions`, `MaxTrades`, `MaxDays` | 2, 1, 2 | one position on each side or two on one; a queued trade of 2 against positions of 1 closes one and opens the rest; a reset on each of two days |
| `Prices`, `Quantities`, `Target` | {1, 2}, {1} and {2}, 2 | profit, loss and break-even; balances above, at and below the target |
| Tournament: `N`, `MaxStarts`, `MaxPositions`, `MaxTrades`, `MaxFailures` | 2, 4, 1, 2, 0 and 1, 3, 1, 1, 1 | two users are needed to rank; four starts are enter twice, open at once and a settlement that marks it, or enter, open, queue the opposite and a settlement that closes the one by the other, or enter, open, settle and close by hand; failures are explored with one user, whose rows no other user touches; a position closed in part needs a quantity of 2 and is left to the proofs |
| Analysts: `MaxEvents`, `MaxInFlight`, `MaxSignals`, `MaxPositions`, `MaxDays` | 3, 2, 1, 2, 1 | a signal, the settlement that treats it, and one more job beside either; events count starts, failures and crashes; two positions on one signal are the race looked for; the day after brings expiry and the reset |
| `InitialBalance`, `Prices`, `Percent` | 10, {2, 3}, 20 and 50 | one position crosses a threshold of the status, two cross another; 20% at price 3 is size zero |
| Evaluation: `Horizons`, `MaxTime`, `MaxPredictions`, `MaxRuns` | {1, 2, 3}, 12, 2, 1 | one horizon without data, two to make a canonical day; six days cover publication to the end of the last window, at both halves of a day |
| Club: `Users`, `Invites`, `Requests`, `MaxRequests` | 3, 1, 2, 7 | an owner, a member and a newcomer; pairwise interleaving; seven requests are create, invite, two acceptances, leave, join, delete |

The portfolio run has one request, one settlement and one reset, and
`portfolio_books` asks for `executeImmediate` and `closePosition`. Trades to
destinations (`openUserDestination`, with its cash check) share every other action; with all three calls
(`Calls <- AllCalls`) the same properties hold over 6.4 million states, in a little over three minutes.

`CHECK_DEADLOCK FALSE` is set everywhere: with events, runs or starts used up and nothing in flight,
the bounded systems really are at rest.

## Fairness

`SubscriptionMirror!FairSpec`: Stripe redelivers what has no 2xx (`WF` of `Deliver`, which is its
documented retry), Node's event loop continues a request whose statement has returned
(`WF` of `HandlerStep`) and `@nestjs/schedule` calls the hourly cron (`WF` of `ExpiryStep`).
`OrchestrationRuns!FairSpec`: the generator is called every 30 minutes and goes on, requests
that have begun go on, runs grow old. `Tournament!FairSpec`: the lifecycle cron is called every five
minutes and awaits its own statements. Nothing is assumed of users, of requests that process the
queue, of failures, or of crashes. All fairness is weak: none of these actions depends on
winning a race that keeps being lost.

## What is proved

TLAPS checks these for every value of the constants (any number of users,
events, requests, runs, instruments and faults) from `ConstantsAssumption` alone, in `Club`
`ClubAssumption`. `RunAndClubProofs` holds the proofs of two components that share no definition, which is why
`Club` names its initial state, its steps and the like `ClubInit`, `ClubNext` and so on. `TournamentResultsProofs`
goes on from what `TournamentProofs` proves.

| Module | Theorem | Says |
|---|---|---|
| `SubscriptionMirrorProofs` | `Inductive`, `TypeCorrect` | the inductive invariant, `[]TypeOK` |
| | `AuditedOnce` | `[]OneAuditRowPerEvent` |
| | `LinksStay` | `LinkNeverLost` |
| | `SignalledOnce` | `[]PurgeSignalledOnce` |
| | `StatusExplained` | `[]AuditExplainsStatus` |
| | `DormancyStarts` | `[]DormancyScheduled` |
| | `MirrorAgrees` | `[]MirrorConverges`, if every user has a row from signup |
| `RunAndClubProofs` | `Inductive`, `TypeCorrect` | the inductive invariant, `[]TypeOK` |
| | `DistinctClaims` | `[]ClaimedOnce` |
| | `Refinement` | `Spec => ImplementsRunTable` |
| | `OneRunPerWindow` | `[]OnePipelineRunPerWindow` |
| | `ClubInductive`, `ClubTypeCorrect` | the club's inductive invariant, `[]ClubTypeOK` |
| | `ChannelAgrees` | `[]ChannelFollowsMembership` |
| | `OneOwner` | `[]ClubIsWhole` |
| | `OneMember` | `[]InviteAdmitsOne` |
| `EvaluationProofs` | `Inductive`, `TypeCorrect` | the inductive invariant, `[]TypeOK` |
| | `CountedOnce` | `[]EvaluationsCountOnce` |
| | `NoneIsMissed` | `[]EveryHorizonEvaluated` |
| | `Attributed` | `[]EvaluationsAttributed` |
| `UserPortfolioProofs` | `TypeCorrect` | `[]TypeOK` |
| | `BooksAlwaysBalance` | `[]BooksBalance` |
| | `TradesAlwaysFill` | `TradesFillExactly`, if settlements do not overlap |
| `AnalystBooksProofs` | `TypeCorrect` | `[]TypeOK` |
| | `TradedOnce` | `[]OnePositionPerSignal` |
| | `SettlementsTrade` | `[]SettledSignalsAreTraded` |
| | `SessionsEndFlat` | `[]SessionEndsFlat` |
| | `StatusFollowsClose` | `[]StatusIsOfTheLastClose` |
| | `BooksAlwaysBalance` | `[]BooksBalance` |
| `TournamentProofs` | `TypeCorrect` | `[]TypeOK` |
| | `BooksAlwaysBalance` | `[]BooksBalance` |
| | `FillsAreExact` | `[]TradesFillExactly`, if settlements do not overlap |
| | `TradedIsRanked` | `[]EntrantsTradeTheirEntry` |
| | `ChannelFills` | `[]ChannelHasEntrants`, if lifecycle runs do not overlap |
| `TournamentResultsProofs` | `StandingsAlwaysAddUp` | `[]StandingsAddUp` |
| | `ResultsAlwaysFinal` | `[]ResultsAreFinal`, if lifecycle runs do not overlap |
| `SumsTheorems` | `SumType`, `SumChange`, `SumExtend`, `SumZero`, `SumMoves`, `SumLess` | what the books need of `Sum` |

*One audit row per event.* The property is not inductive: nothing in it forbids a handler
at work on an event that is already audited. The strengthening (`WorkInv`, `AuditInv`) says what a
working handler knows: its event exists, its inbox row is there, and one that is about to append
handles a type that writes a status. It also says that an audited event has an inbox row and a handler that is
past its append: `finish` or gone. `AcceptEvent` needs an absent inbox row, so no second handler starts;
`AppendEvent` is the only step that adds such a row, and it leaves `append` for good.

*Links and signals.* `LinkNeverLost` needs `RowInv`, a row that does not exist holds no
link, because the INSERTs are guarded by its absence and an UPDATE of it has no effect.
`PurgeSignalledOnce` needs `PurgeInv`: the user the cron has in hand has not had the signal of the
pass it is in. Nobody but the cron writes signals, and a crash empties its hands. The
argument rests on there being one purge run at a time, which is how the single-process scheduler
calls it; two API processes would break it.

*What the log explains.* `ExplainInv`: without failures, a status in a row is the one of signup, logged, or in the hands
of a handler or of the trial cron that is about to log it; and the status a handler has read stays explained while it
decides from it, which is why two that decide from the same stale status do no harm. `StampInv`: a canceled row has its purge
date, or a handler is at the UPDATE that stamps it, or it is the exception `incomplete_expired`.

*The mirror and Stripe.* `LogInv` describes the log Stripe wrote: what type of event tells of what status, after which
other one, and that the latest of a user is what Stripe holds. `OrderInv`: with `InOrder`, an event that was accepted is
answered or being handled, and all before it are answered. `CustomerInv`: who may be charged has a customer in the row, so that the UPDATEs
find it. `MirrorInv` puts them together: the row says what the latest event that was written into it says, or the trial
cron cut it off. `MirrorAgrees` assumes `Seeded = User`, every user has a row from signup, as `mirror_live` does: an
event for a user without a row updates nothing and is answered 200, so without the assumption the property is false.

*Runs.* That a claimed run is not claimed again needs: a run owned by a
request is not queued, because `allowedTransitions` leads nowhere back to `queued` and the generator
sets only `running`, `completed` and `failed`; and a request about to compare-and-swap goes along the
table. `Refinement` maps every step to a step of `RunTable` or a stutter: requests move along the table because
a compare-and-swap applies only to the status it was computed from, the generator overwrites only what it holds,
and `KeyInv` (two waiting runs never share a key) is what the unique index gives the INSERTs.
`OnePipelineRunPerWindow` needs `WindowInv`: without failed queries no run of the instrument counts while
the generator is between its check and its INSERT, and only the run it holds counts from
then on, even if a request failed that run meanwhile. Other actors cannot
falsify it: they insert only users' runs, and only the generator brings a run back from `failed`.

*Clubs.* `club.cfg` has two requests; the theorems have any number. `BirthInv`: until the owner is in,
there is nobody and nothing but the creation, so the owner is the first member and no second owner comes.
`DeletionInv`: what a deletion has deleted stays deleted unless something came between (`undone`), so its
last DELETE is not refused. `OwnerStays`: whoever is about to be dismissed or demoted was read as
not the owner, and nobody becomes owner later. `RollInv`: one request at a time is half way with a user who is
not `crossed` and knows which row it wrote, so when it is done both tables say the same. `AcceptInv`: an invite
that is not `shared` is read as pending by one acceptance at a time, and by none once it is used.

*Evaluation.* `evaluation.cfg` has two runs, two predictions and three horizons; the theorems have any number.
`CountInv`: a pair a run has selected is not recorded yet, or it is `raced`, so its record is the first one.
`DayInv`: a canonical day, and a candidate a run has in hand, has two different wrong evaluations; evaluations are only
added, so they stay; two at one horizon are a raced pair. `WindowInv`: a pair whose window has opened is recorded,
named by the history, or still to come to the run of that night, which is over before the half-day is; `MadeInv` says
that what is recorded or held is what the row says now, unless it was rewritten. `AttributionInv`: an
evaluation without outcome is newer than the start of a run that has not scanned yet, or in the hands of one that has.

*Portfolios.* `Legal` says what a request or run holds at each of its statements: rows that were open and not empty when
selected, a quantity still to trade, cash on its way only between a position and the balance; with it the types are
inductive. The books are sums over any number of positions, days and requests. `SumsTheorems` proves the four
facts they need without an induction theorem, by taking a least counterexample: the sum of integers is one, it
changes by what one summand changes, grows by a new summand, and is zero when all are. Then each
statement enters as much on one side of the equation as on the other (`Entries`), a partial close because
`CloseBooks`: what a closed part is paid, less its worth at the entry price, is its profit. `TradeInv` is why trades
fill exactly: what was traded for a trade and what its settlement has left make up its quantity, a trade
still ahead of the settlement is not executed and untouched unless something failed, and a queued trade that is partly
filled is in somebody's hands. Two settlements that overlap would break the second; the cron and the admin endpoint can overlap,
so the theorem says that it assumes they do not.

*Analysts' portfolios.* `analyst_books.cfg` has two settlements and one each of pipeline, tick and reset; the theorems
have any finite number of each. `Legal` says what a run holds at each of its statements, and is most of `TypeInv`.
`SingleInv`: unless the signal is `raced`, a run that will open a position on it without looking again finds none there.
`TradedInv`: of the signals a settlement selected, those it has neither on its list nor in hand have a position.
`FlatInv`: of what a session end found, what is still open is on its list or being closed; closed rows never open again.
`StatusInv`: while closes are judged the cash is the one they are judged by, the grade to be written is the grade
of it, and when nobody judges it is the status, all unless `judged` is no longer `sure`. The books are one equation (`Balance`)
between the cash, what open positions cost and what runs have yet to book, and what was brought in and earned. `SumMoves`
says what a statement does to a sum in which one summand changes, `HeldMoves` and `RowsMove` what it does to the sums over
runs and over positions, and each kind of statement has one lemma (`InsertMove`, `CloseMove`, `CreditMove`,
`TopUpMove`, `BailoutMove`, ...) saying that both sides move by the same amount.

*Tournaments.* `tournament_books.cfg` has a request, a settlement and a lifecycle run; the theorems have any finite number.
`Keeps` is what each of them holds all along and `AtStep` what it holds at the statement it is at; with `Roles` (who runs
what) they make `TypeOK` inductive, the foreign keys included. `ChannelInv` follows the one activation: until it is over
the channel's members are those of `early` it has not on its list. `TradersInv`: a user's trades and requests are
on the portfolio of the user's entry, or on one whose books are blurred, or the entry is being made. `FillInv`: a trade's filled quantity and
what the settlement that holds it has left make up its quantity; one that nobody holds is not filled, or is
marked. Two settlements take up the same queued trades, and two lifecycle runs make two channels, so `FillsAreExact` and `ChannelFills`
say that they assume there are no two; the cron's own runs follow each other, the admin endpoint can break the first.
The books are two equations per portfolio (`CashInv`, `EarnedInv`), and `GainMoves` says what a statement does to the sum of
what is yet to be booked.
The standings are a third equation, which holds of a portfolio only while nobody is marking it. `RowsAgree` and `Offs`: a selected row
is the position's still in what never changes, and a settlement takes off the share it selected, a close by hand nothing.
`MarksFollow` carries the equation through a marking: the total the run has yet to write is what the positions will have
gained once those on its list are marked (`Worths`), unless the total went apart meanwhile (`Mended` is what writing it makes good).
So the last UPDATE makes the column the sum (`MarkingEnds`); from then on `WorthMoves` and `ShareMoves`
follow a close and its credit, and an opened position is worth nothing yet. The theorem has no further hypothesis.

*Final results.* `ResultsAreFinal` is the end of a chain, one link per stage of `finalizeResults`. `CronHeld`: a finalization
before its last statement finds the tournament active, so one that is completed stays so. `EndingClosed`: from `SelectOpen`
on, a position that is open is on the finalization's list, or its portfolio is told of a request that came late; after a
crash the next run selects again. `QueuedCancelled` is the same for queued trades, from `CancelQueued` on.
Nothing unrealized follows from `StandingsAddUp` where the total adds up. Where the finalization has held it at zero it
no longer does, and what holds is a bound (`ClampedInv`): the total is between zero and `Most`, the
distances from zero of what the open positions were last marked at and of the shares yet to be taken off. A close leaves
at least as much distance as it takes (`ClosedMost`, the triangle inequality for a close in part), a credit takes off exactly
the distance of its share (`OffsExact`, `CreditedMost`), so with no open position and nothing pending
the bound is zero; `SumLess`, sums of no larger terms are no larger, is what it needs of `Sum`. Who marks a portfolio whose
positions were closed meanwhile is told (`MarkersTold`), so a clean entrant is clean before the step as well and has earned as
much (`CleanKept`). At `ReadBoard` the standing of a clean entrant is what was earned (`CleanStands`), places follow standings
(`PlacesFollow`), and `OrderInv` carries the order through the writing of the ranks: what counts are the ranks written
and those to come together (`Coming`), which `WriteRank` leaves alone; a rank that is not written blurs its entrant.
The theorem assumes that lifecycle runs do not overlap, as the cron awaits its own. The chain needs it from its first link on:
with two finalizations at once, the one that is behind goes on after the other has completed the tournament, and `CronHeld`
is false. Whether `ResultsAreFinal` itself survives two is open; TLC found no counterexample for one entrant and one position.

Only model-checked: liveness under fairness (`ExpiredTrialEnds`, `ExecutedRunEnds`,
`PredictionsReturn`, `EndedIsCompleted`), which like ENABLED is outside the prover. Every safety property of a passing run has
its theorem.

## Where code and words disagree

`mirror_retry` checks one sentence of the repository, and TLC's trace is the argument: the
webhook answers 500 "so Stripe retries" (`billing.controller.ts:269`), but the retry finds the
inbox row of the failed attempt, is answered `duplicate: true` with 200, and the event's handler
never runs again.

Other places where the code does less than the words around it. The models contain what the
code does, and the properties above name it as their exception:

Billing, runs, users' portfolios
- The trial cron means "every trial row whose `trial_ends_at` is in the past" (`billing.service.ts:303`);
  `markExpired` updates by user id alone, so a row a webhook activated after the SELECT is canceled.
- Handlers do not compare event times: an older event delivered after a deletion opens the row again.
- A crash between the generator's INSERT and its UPDATE leaves a queued run that nothing scheduled
  processes and that the unique index takes as a reason to refuse every later run of the instrument.
- `executeImmediate` "must be safe against double-clicks" (`docs/efforts/archive/portfolio-foundation/prd.md:206`);
  its look-up and INSERT are two statements without a unique key. Two closes that selected one position both credit it,
  against `docs/efforts/archive/portfolio-foundation/plan.md:128`.

Analysts' portfolios
- "Open is a pure INSERT" (`conviction-trader.service.ts:16`); the helper moves the balance
  (`autotrade-open-helper.service.ts:124`).
- "force-close every open day-trader position" (`day-trader-runner.service.ts:215`): portfolios are
  read as active, and `determinePortfolioStatus` looks at cash alone, so a day trader whose cash is in a long
  can be suspended by a close in between and then be skipped.
- The conviction trader opens a long on a strong `flat` prediction and looks at neither the
  paper period nor the suspension that the backfill respects.
- Confidence 100 lies outside the half-open sizing tiers. A top-up never re-judges the status. A
  close whose row UPDATE failed credits all the same.

Evaluation
- A horizon of one day never has market data when its window opens (`nightly-evaluation.service.ts`), so the
  default horizons evaluate at the longer ones only.
- `on conflict do nothing` on `prediction_horizon_evaluations` has no key to conflict with.
- An unsettled prediction that is rewritten keeps its id and so the evaluations of what it said before.

Clubs
- Signing up with a club code "joins the club in one step" (`auth.controller.ts:206`), and adds nobody to the channel.
- A member or invite inserted between two DELETEs of `deleteClub` keeps the club row by its foreign key,
  without an owner and with its channel archived: the error is not looked at.
- An invite is used up by an acceptance whose member INSERT failed, and two acceptances of one invite that both read it
  as pending both succeed.

## What is not modelled

Within modelled components: the student branch of checkout and the .edu
re-verification cron; tournament destinations from the side of `executeTradeDestinations`; quote lookup, whose
answer is a choice of price; unrealized P&L of users, which no writer makes nonzero; several
instruments in one portfolio, which share only its cash; a failed first read of
`ensurePortfolio`, which would insert a second portfolio for an analyst; curated
tournament listings and leaderboards of clubs. What a
prediction or risk run does inside is a choice of success or failure.

Components without a module are in `PROJECT.json` with the reason. The prompts and answers of
language models, HTTP clients, ranking SQL and floating-point statistics stay
out for good. Known hazards of unmodelled parts, for whoever takes them up: an invite code released
after its account exists (`invite.service.ts:176`), a fee for a key stored without its Stripe item
(`billing.service.ts:524`), articles starved by a newest-first limit
(`predictor-generator.service.ts:352`), promotion of paper configurations by a query
over a column that the evaluations do not have (`learning-engine.service.ts:332`). The web client reaches the models
as requests in any order.

## Plan

Written, in this order, because billing decides access, the run queue feeds
everything, and portfolios are what users see:
`SubscriptionMirror`, `OrchestrationRuns`, `UserPortfolio`, then `Tournament`, `AnalystBooks`,
`Evaluation`, `Club`, and `RunTable` as the first abstract specification.

Next, should the project go on:

1. **AuthoredItems**: fees, credentials and the Stripe items behind them; two Checkout sessions per user.
2. **Invites**: claim, create the account, unclaim.
3. **Predictions**: the active-triple upsert under the production and the paper pass, composed with
   `OrchestrationRuns`: two executions of one run become two passes.
4. An abstract *ledger* whose transfers are atomic, which the books modules implement while their
   `drift` is empty.

