# Verification of the trading bot

TLA+ models, TLC runs and TLAPS proofs for `mohsenbarari/trading_bot`. This
document is the inventory of the system, the correspondence between code and
models, what the checks and the proofs show, where the code and its comments
disagree, and the plan for what is not modelled.

## 1. Inventory of the system

Two servers (an Iranian one and a foreign one) run the same Python code over
one PostgreSQL and one Redis each; the foreign server talks to Telegram.

| Part | State | Operations | Interacts with | What is hard |
|---|---|---|---|---|
| Delivery queue rows (`core/services/telegram_delivery_queue_service.py`, `core/telegram_delivery_queue_contract.py`) | `telegram_delivery_jobs`, `telegram_delivery_provider_outcomes`, `telegram_delivery_runtime_gates` | enqueue, claim, freshness, mark, defer, release, record, apply, recover | worker, reconciliation, operators, feeders (feedback in the same transaction) | leases, fences, advisory locks under SERIALIZABLE, late answers |
| Delivery worker (`core/telegram_delivery_queue_worker.py`, `run_bot.py`) | slots (coroutines), the in-memory barriers of provider facts | slot cycle, recovery, replay, reconciliation loops, supervisor | queue rows, limiter, Telegram | awaits between check and use, cancellation, lost commit answers, crashes |
| Reconciliation (`core/services/telegram_delivery_reconciliation_service.py`) | the same rows, evidence rows | reconcile, operator resolution, ready-row script | queue rows | works on rows whose answer a slot may still hold |
| Limiter (`core/telegram_delivery_queue_limiter.py`) | Redis cadence, cooldowns, probe | acquire, observe, extend, rehydrate | worker | atomic Lua, clock skew between Redis and PostgreSQL |
| Resume and runtime gates (`..._resume_service.py`, `..._runtime_gate_service.py`) | resume operations, gates | request, apply in the database, apply in Redis, complete | queue rows, limiter | three commits in two stores, crash between them |
| Process owner (`core/telegram_delivery_queue_owner.py`) | session advisory lock | acquire, assert, release | worker | ownership lost between check and use |
| Publisher dispatch (`..._publisher_dispatch_service.py`, `core/telegram_publisher_b2b_runtime.py`) | dispatch commands | create, claim, acknowledge, expire | queue claim of publisher lanes | bot-to-bot messages lost or repeated |
| Feeders and notification outbox | domain outboxes | hand over, take feedback | queue | handing over twice, feedback after supersession |
| Offers (`core/offer_lifecycle.py`, `offer_expiry*`, `api/routers/offers.py`) | offers with versions | create, fill, cancel, expire | trades, sync, feeders | expiry racing a trade |
| Trades (`api/routers/trades.py`, `trade_service.py`, `trade_contention_gate.py`, `offer_request_ledger_service.py`) | trades, request ledger, Redis gate | execute, forward, settle | offers, both servers | concurrent fills, retries of a forwarded request |
| Synchronisation (`core/sync_worker.py`, `api/routers/sync.py`, `core/sync_*.py`) | change log, cursors | push, receive, merge, repair | every table | reordering, duplicates, field authority |
| Overtime requests (`core/services/offer_overtime_*`) | the owner's queue of requests past an offer's normal deadline | create, promote, deliver, decide, cancel, sweep, repair | offers, trades, delivery queue | READ COMMITTED transactions without a common lock, autoflush off |
| One-time codes (`core/services/otp_*`, `api/routers/auth.py`) | Redis keys and scripts, the due set of SMS fallbacks | request, acknowledge, fall back, resend, verify | Telegram, SMS provider, login | claim and send are two steps, keys with a TTL |
| Market (`core/services/market_*`, `core/market_schedule_loop.py`) | trading settings, overrides, runtime state on both servers | edit, evaluate, transition, settle, autonomy, notice | offers, sync, delivery queue | two servers with one schedule, a bounded grace |
| Receipts, sessions, registration, chat, relations | own tables | see `PROJECT.json` | | mostly per-row workflows |
| Estimator, bot handlers, frontend, scripts | | | | not state machines TLC can say much about |

What makes these parts correct: a non-idempotent send reaches Telegram at most
once, and a row's state is the truth about its call; calls to one destination do
not overlap and rate limits are honoured; a gate that a 401 closed stays closed
until a human resumed it; an offer is posted once and never shown older; no lot
is sold twice, and an idempotency key is decided once; the owner of an offer has
his decision window; the copies on the other server never go back and converge;
a login code goes out by SMS at most once; a closed market has no offers left.

`PROJECT.json` lists all parts under `components` and what is hard to test
under `hazards`, each at its line.

## 2. Modules

One module per component. An action is one database transaction, one Redis script,
or one stretch of event-loop code without an `await`. `MC*` modules hold the
instances for TLC. Where one run covers several situations, the constant `Cases`
is a set of records and the variable `case`, chosen in `Init` and never changed,
says which of them a behaviour belongs to; everything a case fixes is a bound or a
setting of the deployment.

### DeliveryJob, DeliveryQueue, DeliveryPromise: the Telegram delivery queue

`DeliveryJob` is one row and the pure decisions on it. The columns the control
depends on are kept (`state`, `worker_id`, `lease_token`, `lease_until`,
`dispatch_started_at`, `next_retry_at`, the 429 evidence, the probe flag);
timestamps are kept as what the code compares them for: due or not, running or not.
`apply_gateway_result` is `ResultState`, which classifies the kinds of answer the
code tells apart. `DeliveryQueue` is the state machine. `DeliveryPromise` is the
abstract specification, what a feeder may rely on; `DeliveryQueue!Promise` is the
refinement mapping: a row in flight is a `turn`, and so on.

| Code | Action |
|---|---|
| `enqueue_telegram_delivery_job` | `Enqueue` |
| `run_telegram_delivery_queue_cycle`, in order | `BeginCycle`, `ClaimNext` / `NothingToClaim`, `ProceedAfterClaim`, `CheckFreshness`, `LimiterAdmits`, `CheckFreshness`, `EnterDispatch`, `ReadDispatchGate`, `MarkDispatchStarted`, `ProviderAnswers` |
| its exits before dispatch | `DeferForRetainedFact`, `DeferDispatch`, `MarkStale`, `PredispatchError` |
| `_persist_delivery_result_after_dispatch` | `RecordProviderOutcome`, `RejectFact`, `ApplyInSlot` |
| `run_telegram_provider_outcome_replay_cycle` | `Replay` |
| `_recover_expired_leases` | `RecoveryCheck`, `RecoverExpiredLeases` |
| `reconcile_telegram_delivery_jobs` | `Reconcile` |
| `resolve_ambiguous_telegram_delivery_job` | `OperatorResolves` |
| `reconcile_ready_telegram_delivery_jobs_by_freshness` | `ReconcileReady` |
| supervisor, cancellation, process loss | `Shutdown`, `CancelSlot`, `Restart`, `Crash` |
| the database clock | `LeaseExpires`, `RetryDue`, `CooldownEnds`, `RateLimitWindowEnds` |
| Telegram | `ProviderAnswers`, `RequestLands` |

Choices worth knowing:

- **The marker.** `_mark_dispatch_started_with_transient_retry` runs at
  SERIALIZABLE. PostgreSQL fixes its snapshot at the first statement, before the
  advisory locks are waited for. So it is two actions: `ReadDispatchGate` (the
  snapshot) and `MarkDispatchStarted` (the commit). Of two markers each of which
  reads what the other writes (`MutualConflict`: one destination, or two probes of a
  bot), serializable isolation lets the first commit and aborts the other, which the
  code retries: `AbortedMarkers`. A probe and a plain send of its bot at another
  destination conflict one way only, have a serial order, and may both commit.
  Result persistence runs at READ COMMITTED and so aborts nobody.
- **A refused fact.** The error of `RejectFact` ends the tasks of its lane; the lane
  activation loop (`telegram_delivery_queue_worker.py:2247`) catches it and starts the
  lane again in the same process, with the barrier still installed. Recovery then
  returns at once for as long as the process lives: `LeasesEnd` has this as its one
  exception (`FactRetained`).
- **Lost commit answers.** A commit whose acknowledgement is lost is a
  disjunct of `ClaimNext`, `MarkDispatchStarted` and `RecordProviderOutcome`.
- **Claim order.** `SKIP LOCKED` makes the priority order advisory, so any
  claimable row may be taken.
- **One job per cycle.** The slot loop calls the cycle with `limit=1`.
- **The operator** is assumed to have true evidence. Nothing else is.
- **Requests** stay on the wire after a time-out and may land at any later
  time. `accepted` counts how often Telegram carried a job out; no code reads it.

### RuntimeGate: blocked bots and how they resume

`telegram_delivery_runtime_gate_service.py`, the hard block of the limiter, and the
lane preflight of the worker. State: the jobs, the gate row (state, request id,
cooldown), the Redis key `block` with the `observing` and rehydrating writers that
lag behind the database, the lane's preflight, and per operator the run of the
resume saga (`op`). Actions: `Admit`, `Dispatch`, `Delivered`, `Unauthorized` (a 401
closes the gate), `Observe`, `RehydrateRead`/`RehydrateWrite` (two steps, as the
transaction ends in between), `RedisLoss`, `CooldownEnds`, `LaneBegin`,
`LaneApproved`, `LaneLimited`, `LaneActive`, and the saga `Prepare`, `PreflightOk`,
`PreflightFails`, `ApplyDatabase`, `ClearRedis`, `Complete`, with `Abandon` (crash)
at every point.

### ProcessOwner: one queue process

`telegram_delivery_queue_owner.py` and its use in the worker. State: the phase of
each process, its PostgreSQL session, the holder of the advisory lock, its slots
(`idle`, `checked`, `calling`), and `late`, the calls begun after the lock was lost.
Actions: `Boot`, `Acquire`, `Check`, `BeginCall`, `Answer`, `Monitor`, `Stop`,
`SessionEnds`, `TaskFails`, `Crash`, `Reap` (the keepalive frees the lock of a dead
session).

### OfferPublication: an offer's message in the channel

The offer feeder, the freshness check at dispatch and the feedback. State: the offer
(status, phase, revision, version), its `offer_publication_states` row, delivery rows
by dedupe key, what the channel holds, and where the feeder cycle is. Actions:
`FeedPublications`, `FeedEdits`, `FeedLifecycle`, `ButtonRefresh`; `Trade`, `Close`,
`PhasePasses`; `Dispatch`, `Settle` (verdicts other than "send"), `Repeat`,
`Delivered`, `Unknown`, `NotSent`, `Refused`, `Resolve`. Expired, traded and
cancelled are one status; partial and other edits are one action; a call that timed
out has landed by then or never does; one batch takes all candidates. The queue
below it is assumed to be the one of `DeliveryQueue`. Publisher bots and the
reconciliation of the direct-send mode are left out.

### OvertimeQueue: requests past the normal deadline

`offer_overtime_request_service.py`, its reconciliation, the queue feedback and offer
expiry, for one owner on one home server. State: `offer_requests` rows, offer
statuses, open transactions with their locks and unflushed writes (`tx`), the jobs
sent to the owner, and the clock. Transactions are READ COMMITTED with
`autoflush=False`, as `core/db.py` configures them: a transaction reads committed
rows, and its writes become visible at `Commit`. Actions: `Create`, `Cancel`,
`Reject`, `Approve`, `Deliver`, `DeliveryExpired`, `RequesterClosed`, `Sweep`,
`Reconcile`, `ExpireByOwner`, `ExpiryScan`/`ExpiryFlush`/`ExpiryRetry`, `Dispatch`,
`Commit`, `Abort`, `Tick`.

### OfferTrade: trades on one offer

`api/routers/trades.py` with `trade_service`, the request ledger, the contention gate,
forwarding and expiry. State: offers with lots and versions, ledger rows, trades and
user counts, sessions (`tx`: where they are, what they read, which locks they hold),
the expiry loop's snapshot (`scan`), what callers were told, requests sent and
payloads kept for replay. Locks are taken in the order of the code (key, user,
late key, execution, offer row). What a session at the offer row does from then on
(decide, lock customer relations, insert rows whose foreign keys take KEY SHARE on
users, close other overtime rows, commit) is one step, as nobody can change what it
decided on; for the question who waits for whom such a session counts as wanting, and
as holding, every lock it takes on that way (`CommitLocks`, `MayHold`). Actions: `Receive`, `GateFull`, `Forward`,
`Arrive`, `Approve`, `Execute` (one lock or one decision at a time), `Fail`,
`Forbid`, `Lose`, `Disconnect`, `TimeOut`, `Break`, `Replay`, `ReplayFails`,
`Forget`, `SourceRestart`, `CloseOvertime`, `ExpiryScan`/`ExpiryWrite`,
`ExpireByOwner`, `Tick`. Prices, customer chains and notifications are left out: a
business rule refuses or it does not.

### OfferReplica and CounterSync: the two servers

`OfferReplica` is the `change_log` outbox for offers: the worker (oldest first), the
fast lane of a new offer, the newest-first lane and the resync send rows, a request
may be lost, late or repeated, the receiver refuses single rows, and the watermark
keeps old rows out. The foreign server writes the row too: it stores the message id of
the post (`Post`), which raises the version and puts its whole row into its own
`change_log`, and Iran takes that row if its version is not older (`ReceiveBack`). A row
is its version, its status and the change on Iran that wrote the rest of it. An offer is
posted once, so there is one such row for it. Actions: `Create`, `Change`, `Close`;
`SendCreated`, `SendOldest`, `SendNewest`, `SendAll`; `TimeOut`, `Accepted`, `Refused`,
`Rested`; `Receive`; `Post`, `ReceiveBack`.

`CounterSync` is the counter ledger: each server increments, Iran resets, events
travel both ways and the receiver rebuilds its counter from its ledger. A transaction
may have read the row long before it locks it, and the row may be written in between.
The two clocks differ by `Skew`; the receiver refuses an event more than `FutureSkew`
ahead of its own, and a counter above `MaxValue`. The user exists on both servers under
one identity. The history variable `stray` marks a row that a local write computed from
what had changed, or timed against the boundary of the period. Actions:
`Load`, `Increment`, `ResetCounters`, `Abandon`; `Send`, `SendTimesOut`, `Delivered`,
`Rejected`; `ReceiveEvent`, `Refuse`.

### OtpDelivery: login codes

The Redis scripts of `otp_delivery_state_service.py`, the request, resend and verify
handlers of `auth.py`, and the fallback job. Each script is one step and its answer
may get lost after it ran; claims are leases that run out. Actions: `Create`, `Arm`,
`TelegramAnswer`, `Schedule`, `CancelLoad`/`CancelDelete`/`CancelExpire`, `Claim`,
`Mark`, `Send`, `Record`, `Select`, `ResendRead`/`ResendLoad`, `Consume`, `Cleanup`,
`LockOut`, `Crash`, `Tick` (a unit of 15 seconds). Provider calls are counted where they
are made: `calls` under a claim, `unclaimed` by the resend that finds no delivery state
(`auth.py:2681`); `lost` holds the requests whose caller set the mark and was not told,
or died before its call.

### MarketSchedule and MarketTransition: market hours

`MarketSchedule` computes the next and the last transition the way
`market_schedule_service.py` does, over a calendar that weekly hours and overrides
edit as it passes, and compares the results with a walk through the slots.
`MarketTransition` takes the schedule as a set of open ticks, with the ticks that are
open by the weekly hours alone and the midnights beside it: a loop loads the overrides
from today on, so it sees the days before with the weekly hours (`SeenOpen`), and finds
the last transition in what it sees. It models what is done about the schedule: admissions fenced by the advisory lock (`Fence`, `Refuse`, `Commit`),
transitions on Iran (`Evaluate`, `ApplyTransition`, `RollBack`), the row on its way
(`Receive`), settlement and notices on both servers (`ReadState`, `Settle`,
`SettleRollBack`, `Notice`), the autonomy of the foreign server (`Autonomy`), the
notice's way through the queue (`Handoff`, `Deliver`), `EditSchedule`,
`SyncSchedule` and `Tick`. Left out: the web reminder, the direct-send mode of
notices, the view cache, zones with daylight saving time, reconciliation of orphan
queue jobs. `reset_settings` is a case of editing.

## 3. Runs

| Run | Instance and bounds | Properties |
|---|---|---|
| `delivery` | one bot, two slots, a send and an edit to one chat and a send to another, two claims per job, one restart; `Scenario` limits a behaviour to one edit with every answer and verdict, or one destination, or two; slots symmetric | `TypeOK`, `DestinationExclusion`, `DestinationCooldownRespected`, `OneProbe` |
| `one_send` | one send, two slots, two claims, one restart, under `FairSpec` | `NoDuplicateSend`, `RowAgreesWithTelegram`, `SuccessNeverLost`, `FinalIsForever`, `PromiseKept`, `LeasesEnd`, `FactsReachTheirRow` |
| `gate_resume` | two jobs, two operators, two request ids, two blocks, one limit, three attempts; jobs, operators and ids symmetric | `BlockedHoldsGate`, `OpensAfterPreflight` |
| `owner` | two processes of two slots, three faults | `OverrunBounded`, `QueueServed` |
| `publication` | one offer, two content changes; cases with phases, with trades, and without changes during a call | `PublishedOnce`, `NeverShownOlder`, `ClosedIsShown` |
| `overtime` | two offers of one owner, two requesters, two sessions at a time, two rows, clock to 2 | `DecisionsAreFinal`, `DecisionWindowKept`, `LiveRequestsEnd` |
| `trade` | one offer of three pieces in lots of 2 and 1, a keyed request for 2 one without key for 3 and one of the owner, two sessions, clock to 2; cases race, forwarding, overtime, and a circle of waits; sessions symmetric | `StockKept`, `CirclesPassAWrite`, `EndedOfferTradesInFlightOnly`, `KeyDecidedOnce`, `CompletedIsNotRefused` |
| `replica` | one attempt before quarantine; cases: two offers with two rows and a refusal, one posted offer with three rows, one posted offer with two rows and a failure | `MarkedIsEqual`, `NeverBackwards`, `CatchesUp` |
| `counters` | a writer on each server and the receivers, in any interleaving, three events, one failure, the foreign clock one tick ahead | `RowMatchesLedger`, `RowsAgree`, `NeverRefused`, `EventuallyShared` |
| `otp` | two requests, two workers, one resender; cases of races, of a second request, and of time; requests and workers symmetric | `OneSms`, `FallbackKept` |
| `market` | one offer per server, clock to 7; cases of races, of notices, and of a day that a midnight ends, with and without overrides | `CloseIsFinal`, `NoticesInOrder`, `BoundedClose` |
| `market_schedule` | weeks of two days of four slots, four days, two overrides | `NextIsFirst`, `CurrentIsLastSeen` |

Why the bounds are enough: two claims make a stale holder and a new one, two slots
or sessions make every race between two holders, one restart every loss of memory,
one failure a late and a repeated request, two requests a code that replaces another.
For the properties with a theorem (section 4) the bounds do not matter.

Deadlock is checked except in `gate_resume`, `market`, `market_schedule`, `otp`,
`overtime` and `trade`, where the clock or the attempts are bounded and all work may
be done, and in `one_send`, where a refused fact stops the one lane. `TypeOK` is checked by TLC for the delivery queue, proved for the delivery
queue, gates, owner, overtime, replica and one-time codes, and documents the state
elsewhere.

**Preconditions that are part of a property or a run.** Each leaves out a
situation where the code does not do it; section 5 says which.

- `SuccessNeverLost` speaks of sends and repeatable methods, not of bans.
- `OpensAfterPreflight` holds when no resume is repeated under its own request id
  while the first run is still in its preflight (`Overlap = FALSE`).
- `ClosedIsShown` holds when the offer does not change during a call for it and
  Telegram refuses nothing for good.
- `RowMatchesLedger` and `RowsAgree` except a row that a write on its own server has
  sent astray (`stray`); `NeverRefused` holds while the clocks differ by no more than
  `FutureSkew` and no counter is full.
- `MarkedIsEqual` excepts an open offer that was changed and posted at the same time, with
  the same version (`Crossed`).
- `OneSms` bounds the calls under a claim; of the call without one it says only that
  the code it carries is no longer stored. `FallbackKept` excepts the requests in `lost`.
- `BoundedClose`: the loops keep up, no close is rolled back, nobody edits the schedule;
  and on a foreign server that has not heard from Iran, that the loop still sees the
  day that closed as it was (`Recalled`).
- `LiveRequestsEnd` names its exclusions in its definition.

**Fairness.**

- Delivery: each slot (the event loop runs every coroutine that can run), the
  replay, recovery and reconciliation loops (`while True` with a bounded sleep),
  `LeaseExpires` (the clock), `Restart` (the container restarts a process that
  exits). Nothing of Telegram, of feeders or of the operator; so nothing is claimed
  about delivery as such.
- Owner: the container restarts processes, the monitor runs, keepalive reaps dead
  sessions.
- Publication: the loops run, calls end, time passes, the expiry loop closes an offer
  past its final deadline, the operator attends to ambiguous rows.
- Overtime: the clock, the sweep and the expiry scan run, open transactions end.
- Replica: `SF(SendOldest)`, as the worker comes back to a row whenever it is due;
  answers, receipts and rests happen. Counters: `WF` of sending and of processing the
  answer, `SF` of receiving a live request (a request that is repeated for ever is
  not lost for ever), sessions end.
- One-time codes and market state their time bounds as safety: in the cases
  marked timely, handlers and loops keep up with the 15 second tick.

## 4. Proofs

Eight proof modules, each extending its component. No theorem depends on the bounds
of a run; the assumptions are the ones named in the component's module (types of the
constants, and what a constant cannot be). The inductive invariants of the safety
theorems were invariants of the component's run before they were proved; of the ones
that only strengthen a type invariant (`ValuesInv`, `ClockCounts`, `Kinds`) TLC checked
the type invariant they imply.

`DeliveryProofs`, for any number of jobs, slots, bots, destinations, claims, restarts:

- `TypeCorrect`: `TypeOK` alone is not inductive: a step needs to know that a slot
  past its claim holds a job and a token (`SlotsHoldJobs`).
- `DestinationsExclude`: `GateInv` adds `MarkingSound`: what a marker read about other
  rows is still true at its commit, though its snapshot is old. Every step that is no
  marker is `Quiet` on every row: it puts no row in flight, starts no probe, and
  starts a 429 only on a row that was in flight (`QuietStep`); and a marker aborts the
  other markers it invalidates (`MarkEffect`). Leases, tokens and barriers play no
  part in it.
- `CooldownIsRespected`, `ProbesExclude` (`OneProbe`), `FinalStays`: from the same
  invariant.
- `SendsHappenOnce`, `RowsTellTheTruth`: `SafetyInv` adds `FenceInv` (a token above the
  row's, or the row's own while its lease is unstarted, is unused; a row in doubt was
  started) and `SendInv` (a request on the wire carries the row's token, so there is at
  most one, and nothing is known about it; a refusal at that token means Telegram has
  nothing, a success that it has the message). Every step but a claim and a marker
  keeps the token and changes the row only to what is true of Telegram (`SoundStep`);
  a claim takes a new token, a marker uses an unused one (`FenceStep`, `SendStep`).
- `QueueKeepsPromise`: the refinement of `DeliveryPromise`. A marker is `TakeTurn`,
  a landing request is `Land`, every other step moves the phase of at most one row and
  only as `EndTurn` or `Drop` allow (`OrderlyStep`), and what a row says after its turn
  is true (`TurnsEndTruly`).
- `SuccessIsKept`: `SuccessInv` says that an accepting answer is one Telegram carried
  out (`FactsLanded`), what each state of a row tells about it (`RowEvidence`), and
  that a recorded success finds a row that can still take it, or one that is sent
  (`SuccessKept`).

`QueueRunProofs`, when the queue may run and who runs it. Of `RuntimeGate`:
`GateTypeCorrect`; `BlockedGateStaysClosed`, by `GateInv` (types, a run past `Prepare`
has its request, and the property); `ResumeOpensAfterPreflight`, under `~Overlap`, by
`SagaIsFresh`: a run whose request id is on the gate made its preflight after the last
block. Of `ProcessOwner`: `OneOwner`, the lock has one holder and it has a live session;
`OverrunIsBounded`, by `OverrunRoom`: late calls plus slots that already checked are no
more than the slots.

`PublicationProofs`: `OfferPublishedOnce` and `MessageNeverOlder`. `PublicationInv`:
at most one row is in flight or in doubt (`OneCall`), a publication in flight is the
first (`FirstCall`), a message that is not recorded is one in doubt (`DoubtIsHeld`),
the message is not ahead of the offer (`MessageBehind`), and what a call carries lies
between the message and the offer (`CallBetween`). Most steps are quiet: they begin no
call and leave the channel (`QuietStep`); a call begins with what the offer is at that
moment (`DispatchStep`), and however it ends the message is recorded or in doubt
(`CallEnds`). Revisions and phases are unbounded in it. `PublicationTypeCorrect`, by
`ValuesInv`: a recorded message is in the channel and an edit comes after it
(`MessagesKnown`), an offer's version is its changes and the one recording of its message
(`VersionsCount`), and the stamps of queue rows are bounded (`RowsTyped`), so that the
oldest and the newest row of an offer exist.

`OvertimeProofs`: `OvertimeTypeCorrect`, `DecisionsStand`, `WindowIsKept`.
`OvertimeInv`: a transaction writes only rows it holds locked (`WritesAreLocked`) and
what it is about to write was computed from the row as it still is
(`WritesAreCurrent`); that is why a decision cannot be overwritten although no
transaction sees the others' writes.

`SyncProofs`: for offers `ReplicaTypeCorrect`, `MarkedOfferIsEqual`,
`ReplicaNeverBackwards`. `ReplicaInv`: the log is a history of versions (`History`)
whose last row is the offer, or the foreign row that came back and is not older than it
(`OfferIsLastRow`); the copy is the row at the watermark, with the post if that was
stored on it (`ReplicaIsMark`); the foreign row is the applied row it was stored on, one
version up (`BackIsPost`), so the next row of Iran is of its version at least and the copy
never refuses it; only an awaited request's answer marks rows (`LiveIsWaited`), and a
synced row is at or below the watermark (`MarkCovers`). For counters
`NothingIsRefused`, for any interleaving of writers, clocks at most `FutureSkew` apart
and fewer events than a counter holds, by `EventInv`: the
sender is at the row after the last one marked and no request is more than one row ahead
of the watermark (`Channel`); a session's copy is of no later period than the row
(`CopiesPast`); events are numbered as they were made (`TimesGrow`); a ledger is the
server's own log and the peer's up to the watermark (`LedgerIsLog`); Iran's resets open
one period after the other, an increment belongs to none opened after it, and each row is
in the last period opened in the part of Iran's log its server has (`EpochsGrow`). So the
row after the watermark is new, coherent and not too far ahead (`NextIsTaken`).
`CountersMatchLedger` and `CountersAgree` need no condition, by `CounterInv`, which adds
that a row not astray is the count of its ledger; `OneMore` and `NewPeriod` say what an
event does to that count, and a reset that arrives makes any row right again. For rows astray there is `NothingIsInvented`,
by `CountedInv`: a counter, and a session's copy of it, is never above the increments in
the server's own ledger, which only grows; so a race loses an increment, or keeps one
that a reset should have dropped (17 below), and never makes one up. `CounterTypeCorrect`, by `ClockCounts`: everything that grows is
bounded by the events made, and event ids are as many as instants of the clock
(`KnownByClock`).

`OfferTradeProofs`: `KeysAreDecidedOnce`, `CompletedIsNeverDenied`,
`EndedOffersTradeInFlight`. `TradeInv`: what a session at each place holds and has read
(`SessionsSound`), locks exclude each other (`LocksApart`), and a key's ledger row, its
trades and the sessions that decide about it agree (`KeyCounted`). `NothingOversold` and
`TradesTakeStock`, by `StockInv`: what is left of an offer lies between nothing and its
quantity and is nothing exactly when the offer is completed, its lots add up to what is
left, and the expiry loop writes only over an offer it read as active. `StockIsKept`:
what the committed trades took and what is left add up to the quantity. Sums over finite
sets are proved to grow by one term at a time with a smallest counterexample among the
subsets, in place of an induction. `WaitsAreInOrder`: direct sessions lock
the key before the user, approvals the user before the key. `OrderInv` says that an
approval has found the row of its key settled and that no direct session keeps the lock
of a settled key, so the two orders never meet at one key; among the rest the session
furthest on in the order of locks waits for nobody. A session that writes is exempt:
the foreign keys of its rows lock other users' rows out of that order, so circles
through a write exist and the code retries what the database aborts. `TradeTypeCorrect`, by
`ValuesInv`. Assumed are finitely many requests and, of the lots an offer is made with,
what `validate_lot_sizes` checks: finitely many of positive size that add up to the
quantity.

`OtpProofs`: `OtpTypeCorrect`, `OneSmsPerRequest`. `OtpInv` says of every request that
what was not made was not tried, claims have different numbers, whoever holds the
current claim is the first to get as far as the provider call, and a marked attempt
has no second sender; claim number and mark together fence an attempt whose lease ran
out. `CallInv` adds that the code, the pointer to its request and its hash come and go
together (`KeysAgree`), so a resend that finds no delivery state carries a code that is
gone for good, and that a marked request was called, is about to be, or is in `lost`
(`MarkedIsCalled`). `FallbackIsKept`, by `FallbackInv` for what is not marked yet: a request that waits for its SMS is in the
sorted set and due no later than its birth, the fallback delay, the recovery slack and a
lease for every fault so far, or somebody holds its claim whose lease began just now; each
further lease is paid by a fault. Its hypothesis `EnoughTime` is a statement about the
code's numbers: 40 s of delay, 5 s of recovery, two leases of 30 s and the minimum of 15 s
are the 120 s a code lives, so up to two faults are survived; the run's instances satisfy
it with the faults they allow.

`MarketProofs`: `NoticesAreOrdered`, by `WireInTime` (Iran's row is the newest it sent
and no two share an instant) and `ToldIsSettled` (what is on the channel is a row of
Iran, settled, and not newer than the foreign copy): a notice is sent only for the copy,
so for a row newer than all before. `ClosedMarketStaysClosed`, by `NoneLate`: no close
runs between an admission's fence and its commit. `CloseIsBounded`, by `PaceInv`: an
offer still on sale in a closed tick means, on Iran, that this is the first closed tick,
the pass is still to come and will find the row open; on the foreign server, that the
grace is not over, or it is and the loop's pass is still to come, or the receiver is
about to close (`ReceiverCloses`). It needs that Iran's rows follow the schedule
(`RowsFollow`) and that the transition the loop computes is the tick after the last open
one (`ClosedSince`), which is so only while the loop sees the ticks since then as they
were: without Iran's row the bound is proved under `Recalled`. `MarketTypeCorrect`, by `Kinds`: the foreign row is one Iran wrote.
Of the schedule, for any length of day and week, hours, holidays, overrides and edits:
`ScheduleTyped`, `NextTransitionIsFirst` and
`CurrentTransitionIsLast`. The timetable changes only at a midnight or at an opening or
closing hour (`ChangeIsCandidate`), so the candidates the service keeps are exactly the
changes of the timetable in the searched days (`NextCandidates`, `CurrentCandidates`);
and after the last of those up to now the market is as it is now (`ChangedBetween`).

**Only model-checked, and why.**

Liveness: `LeasesEnd`, `FactsReachTheirRow`, `QueueServed`, `ClosedIsShown`,
`LiveRequestsEnd`, `CatchesUp`, `EventuallyShared`: fairness is out of the prover's
reach. Every invariant and every action property of the runs has its theorem.

## 5. Where the code and its comments or documents disagree

Met while modelling. The runs exclude or bound these situations as said above.

Delivery queue:

1. `telegram_delivery_queue_service.py:337` says a marker observes a pause it waited
   for. The marker's SERIALIZABLE snapshot is older than the lock, so one call can go
   out under a committed pause.
2. `telegram_delivery_queue_worker.py:856`: recovery checks the barriers before an
   `await` and reconciliation does not check them, so a known answer of a repeatable
   method can be refused and dropped, against the docstring at line 953.
3. `telegram_delivery_queue_service.py:807`: the record fence is checked before the
   existing outcome row is looked up; a retry after a lost acknowledgement can be refused
   although its fact is recorded (worker line 981 calls it idempotent). The refusal is
   meant to "fail the lane supervisor" (worker line 995); the activation loop catches it
   and goes on, with the barrier installed and all lease recovery off.
4. `telegram_delivery_reconciliation_service.py:423`: a ban or unban is quarantined
   with its marker kept; a success that arrives later is recorded and quarantined too.
5. `telegram_delivery_queue_worker.py:1391`: between the owner check and the provider
   call lies the marker's transaction, so a process that lost the lock may begin one
   call per slot (`OverrunBounded`), against the comment at line 1371.

None of these duplicates a send or makes a send's row lie (theorems above).

Gates:

6. `telegram_delivery_runtime_gate_service.py:575`: a resume repeated under the same id
   while the first run is in its preflight can open the gate on a preflight older than
   the last 401.
7. The same file, line 662: a lane preflight limited during a resume leaves
   `cooldown_until` on a gate that becomes active, where nothing reads it.
8. `telegram_delivery_queue_worker.py:705`: rehydration reads the gates in one
   transaction and writes the Redis block afterwards; after a completed resume the
   block stays, and no code deletes it.

Publication:

9. `telegram_offer_queue_feedback.py:213` records the version the offer has when the
   answer is applied, not the one that was rendered (comment at line 228): an offer that
   changes during the call keeps its old message.
10. `telegram_offer_queue_feeder.py:102` catches `TelegramOfferQueueError`, and a dedupe
    conflict is another error: one row can undo the whole batch (comment at line 83).

Overtime:

11. `offer_overtime_reconciliation_service.py:575`: with autoflush off, the sweep's
    promotion reads the timed-out row as still presented and promotes nobody.
12. The same file, line 640: the delivery grace runs from receipt, not from promotion.
13. `offer_expiry_service.py:150`: the expiry job locks nothing; a request committed in
    between stays open on an expired offer.

Trades:

14. `trades.py:3740`: the user row is locked but the loaded object not refreshed, so
    limits are checked on values from before the lock.
15. `trade_forwarding.py:121`: a read error after the request was sent becomes 503,
    which `trades.py:3558` takes as "not sent".
16. `trade_forward_pending.py:144`: a kept payload is replayed once, though the module
    speaks of a reconciler and six attempts.

Synchronisation, sessions, one-time codes:

17. `user_counter_sync.py:128`: a reset that read 0 leaves a column out of its UPDATE,
    so an increment in between survives the reset on Iran only. Likewise a transaction
    that read the user before another one wrote it, as `trades.py:3740` may (the row lock
    returns the copy the ORM has), overwrites that increment; and a foreign clock ahead
    of Iran's dates increments past a reset that comes after them. `RowMatchesLedger`
    names these rows and excepts them; their next clean reset makes them right.
18. `session_service.py:427`: logout locks no user row; beside a login it can leave
    active sessions without a primary.
19. `session_expiry.py:46`: the expiry job ends a session that a login renewed in
    between.
20. `auth.py:2450`: after a scheduling error, a rejected SMS withdraws a code whose
    Telegram message was acknowledged.
21. `auth.py:2666`: resend reads the code, then the state; after a login in between the
    legacy branch sends the consumed code, a second SMS of one request.
22. `auth.py:2825`: verification deletes the keys a second time, by mobile number, and
    takes the code of a newer request with it.

Market:

23. `market_transition_service.py:882`: overrides are loaded from today on, so the last
    transition ignores yesterday's. After a day opened by an override and closed before
    or at midnight, a foreign server without a link takes an older transition for the
    last one, Iran's row of the opening for a newer answer (line 822), and leaves its
    offers active until Iran's row of the closing comes.
24. The same file, line 1091: an opening that begins and ends between two passes leaves
    its offers active.
25. The same file, line 752: during an outage the foreign loop expires offers from a
    stale closed row although its schedule is open.
26. `telegram_delivery_market_freshness.py:319`: the notice of an autonomous transition
    is superseded, as it is compared with a row that autonomy does not write.

The offer's two writers:

27. `sync.py:1353` and `sync.py:2202`: the foreign server's row of a post comes back with
    every column but the message id, and a row of equal version is taken. When Iran
    changed the open offer at the same time, each server takes the other's row: Iran goes
    back to the quantities from before its trade, the foreign server has those after it,
    although `sync_registry.py:278` makes the home server the authority. The stock of
    `OfferTrade` does not have this writer: `StockKept` is about the sessions of one
    server.

## 6. Not modelled, and the plan

Not modelled, with the reason in `PROJECT.json`: publisher bots, retention and
rollback, trade delivery receipts, sessions (two races listed above), registration,
chat, relations, the estimator, bot handlers, the frontend, scripts. In the modelled
parts: payload validation, claim order, health reports, retention, the cadence keys of
the limiter, the saga of the configured channel, and the apply rules of tables other
than offers and counters.

Next:

1. New modules: publisher dispatch (commands and acknowledgements that gate the claims
   of publisher lanes) and trade delivery receipts (leases of their own), both on the
   pattern of `DeliveryQueue`.
