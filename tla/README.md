# Verification of notifyd

TLA+ specifications of the event-driven notification system in `src/`, the TLC
runs that check them on small instances, and TLAPS proofs of the main safety
properties for every size of the system.

## The system

A notification is accepted by the **API**, which authenticates the request,
claims its `Idempotency-Key`, and inserts a `notifications` row with an
`outbox` row (or a timer, when it is scheduled) in one transaction. The
**scheduler** releases due rows. The **outbox dispatcher** of each replica
claims unpublished outbox rows and publishes them to **RabbitMQ**. A **worker**
takes a message, moves the row to `sending` with a compare-and-set, sets an
in-flight key in **Redis**, asks the rate limiter and the circuit breaker, calls
the **provider** and records the outcome: `sent`, back to `queued` with a message
in a wait tier, or `dead_letter`. The **sweeper** reclaims rows that stayed
`sending` for five minutes. **Admin** endpoints replay and purge dead letters
and revoke keys, each with an entry in a hash-chained audit log. Status events
go through Redis Pub/Sub to a **hub** and from there to **WebSocket** clients.

| part | code | modules |
|---|---|---|
| create, batch, idempotency, templates | `internal/api`, `internal/idempotency` | `Creation` |
| list, read of a batch | `internal/api/notifications_list.go`, `notifications_batch.go` | `Listing` |
| authentication, its cache, revocation | `internal/api/auth*.go`, `admin.go` | `Auth` |
| scheduler, cancel, replay, purge | `internal/scheduler`, `internal/api` | `Control` |
| audit log | `internal/audit`, migrations 0009 to 0014 | `Audit`, in `Control` |
| notification tables and queries | `internal/store` | `Store`, `Notification` |
| outbox dispatcher | `internal/outbox` | `Outbox`, in `Delivery` |
| broker, publisher, consumer | `internal/queue` | `Broker`, in `Delivery` |
| worker, provider client, breaker | `internal/worker`, `internal/provider` | `Worker`, in `Delivery` |
| sweeper | `internal/sweeper` | `Delivery` |
| rate limiter | `internal/ratelimit` | `RateLimit` |
| events, WebSocket hub | `internal/events`, `internal/ws` | `Hub` |

`PROJECT.json` lists every component with its status, the map from definitions
to source lines, and the hazards the properties are aimed at.

## Modules

In all of them a call to Postgres, Redis, RabbitMQ or the provider is a step of
its own, since another process can act between any two, and `pc` names the call
that comes next. A transaction is one step, except where its parts can interleave
with others (`Creation`, the replay in `Control`). `Faults` is the budget of
faults a behaviour may spend: `FaultKinds` says which, `MaxFaults` how many.
Operators introduced as "Mutation of" are faulty variants of the definition that
follows; they show that the properties can fail and are used nowhere else.

### The delivery path: `Delivery`

`Delivery` composes `Store` (the tables, one operator per statement), `Broker`
(main queue, wait tiers and DLQ as bags of messages), `Worker`
(`Pipeline.Handle` under `Consumer.Run`) and `Outbox`, and adds create, cancel
and the sweeper. `Lifecycle` is the abstract specification, the life of one
notification; `DeliveryInv` the inductive invariant; `MCDelivery` the symmetry
sets for TLC.

*Outcomes of a call.* It succeeds, fails without effect, or takes effect
although the caller sees an error. The last is distinguished where the code
goes on differently: the CAS, SETNX, MarkSent, the publishes, the claim and
the provider call. For a best-effort statement whose error is ignored it is
the same as success.

*Time* is counted in ticks. `left[w]` is what remains of `handleTimeout`
(30 s), `lockTTL[n]` what remains of the in-flight key (60 s), `sendingAge[n]`
how long a row has been `sending`, for the sweeper (5 min). The models use
1, 2 and 3: the smallest numbers with the order 30 s < 60 s and
30 s + 60 s <= 5 min, which `TimeoutAssumption` states and the sizing rule in
`sweeper/sending.go` asks for. A handler whose deadline has passed, or whose
context was cancelled, makes no further call that waits, so it returns before
the next tick.

*A lost connection.* The consumers of a replica share one connection. When it
drops, the broker requeues what was not acked (`ConnectionLost`); the handler
runs on until a consumer sees its deliveries closed and the errgroup of
`Manager.Run` cancels the context of every handler (`Shutdown`, which after a
lost connection is no further fault). From then on its calls fail, the reverts
included: they use the handler's context.

*Abstractions.* A message is the notification and its `x-redeliveries` header.
Queues have no order (priorities, several consumers, requeueing). The three
wait tiers are one, because a TTL is "some time"; a TTL (5 s at least) does not
run out between a handler's publish and the DEL that follows it, unless the DEL
fails (`unlock` fault). Undecodable messages, which the system never writes, are
left out. The reservoir and the breaker are free choices. Provider failures,
throttling, an open breaker and lapsing claims are ordinary behaviour, not
faults. History variables: `calls` and `accepted` (what the provider saw), and
three sets of notifications that a step may have left with nobody to carry them:
`deferred` (a delivery acked because the in-flight key was held), `dropped` (a
worker without a connection could not hand its delivery on) and `forgotten` (a
dispatcher gave up and neither of its dead-letter writes went through).

### Scheduling and administration: `Control`, `Audit`

`Control` uses the tables of `Store`, and for the delivery path the edges of
`Lifecycle`, which `Delivery` is proved to implement: whatever delivery does to
the row, in any order, can happen between two steps of a scheduler or an admin
request. Transactions are READ COMMITTED: a SELECT takes no lock, an UPDATE
locks its row until the transaction ends, and what follows it takes effect at
the commit. The replay is split accordingly into the check of the status, the
unguarded update, the audit id, the trigger and the commit.

In `Audit` an entry gets its id from the sequence first, then waits for the
advisory lock, chains to the largest committed id below its own, and commits. A
hash is the sequence of the ids it covers, so hashes are equal exactly when
their contents are. `VerifyAuditChain` is the query of that name.

### Creating and reading: `Creation`, `Listing`

A request has an owner, a key and what it asks for (plain, scheduled, rendered
from a template, batch). It reads the template, claims the key (SETNX, then
GET when it is taken), inserts, commits, finalizes or releases. Between two steps
the claim may expire, its client go away, its process die, the template be
edited or deprecated. A template may be rendered by its author and by admins.
A body is what was asked for and the version of the template it was rendered
from, which is what the body hash tells apart.

`Listing` adds a reader: pages by keyset cursor, and the two queries of
`getByBatch`. `created_at` is the time the transaction began, so rows of a batch
share it and rows may become visible after newer ones.

### Authentication: `Auth`

A request looks into the cache, at the revocation marker, at the failure gate,
lists the active rows, verifies, stores. Several rows may verify one bearer,
since each dev seed inserts a row with a new salt. All TTLs are counted in
ticks; a request authenticates within `ReqTimeout`. `AuthAssumption` asks that the
marker (5 min) outlives a cache entry (60 s) and two requests.

### Rate limiting: `RateLimit`

The script's arithmetic. A tick is the script's millisecond, in which a fraction
of a token accrues: the level is counted in parts, `Grain` of them to a token,
`Rate` of them per tick. So the bucket's level is not a whole number of tokens,
and the wait a denied caller is told is rounded up to a tick, as the script's is
to a millisecond. The time a script is given was read before the round trip, and
each replica has its own clock.

### Events: `Hub`

One replica: publish, the hub's loop, the buffer of each connection, its writer
and reader, slow clients, shutdown. A pass over the subscribers holds the mutex
and is one step; closing happens outside it. Events carry a number and an owner.

## Runs

| run | instance | result | what it shows |
|---|---|---|---|
| `any_fault` | 2 workers, 1 dispatcher, two faults of any of nine kinds; one delivery attempt, outbox gives up at once | pass | exclusion, accounting, a fault for every repeated acceptance, losses only in the three ways named, the lifecycle (against the dispatcher's unguarded dead-lettering too), the inductive invariant |
| `duplicates` | 2 workers, 2 dispatchers, two attempts, one lost confirm or failed unlock | pass | duplicates alone never reach the provider twice, the DLQ without a record, or an orphaned row |
| `liveness` | 1 worker, 1 dispatcher, two attempts, one error, deadline, shutdown, lost connection or lost answer | pass | nothing is lost and every accepted notification settles |
| `control` | 2 schedulers, 2 admin requests, 2 audit ids, one crash or error | pass | scheduling loses and repeats nothing; revivals and broken audit links only in the races named |
| `limiter` | 3 callers on 2 replicas, skew 1, two thirds of a token per tick, capacity 2, batch 2, one lost answer or restart | pass | nothing served uncharged, the bucket's bound, a wait that is as long as it must be and no longer |
| `auth` | 2 requests, 2 rows of a bearer, one error | pass | revocation, failure budget, end of the lock |
| `creation` | 2 requests under one key, 3 owners (author, admin, other), one crash or error, one client gone, 2 template versions | pass | no second notification, no success without rows, replayed retries, no claim that outlives its request |
| `listing` | 2 requests (batches up to 3), pages of 2 | pass | complete and duplicate-free walks, whole batches |
| `hub` | 2 connections (one admin), buffer 1, 3 events, one failure | pass | gap-free prefixes; nobody holds up the hub |
| `v_crash_lost` | one crash | violated | `NotLost`: a stale in-flight key makes a redelivery be acked |
| `v_audit_fork` | 2 admin requests | violated | `ChainIntact`: ids taken in one order, the lock in the other |
| `v_batch_retry` | one batch sent twice | violated | `RetryContract`: the batch endpoint stores the key and never looks at it |

Each run takes less than five minutes. The violated properties state what a
comment or document says; the findings in `PROJECT.json` quote it.

**How to read the weaker properties.** Some promises do not hold as documented,
and the runs check what does:

- `NotLost` fails with one crash. `LossesExplained` says, for any faults, that
  there are three ways to lose a notification: a delivery acked because the key
  was held; a nack that has no connection while the replica stops or dies
  (`pipeline.go:423`, `manager.go:96`); a dispatcher that gives up while the
  database refuses both its dead-letter writes (`outbox/dispatcher.go:179`).
  Without any fault, two dispatchers that publish one row and two workers can
  also meet the held key, which is why `duplicates` does not check `NotLost`.
- `AcceptedOnce` holds for duplicated messages; a MarkSent that fails after the
  provider's answer sends again (`pipeline.go:471`), and so do a crash, a
  shutdown, a deadline and a lost connection between the two. What holds whatever
  happens is `RepeatsCostFaults`: each such repeat has cost a fault of its own.
- `DLQHasRecord`, `NoOrphanedSending` and `DeadLetterNeedsAttempt` hold in
  `duplicates`. Database errors reach the redelivery cap without a record
  (`pipeline.go:154`). Publishes that fail `MaxAttempts` times dead-letter
  (`outbox/dispatcher.go:179`). A shutdown or a lost connection leaves the row
  `sending` for the sweeper: the comment at `manager.go:92-93` says that the
  reverts run with `context.Background`, but only the DEL of the in-flight key
  does; `pipeline.go` reverts with the handler's context, which has ended.
- `RevivedOnlyByReplayRace`: two replays of one row both pass the check, and the
  second resets what the first has brought to `sent` (`admin.go:138`).
  `ListedIsReplayable` excepts a worker that records a dead letter after the
  replay.
- `RetryReplays` excepts templates: the body is hashed after rendering, so a
  retry after an edit is a conflict. It also excepts a client that goes away,
  whose deferred Release deletes the record, finalized or not.
- `BucketBound` counts the time by which clocks fell back: the script stores an
  older `now`, and the same time is refilled again. With equal clocks and
  scripts that run at the time they are given `rewound` is 0, and it is the usual
  bound. The bound of ADR-0022, which leaves `rewound` out, is not claimed.
- `RevokedExpires`: without the marker the tail is the cache's TTL and two
  requests, not the TTL alone.
- `FailureBudget`: the gate is read before the counter is incremented, so
  requests that passed it together each count one more.

**Bounds.** Two workers are enough for every race about one row: the key and the
CAS admit one, and the second is the intruder. Two attempts give a first, a
retried and a final one (`duplicates`, `liveness`); in `any_fault` a failed request
dead-letters at once, and further attempts come from what faults undo and the
sweeper brings back. A redelivery cap of two gives a message below, at and past
one bounce. `MaxOutbox` bounds the inserts (guard of Create and Sweep);
`liveness` leaves room for every sweep its faults can cause. In `control` a
notification can be scheduled, released, dead-lettered and replayed, and two
audit ids are what a fork needs. In `limiter` a token takes one and a half ticks,
so levels are fractions of a token, a batch may be denied where a single take is
not, and waits are one or two ticks; two callers share a reservoir and the third
reads another clock. In `auth` the TTLs are the
smallest with the order of the real ones, `Limit` 1 puts two requests on both sides of
the gate. In `creation` one request is the original and one the retry or rival,
of the template's author, an admin or another key.
In `listing` a batch spans pages. In `hub` a buffer of one fills at once, and three
events suffice for received, missed and must-not-follow. Deadlock is checked
in `auth`, where requests keep coming; the other systems come to rest when their
notifications have settled or the bound of their inputs is used up.

**Fairness.** `Delivery`: weak for a worker that takes a waiting message and goes
on with its handler, for the tickers of dispatcher and sweeper, for claims and
TTLs. Strong for the grant of a token and for the breaker letting a call
through, since the bucket refills and the breaker half-opens after its timeout,
and for time, which passes although handlers come and go. `liveness` leaves out
crashes and failed unlocks, one of which can lose a notification for good.
`Control`: weak for the scheduler's steps (its ticker), for timers becoming due
and claims lapsing. `Hub`: weak for the hub's own goroutine; nothing is asked of
the clients.

## Proofs

The theorems hold for every value of the constants that satisfies the named
assumptions of the modules, any number of processes and any fault budget.

| module | theorem | states |
|---|---|---|
| `DeliveryProofs` | `TypeCorrect` | types; handlers and dispatchers only hold what exists |
| | `ConcurrentSendExcluded` | `NoConcurrentSend` |
| | `OwnersExclusive`, `SweepIsSafe` | `SoleOwner`, `SweepSafe` |
| | `CallsAreCounted`, `AttemptNumbersFresh` | `CallsWithinBudget`, `AttemptsUnique` |
| `InvariantProofs` | `LossesAreExplained` | `LossesExplained` |
| | `InductiveInvariant`, `RefinesLifecycle` | `IInv`, `ImplementsLifecycle` |
| `OutcomeProofs` | `RepeatsArePaidFor` | `RepeatsCostFaults` |
| | `SendingIsOwned`, `AcceptedAtMostOnce`, `DLQIsRecorded`, `DeadLettersWereTried` | `NoOrphanedSending`, `AcceptedOnce`, `DLQHasRecord`, `DeadLetterNeedsAttempt`, under hypotheses |
| `ControlProofs` | `TimersAreKept`, `ReleaseIsOnce`, `ListIsReplayable`, `RevivalNeedsReplay`, `ForkNeedsLateCommit`, `ControlTypes` | `ScheduledHasTimer`, `ReleasedOnce`, `ListedIsReplayable`, `RevivedOnlyByReplayRace`, `BrokenOnlyByLateCommit`, `ControlTypeOK` |
| `CreationProofs` | `CreationTypes`, `OneKeyOneNotification`, `SuccessIsStored`, `RetriesAreReplayed`, `ClaimsAreReleased` | `TypeOK`, `AnswersAgree`, `AnsweredIsStored`, `RetryReplays`, `ClaimHasHolder` |
| | `WalksAreExact`, `BatchesAreWhole` | `WalkIsExact`, `BatchIsWhole` (of `Listing`) |
| `AuthProofs` | `AuthTypes`, `RevocationHolds`, `RevocationExpires`, `CounterIsTransient`, `LockIsBounded`, `FailuresAreBounded` | `TypeOK`, `RevokedStaysOut`, `RevokedExpires`, `CounterExpires`, `LockEnds`, `FailureBudget` |
| `RateLimitProofs` | `LimiterTypes`, `BucketIsBounded`, `RetryIsEnough` | `TypeOK`, `BucketBound`, `RetrySuffices` |
| | `ThroughputIsBounded` | requests let through are charged, and within the bucket's bound |
| `HubProofs` | `BuffersAreBounded`, `ClientsSeeNoGap` | `TypeOK`, `NoGap` |

**Delivery.** The properties are not inductive. `IInv` (`DeliveryInv`) builds
what they need in six layers, each inductive given the ones before; layers 1 to
4 are in `DeliveryProofs`, 5 and 6 in `InvariantProofs`:

1. `TypeInv`: types, a busy handler has a notification, a dispatcher a row.
2. `LockInv`: under the key, `lockTTL > left`. Both fall by one per tick and
   the handler stops at 0, so the key cannot expire under it. The DEL does not
   check who set the key; it is safe because the key is still its own.
3. `OwnInv`: an owned row is `sending` (or dead-lettered under its owner by the
   dispatcher, or `sent` when only the answer to MarkSent was lost) and
   `sendingAge + left <= HandleTimeout`. A key on a `sending` row has
   `lockTTL + sendingAge <= HandleTimeout + LockTTL`. With the sizing rule
   neither an owner nor a key is left when the sweeper acts.
4. `BudgetInv`: requests and recorded attempts against `attempt_count`, which
   only the owner or the sweeper moves.
5. `RowInv`: outbox rows belong to existing notifications, so nobody
   dead-letters an absent one. The refinement needs it.
6. `LossInv`: what carries a row that waits for pickup. `LossesExplained` alone
   is not inductive: it counts an outbox row that a dispatcher has published and
   is about to mark, whose message may be gone by then. `InOutbox` leaves it out.
   And a worker's delivery is below the redelivery cap until it settles, so it
   can still be handed on.

`RefinesLifecycle` maps `status`, `attemptCount` and `calls` to themselves:
every step of `Delivery` is a step of `Lifecycle` or leaves all three alone.

That the third loss of `LossesExplained` takes three faults is `GivenUpInv`:
giving up takes a failed publish and two failed writes.

**What a fault costs.** `RepeatsArePaidFor` has no hypothesis. `RepeatInv` counts
the acceptances of a notification and the one that is still to come, unless the
last is `Secured`: the worker that got the answer has the row and can record it,
or the row is settled and nobody is on the way to a request. Beside them it counts
the workers that are `Doomed`: they have lost their connection or their context
and may leave an acceptance unrecorded. Together they are at most one more than
the faults. `Charged` states this as an injection of the doomed workers into the
faults beyond those counted, so that a worker that leaves its acceptance
unrecorded hands its own fault on.

**Delivery under hypotheses.** Four properties hold only if some faults do not
happen (see the weaker properties above), and their theorems say which. All
other kinds, in any number if none is stated, are allowed.

| theorem | excluded kinds | further hypothesis | inductive invariant |
|---|---|---|---|
| `SendingIsOwned` | crash, conn, shutdown, slow, db, redis | | `OwnedInv` |
| `AcceptedAtMostOnce` | crash, conn, shutdown, slow, db, provider | | `AcceptInv` |
| `DLQIsRecorded` | shutdown, slow, db | `MaxFaults < MaxRedeliveries` | `DLQInv` |
| `DeadLettersWereTried` | none | `MaxFaults < OutboxMaxAttempts` | `TriesInv`, `AttemptInv` |

The first three use `Timely`: without slow calls and shutdowns the context of a
worker that has its connection is not done; the first two also use `Connected`,
that every worker has it. In `DLQInv` a bounced delivery whose row is not a dead
letter has paid a fault for each bounce (`Paid`); a worker without a connection
nacks nothing to the DLQ. In `TriesInv` every failed publish of a row, counted in
`attempts` yet or not, has a fault of its own (`Charged`, of the dispatchers that
are about to count one). In `AttemptInv` a worker whose context is done takes the
path to a dead letter without a request, and its statements change no row.

**Rate limit.** `BucketInv` is the bound with the types of what the script reads.
Only the script moves its terms, so the step is shown for one run of the script
with any take and any time: elapsed time enters `ts`, fallen-back time enters
`rewound`, and a key that expired was idle for `KeyTTL`, in which it would have
filled (`Grain * Capacity <= Rate * KeyTTL`). `RetryIsEnough` rests on `Ceiling`:
rounding up gives the least number of ticks in which the missing parts accrue.
The wait is on the caller's own clock, which is the one the script stored.

`ThroughputIsBounded` carries the bound over to the requests. The charged tokens
are numbered and each is in one place: with a request that was let through, in
the reservoir of a replica, or granted to a worker that has not credited it
(`TokenInv`; there is an assignment `own` of tokens to places that gives each
place at least what it counts). A script adds tokens, a take or a credit moves
them, an error or a restart leaves them where nobody counts them.

**Authentication.** The argument counts ticks. A row read as active is stored at
most `ReqTimeout` after the revocation, the entry lives `CacheTTL`, and a request
that has read it looks at the marker at most `ReqTimeout` later. `RInv` says that
what is left of the marker is enough for what is left of each (`Covered`), and
that a request that came after the revocation never found the row active
(`LateInv`). `Aged` bounds what has passed since the revocation by what each has
used up; `RevocationExpires` follows without the marker.

**Control.** `CInv` has three parts besides the types. `TimerInv`: a row leaves
`scheduled` once, by the CAS or a cancel, and has not been released before.
`ReplayInv`: a replay that has read `dead_letter` still finds it unless another
replay committed meanwhile, since delivery has no edge out of that status.
`ListInv`: under a replay's row lock that found no dead letter to delete, one that
is inserted is late. `ControlAssumption` asks that the bounds are numbers and that
no admin request is the "nobody" of a row lock.

The audit chain has an invariant of its own, `AInv`. Ids are handed out once
(`IdInv`); the transaction at its commit holds the advisory lock, so its entry is
still chained to what is committed below it (`HolderInv`); a committed row is
chained to what is below it or a smaller id was committed later (`ChainInv`). The
commit of an entry makes every row above it late and changes nothing below it.

**Authentication, the failure budget.** `GateInv`: failures counted so far and
requests past the gate are together at most the limit, the requests and the
faults. `FailuresAreBounded` assumes that the requests are finitely many.

**Creating.** `CreateInv` is the invariant. The unique index admits one row with
a given owner and key, and a row of an open transaction counts already
(`RowsInv`). What a 201 names and what a final record holds is such a row
(`AnswerInv`, `SlotInv`), so answers agree whatever expires. `RetriesAreReplayed`
adds that, while nothing fails or lapses, a claim has one holder (`ClaimInv`) and
a final record stays for the retry to find (`RetryInv`). `ClaimsAreReleased`
allows lapses and clients that go away: a claim has a holder, and a holder whose
client is gone cannot finalize but still has its deferred Release to come
(`HolderInv`). `CreationTypes` counts
the ids still to be handed out (`IdsInv`). `CreationAssumption` asks for numbers
and for `MaxVersion >= 1`, the version a template starts with.

**Reading.** A step of `Listing` is a step of `Creation` or leaves it alone, so
`CreateInv` holds there. `WalkInv`: every row returned is at or above the cursor,
every row that was present at the start is returned or below it. It is kept by a
page because the page is what is newest below the cursor (`PageItems`: for a
finite set and any size, by counting what is newer), and by a commit because it
only adds rows. `BatchInv`: the rows of a batch are numbered without a gap by its
`accepted` and become visible in the same step as the batch; `DetailInv`: what
the first query read is still so at the second.

**Hub.** `LineInv`: what a connection has been sent, what its writer holds and
what is buffered, in this order, is what it was owed, or, once an event was
dropped for its full buffer, a prefix of it; then the hub dispatches nothing more
until it has closed that connection (`ClosingInv`).

**Only model-checked.** The liveness properties (`EventuallySettled`,
`DueIsWorkedOff`, `EventsMoveOn`): the prover has neither fairness nor ENABLED.
`NotLost`, which is for one worker and one fault; `LossesExplained` is the theorem
about losses. `ServedWithinCharge`, which adds up all reservoirs: the sum is a fold,
and what a fold computes for a set of any size needs an induction the provers
cannot instantiate. `ThroughputIsBounded` proves what the sum is for. The
violated properties of the `v_` runs are not theorems.

## Not modelled

- The publisher's channel pool: its redial and rotation decide which outcome a
  publish has, and the model allows all of them.
- The breaker's state machine, which is the gobreaker library's; a refusal is
  possible at any time, which is more than the library allows.
- Prefetch, priorities and the order of queues; several hub replicas, which share
  nothing; the hub's channel and batch filters. The hub's mutex: what is done
  under it is one step, so a deadlock on it cannot show.
- The rounding of the script's floating-point arithmetic: a level is an exact
  fraction.
- Field validation, template text, URL filtering, scopes: pure functions of one
  request. One consequence is outside the model: a batch item with a
  `template_id` passes validation with empty content and fails the table's CHECK,
  which fails its whole batch; and batches ignore `scheduled_at`.
- Creating and reading templates, GET of single rows, lists of dead letters: one
  statement each, with no state to disagree with.
- Several notifications at once in the delivery path: rows share no lock, and the
  instances exceed what TLC can do in reasonable time. The proofs cover any number.
- Logging, metrics, tracing, configuration, wiring, the migrations runner.
