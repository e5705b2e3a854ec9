# AI4I core: a TLA+ verification project

The repository is a multi-tenant platform that serves AI inference (translation,
speech, LLMs) and bills it per use. This project keeps TLA+ models of the parts
where a wrong interleaving costs money, lets somebody in who should be out, or
loses an alert; the TLC configurations that check them on small instances; and
TLAPS proofs of the results that matter most. Paths below are relative to `src/`.

## 1. The system: inventory

| Component | State | Operations | What is hard | What makes it correct | Module |
|---|---|---|---|---|---|
| Billing consumer (`services/kafka-consumers/consumers/payperuse_consumer`, `bootstrap/consumers.py`) | Kafka group offset, chunk in memory, `budget_usage`, `quota_usage`, `usage_events`, Redis `ppu:billed:*` | fetch, fence, filter, dedup, debit, usage row, mark, push exhaustion flags, commit offset | crash between any two steps, rebalances inside and outside `consume()`, retries, an unacknowledged COMMIT, dedup key eviction | nothing is committed unsettled; each fault charges a bounded number of spans again; everything is settled in the end; exhaustion is reported | `PpuConsumer`, `PpuPricing` |
| Notification pipeline (`libs/ai4i_core/ai4i_core/kafka`) | ledger row, Redis copy, one L1 copy per pod | evaluate, read through, claim, reset, write through, publish | stale copies, fills racing writes, lost invalidations, two pods claiming, crash after the claim | one alert per band per incident; a breach is alerted in the end; a re-armed row fires again; no claim is silently dropped | `AlertIncident`, `BandAlerts` |
| Notification e-mail consumer (`consumers/notifications_consumer`) | Redis delivery claim, Kafka offset, failure rows | claim, send, record, commit | claim taken before the send, redelivery | an event is mailed or recorded as failed | `NotificationDelivery` |
| API keys (`services/auth-service/app/services/api_key_service.py`, `cache_service.py`) | key row, `cached_data`, Redis hash per key value | create, validate, rehydrate, tombstone, revoke, update, rotate, end/extend rotation, flag patches | a rehydrate racing a revoke, whole-snapshot writes racing flag patches, EXISTS then HSET | what Redis accepts the row accepts; no exhausted flag is lost; overspending ends | `ApiKeyLifecycle`, `ApiKeyFlags` |
| Budget allocation (`allocation_service.py`, `allocation_validator.py`, `budget_usage.py`, `application_service.py`) | ceilings of tenant, applications, keys; snapshot in platform-core | allocate, cascade, revise, create, deactivate, write through | two databases, row locks, two roundings | children never exceed the parent; the ledger follows | `AllocationRules`, `BudgetAllocation` |
| Tenants, users, roles (`tenant_service.py`, `tenant_lifecycle.py`, `user_service.py`, `role_service.py`) | tenant status, user flags, links, roles | provision, activate, suspend, remove, change contact and roles | check and commit apart, an advisory lock some requests do not take | a tenant keeps an administrator; nobody is stranded | `TenantUsers` |
| Sessions (`auth_service.py`, `token_service.py`, `oauth_service.py`) | refresh-token row, access tokens, logout stamp | login, refresh, logout, change and reset of the password | a refresh racing a logout, timestamps in seconds | ended sessions are over | `UserSessions` |
| Tiers (`services/platform-core-service/app/services/pay_per_use/tier_service.py`, `tier_redis.py`) | tier rows, assignments in two databases, Redis copy | create, status changes, assign, map | nothing is locked, pushes are lost | no tenant on a draft; copies converge | `TierCatalogue` |
| Quotas of a tier (`tier_service.py`) and STATE alerts (`emit_state_bulk`) | `tier_quotas`, ledger rows with a state hash | schedule, cancel, apply monthly; claim, find recipients, deliver to tenants and ADMIN | announcements in the background, repeats that look like duplicates, an unlocked row | whoever subscribed hears of the quota that will apply | `QuotaChanges` |
| Inference types (`inference_type_service.py`, `inference_type_cache.py`, `ppu/catalogue.py`) | table, two kinds of Redis key, client snapshot | create, rename, delete, rebuild, warm up, refresh | rebuilds out of order | quotas have a type; every copy converges | `InferenceTypes` |
| Model management (`services/model-management`) | model versions, services, process memory, price key | create, update, publish, delete, price | probe of an endpoint between read and commit, a price lookup racing an edit | an old price is accounted for; one Try-It default per task | `ModelRegistry` |
| Inference orchestration (`services/inference-service`) | per request: services tried, spans | resolve, gate, call, fall back, stream | partly answered payloads, streams that break, clients that leave | nobody is billed twice for one input; a success is named right and charged whole or not at all | `InferenceRouting` |
| Monitoring evaluator (`notification_management/monitoring_evaluator.py`) | tick lock | tick: query Prometheus, emit a batch | a tick that outlives its lock | overlapping ticks alert once | `BandAlerts` |
| Usage history (`services/pyjob`, `repositories/pay_per_use/metering_usage.py`) | `usage_events` partitions, `daily_usage` | maintain partitions, roll days up, backfill, undo, read | late events, overlapping runs, IST against UTC days, a check before many writes | no day is counted twice; a run catches up; rows lie in their day | `UsageRollup` |
| Usage report (`usage_report/scheduler.py`) | advisory lock | collect, mail | rerun after a crash | two runs never overlap | - |
| Metering, telemetry, policies, PII, preferences, notification catalogue | one database and a cache each | CRUD and reads | cache eviction | - | - |
| Web console, infrastructure, scripts, libraries for logging and tracing | - | - | - | - | - |

How they meet: a request is validated by auth-service against the Redis key entry
(`ApiKeyLifecycle`: is the value accepted; `ApiKeyFlags`: is it exhausted, which
tier); inference-service checks the tier against the service and serves it, with
fallbacks (`InferenceRouting`), and emits spans to Kafka; the billing consumer
prices them (`PpuPricing`), debits the key's budget and the tenant's quota in
platform-core's database (`PpuConsumer`), pushes `exhausted` flags back to
auth-service (`ApiKeyFlags`), and hands the new usage percentage to the
notification pipeline (`BandAlerts`), which publishes an event the e-mail consumer
mails (`NotificationDelivery`). The ceilings it debits against are written by budget
allocation (`BudgetAllocation`), tiers and types by platform-core's catalogues. The
usage rows it stores are rolled up every night for the dashboard (`UsageRollup`).

The hazards, each at its line with the properties that would catch it, are in
`PROJECT.json` under `hazards`.

## 2. Runs

Twelve runs, three of which expect a violation. Components that share no state are explored side by side in one run: a
variable `part`, chosen in the initial state, says which of them a behaviour is of.

| Run | Module | Question | Properties |
|---|---|---|---|
| `PpuDelivery` | `MCPpuConsumer` | Can crashes, lost partitions and failing calls commit past an unsettled span, and how often is a span charged twice? Do offsets, chunks and owner agree? | `CommittedIsSettled`, `OverchargeBounded`, `DeliveryInv` |
| `PpuLiveness` | `MCPpuConsumer` | Is everything settled, and exhaustion reported, in the end? | `EventuallySettled`, `ExhaustionReported` |
| `PpuDeadline` | `MCPpuConsumer` | Violation: what a comment says about an abandoned chunk | `AbandonedIsFetchedAgain` |
| `BandMonitoring` | `MCBandAlerts` | Alerts once per band and incident; refinement of `AlertIncident` | `AlertedOnce`, `LedgerInv`, `ImplementsIncident` |
| `BandLiveness` | `MCBandAlerts` | Is a lasting breach alerted, a quiet row re-armed? | `BreachAlerted`, `QuietRearms` |
| `MailDelivery` | `MCNotificationDelivery` | Duplicates and losses of mails, truth of the failure rows, progress | `DuplicatesBounded`, `LossBounded`, `RowsAreTrue`, `AllCommitted` |
| `Requests` | `MCRequests` | Flags that gate a request, where it goes, what it costs | `FlagsKept`, `TierNeverDropped`, `OverspendEnds`; `BilledByOne`, `SuccessIsBilled`, `ChainRespected`; `ChargeFollowsUsage` |
| `BudgetAllocation` | `MCBudgetAllocation` | Ceilings of a tenant, the values a key is accepted with, announced quotas | `ChildrenWithinParent`, `PercentFollowsAmount`, `LedgerFollows`; `EntryBacked`, `PreviousKeepsWorking`; `ScheduledIsTold` |
| `Accounts` | `MCAccounts` | Users of a tenant, sessions of an account, usage history | `RosterSurvives`, `NobodyStranded`; `EndedSessionsAreOver`, `OldPasswordRenewsNothing`, `TokensFollowAccount`; `NoDayCountedTwice`, `RunCatchesUp`, `RowsInTheirDay` |
| `Catalogue` | `MCCatalogue` | Tiers, inference types, models and services: references, copies, prices | `NeverOnDraft`, `CopiesConverge`; `QuotaHasType`, `CatalogueConverges`; `OldPriceIsKnown` |
| `NewPrice` | `MCCatalogue` | Violation: the next event pays the new price | `NextEventPaysNewPrice` |
| `TryItDefault` | `MCCatalogue` | Violation: two defaults of one task type | `OneDefaultPerTask` |

Every property of a passing run has a mutant in `PROJECT.json`: a plausible mistake
in the code it is about, under which TLC finds it violated. Many properties of the
auth-service and platform-core modules name the windows the code leaves open, in
their premises or through history variables (`tainted`, `slipped`, `disturbed`,
`late`, `cut`, `unstamped`, `behind`, `crossed`, `overtaken`): they say that nothing else goes wrong, and the windows
themselves are described with each module.

## 3. The billing consumer: `PpuPricing`, `PpuConsumer`

### Model and code

`PpuConsumer` has the replicas of the consumer group read one partition. A
replica's `pc` follows `main.run`: `poll` (inside `consume_batch`), `loop` (the
fence and the chunk deadline), `check` (`_prepare_billing_context`, with the Redis
dedup read), `bill` (the transaction of `_bill_usage`: debit, quota upsert, usage
row in a savepoint), `mark` (the dedup key), `notify` (`_post_billing`'s calls to
auth-service), `request` (`_record_request`), `commit` (`record_processed`). Every
`await` that leaves the process is a step of its own, so a crash, a fault of the
dependency or a step of another replica fits between any two. `owner`, `committed`
and `position` are the coordinator's and librdkafka's side.

A span is a record of the attributes the handler reads; its cost is computed by
`PpuPricing` from the service's price row, in exact integers (prices are scaled by
`unit_size` instead of divided). The "prices" part of `MCRequests` grows a request
token by token under every small price row.

Assumptions about what is outside the repository: librdkafka hands out no message
of a partition it knows it lost (the guard `owner = r` of `Collect`); messages
collected before a callback of the same `consume()` stay in the chunk; a crashed
member's partition is free at once (its session timeout only delays that); the
coordinator refuses the commit of a member it has timed out, which
`commit_stored` swallows. The chunk deadline is stamped before the loop, so the
first message of a chunk never meets it.

### Bounds and fairness

`PpuDelivery`: 2 replicas, 3 messages (a span produced twice, an untiered span
between), fetches of 2, so that the two replicas of a lost partition can hold two
different spans in common, 2 attempts, any three faults that touch delivery or a debit, among them two revocations (away
and back). `PpuLiveness`: one span per filter and a request between two charges that
exhaust a budget; a crash, a lost partition, a failed transaction, a failed
notice, a failed usage row (a notice and a row are made after the debit or beside it and
move no offset, so that `PpuDelivery` leaves them out). Two replicas are enough for every hand-over (from one, to another, and
back); a third would only repeat a role. Faults are bounded per kind by `MaxFaults`,
and in all by `MaxTogether`, three in `PpuDelivery`; every
window named by a property opens with one fault, so three show how windows add up.
The proofs hold for every `MaxFaults` and `MaxTogether`.

Fairness: weak fairness of each replica's own steps, including its restart (the
deployment restarts the container). No fault is ever owed, and no step of the
environment except assignment inside a poll is assumed.

### What the model shows about the code

- With a batch size above 1, messages abandoned at the chunk deadline are not
  fetched again, although the comment says they are (`PpuDeadline`). The default
  batch size is 1.
- A failed dedup read commits the span uncharged, although the log line says
  "proceeding without dedup"; with a batch size above 1 a lost partition can charge
  every remaining message of the chunk twice: the replica that was timed out works
  through its chunk, since `owns()` learns of the loss only inside `consume()`, while
  its successor reads the same messages in step with it. Both are admitted by the
  properties (an end the code allows, `BatchSize` charges per lost partition).

### Proofs (`PpuConsumerProofs`)

`DeliveryInvariant`: `Spec => []DeliveryInv`, and from it
`CommittedIsSettledAlways`: `Spec => []CommittedIsSettled`, for any log, any
replicas, batch size, number of attempts and fault budget. `CommittedIsSettled`
alone is not inductive: that the committed offset is safe to move depends on what
the replica has in hand and on what lies before it. `DeliveryInv` adds that a replica
past its fetch has a message in hand, that at `commit` that message is settled (and
at `mark` and `notify` charged), that a dedup key stands for a debit that was made,
and that every offset below a held message or below the fetch position is settled or
still held ahead of it in the same chunk. The proof has one lemma per group of
actions; the facts that make it go through are that settled stays settled
(`SettledStable`), that a step of one replica leaves the others' chunks alone, and
that advancing or collecting skips nothing. The assumptions are the named ASSUMEs of
`PpuConsumer` (types of the constants only). The type invariant is proved first
(`TypeCorrect`) and used by everything else.

`OverchargeBoundedAlways`: `Spec => []OverchargeBounded`, under the same assumptions.
Its invariant `RebillInv` weighs three sets against the faults (`DebtBounded`): the
debits made too often (`Overcharged`); the spans the owner may debit again because no
dedup key stops it (`Unguarded`); and the messages that replicas which were timed out
may still debit (`Stray`). A crash before the key is written, a key that is not
written or expires and an unacknowledged commit each let one span go. A lost partition
makes the rest of a chunk stray: one debit for each message, by the old replica or, where
it has debited the span and not yet marked it, by the new owner. Every debit beyond the
first uses one of these up. The proof also needs that a chunk holds at most `BatchSize`
messages and that the owner knows that it is one. It corrected the property: with one
debit per lost partition, as first stated, it holds for fetches of one message only,
and TLC finds a lost partition that charges two spans twice with fetches of two.

Pricing (`RequestProofs`, `PricesSpec`): `ChargeFollowsUsage`, for any price row, unit
size and number of tokens; prices and unit size are natural numbers or missing, nothing
else is assumed. Every charge is tokens times rates (`LlmTotalIs`, `CalculateCostIs`) and
no rate is negative, a missing one included (`RatesAreNat`). Monotony rests on the clamp
(`Clamped`): more input never shrinks the cached or the uncached part, and a larger cached
count only moves tokens to the cheaper rate. `UseNeverCheaper` and `HitNeverDearer` hold for
any larger usage, the theorem for the steps of the run.

Only model-checked: liveness, which is out of the prover's reach.

## 4. BAND alerts: `AlertIncident`, `BandAlerts`

### Model and code

`AlertIncident` is the promise for one (notification, tenant, subject): an
incident opens, climbs through bands and, for monitoring rows, closes again; each
band of an incident raises one alert, which stays pending until it is sent,
recorded as failed, or lost with the process that raised it.

`BandAlerts` is the code, for one ledger row and any number of pods. A pod's `pc`
follows `pipeline.emit_band_batch`: the read through `cache.read` (`idle`, the L1
lookup; `get`, Redis; `query`, the database; `install`, the answer becomes the L1
entry; `fill`, SET NX), `ledger.decide`, the guarded UPSERT `claim_band` or
`reset_band` (`claim`, `reset`, and `reread` when another pod was first), the write
through of `write_ledger` (`apply`, own L1; `set`, the Redis pipeline; `undo`, the
delete after a failed write) and the hand-over (`deliver`). Every step that waits
for Redis, the database or Kafka can fail, also after having been executed, and a
pod can die at any point.

Abstractions:

- `inc` is a ghost in the row and its copies: it numbers incidents, so that two
  copies that look alike but belong to different incidents differ.
- `age` is the time since `triggered_at`, up to the cooldown; `Tick` ages the row
  and all copies alike, since all compare the same timestamp with a clock.
- Pub/sub invalidations are not state. An L1 entry may go at any moment
  (`DropL1`: TTL, size bound, invalidation, resubscription), and a message that is
  lost, late, or overtaken by an `install` is one that does not make it go. What
  is shown therefore never relies on an invalidation arriving.
- A shielded batch that outlives its tick, and the next tick of the same process,
  are two pods here; they share an L1 in the code, which only makes copies fresher.
- Settings, subscriptions and recipients are fixed; failing to read them ends the
  evaluation where the code ends it. Several rows of one batch share no state.

### Bounds and fairness

Two pods are the two sides of every race (claim against claim, fill against write,
copy against reset); two moves of the value give breach - quiet - breach, or a climb
through both bands of `BandMonitoring`; one fault. `BandLiveness` has one band: its
state graph is searched for cycles. Usage rows, which never close (`Resets = FALSE`),
are covered by the proofs, which have no bounds.

Fairness: every pod's own steps (a monitoring tick comes every interval, usage is
billed again and again), the TTLs of L1 and Redis, and time. `QuietRearms` and
`BreachAlerted` need the TTLs: without the expiry of the Redis key a stale copy
could be decided on for ever, which is the mutant of `QuietRearms`.

### Proofs (`BandAlertsProofs`)

For any set of pods, any bands, cooldown and bounds, from the named ASSUMEs of
`BandAlerts` (types of the constants only):

- `BandTypes`: `Spec => []TypeOK`.
- `LedgerInvariant`: `Spec => []LedgerInv`.
- `NeverAlertedTwice`: `Spec => []AlertedOnce`.
- `CopiesNeverAhead`: `Spec => []CopyIsPast`.
- `IncidentImplemented`: `Spec => ImplementsIncident`, the refinement.

`AlertedOnce` is not inductive: that a won claim announces something new depends
on every alert that exists, sent or in hand, being one the row has already passed.
`LedgerInv` says so (`AlertsRaised`), adds that an alert is in one pair of hands
and out of them once sent (`AlertsApart`), and what a pod's position says about its
task (`TaskOK`: a claim has a band, a reset is of a row that resets). The argument
rests on an order on row states, `Precedes`: every step moves the row forward in it
(`RowMoves`), and a copy made by any step but the clock is an old copy or the new
row (`CopiesCome`), so copies stay behind. `StepEffect` sorts all steps into five
effects on the alerts (a claim won, a claim won unheard, a re-arming, a hand-over,
nothing), and both `AlertStep` and the refinement go by those five. Caches,
invalidations and stale decisions disappear at that point: they decide who tries,
never who wins.

Only model-checked: the two liveness properties.

## 5. The e-mail consumer: `NotificationDelivery`

One partition of the notification topic read by two replicas. `Begin`, `Claim`,
`ClaimFails` and `Skip` are `handle_notification_event` up to the Redis claim;
`Sent` is one recipient's `emailer.send` (confirmed, failed, or past its deadline
although the mail arrives), `Gathered` the outcome of the `gather`, `Record` the
failure row with `FailureLogger`'s throttle for failures without an event_id, and
`Commit` is `record_processed`. The group is coarser than in `PpuConsumer`: a
fetch takes up to `BatchSize` messages from the committed offset, which is where
the owner's fetch position is because every message is committed before the next;
messages collected before a revocation inside the same `consume()` are skipped by
the fence and so not taken. A replica that lost the partition goes on unknowingly.

`MailDelivery`: an event for two people published twice, with a malformed message
and one without id and channel between; fetches of 2; any three of the seven kinds of
fault (`MaxTogether`). A mail is sent again at most once per Redis failure or lost
key; at most one event per crash is lost; what reached nobody is reported, and nothing
else is; the partition is read to its end. Fairness is that of the billing consumer:
each replica's own steps and its restart.

The claim is taken before the mail is sent and is not released when the process dies,
so the redelivered event is skipped as already handled (`handler.py:106`) although it
was neither mailed nor recorded; the module's comment prefers a rare duplicate e-mail.
`LossBounded` admits one such event per crash.

Proofs (`NotificationProofs`). `DuplicatesBounded`, `LossBounded` and `RowsAreTrue` are
theorems for any log, replicas, batch size and fault budget, from the ASSUMEs of the
module (types of the constants). They follow from `DeliveryInv`, of which each part
carries one of them: `InOrder` (a chunk is consecutive, and what its owner has in hand
is the committed offset); `Covered` (mails sent and mails still outstanding of an event
are no more than the claims granted, which are one plus the failed and the expired
ones, less the one that is still to be had); `AdriftBounded` (the events the partition
has passed without a trace, and that nobody is working on, are no more than the
crashes); `OnceInv` (while claims work, one replica at a time handles an event, and
what it has sent or recorded says which). The first and the third count, so that
cardinalities of finite sets come in (`FiniteSetTheorems`). `AllCommitted` is liveness.

## 6. API keys: `ApiKeyLifecycle`, `ApiKeyFlags`

A key has a row in auth-service's database, with the snapshot `cached_data`, and one
Redis hash per accepted value. The two modules split the fields: `ApiKeyLifecycle` is
about which values are accepted (the row's `active`, value in use, previous value and
its deadline; per value the kind and deadline of the Redis entry), `ApiKeyFlags` about
the billing fields in the hash and in the snapshot of a key with one value. In both,
every `await` ends a step and a handler goes on with the copy of the row it read.

Bounds. Values (part "values" of `BudgetAllocation`): two administrative requests
(revoke, update, rotate, end, extend, change of the tenant's or application's status)
against any number of validations, three values, two days, a fault: two overlapping
requests and a validation are what every race in the code needs. Flags (part "flags"
of `Requests`): the consumer's push, two other requests, one fault. Fairness, for
`OverspendEnds`: the consumer pushes again after a billed request, and a started
request goes on.

What the models show:

- `_rehydrate_cache_from_db` and the refreshes of update, extend and resume write from
  a copy without another look: a key revoked meanwhile is served from Redis until the
  entry's TTL, although `api_key_service.py:7` says revocation immediately deletes the
  entry. `tainted` marks those entries; every other entry is backed by the row.
- Two racing rotations without a grace period leave the older value's entry; an
  application's deactivation evicts nothing, although `api_key_service.py:18` says it
  does; `_refresh_redis_cache` returning at a non-positive TTL leaves the old entry.
- A key whose snapshot is NULL is skipped by every push (`OverspendEnds` leaves it out);
  a push due across a top-up sets the flag again; EXISTS then HSET brings back an
  expired hash with one field and no TTL (`hash.kind = "partial"`).

Proofs of the values (`BudgetAllocationProofs`, `K!Spec`): `EntryBacked` and
`PreviousKeepsWorking`, for any number of requests at a time, values, days and faults.
`EntryBacked` speaks of the moments without an administrative request, and says nothing
about the way there. `LifeInv` does: of every payload that is not `tainted`, either it
fits the row (`Fits`: the row accepts the value until the entry ends) and key and tenant
are active or some request will still look at the status (`MindsStatus`), or some request
is going to delete, rewrite or disown it (`MindsEntry`). Each step keeps this: a commit
that moves the row makes its own request answerable for the entries concerned, a re-read
turns an answer for the status into a list of values to delete or write, and a write from
a current copy fits. This is where "commit first, then the entries" and each re-read of
`revoke_by_obj` and `rotate_by_obj` is used: without the re-read there is nobody to
answer. The subtle cases are a rotation committed between an update's read and commit
(the window is clamped from the copy), and a second rotation over the first one's old
value (`RotateReread` gives it up). `PreviousKeepsWorking` needs the types only: the six
steps that change the row are taken in turn, and the guard of `rotate` (value as it was
read, no live previous value) and of `end_rotation` (previous value as it was read) are
what makes each go through. The hypothesis `KeySettings` (two values and a day of life)
says that the initial states of the module exist.

Proofs of the flags (`RequestProofs`): `FlagsKept` and `TierNeverDropped`, for any number
of requests at a time, aborted ones and expiry included, from `FlagsAssumption`. In
`FlagsInv`, `Lockstep` says that while nothing was disturbed the snapshot is what was
last written, `CopiesCurrent` that a copy which will replace it whole is current, and
`Quiet` what the hash is at each place of a request that is alone (`Expected`), which
gives the second half of `FlagsKept`. `OverspendEnds` is liveness.

## 7. Budget allocation: `AllocationRules`, `BudgetAllocation`

`AllocationRules` has the pure part, in paise and hundredths of a percent: `HalfUp` and
`HalfEven` rounding, conversion between amount and percentage, `resolve_level` with its
error codes, and the recomputation of percentages nobody listed. `BudgetAllocation` has
the requests. One that locks its parent is one step; deactivation of an application and
resizing of a single key read before they lock and are several. After the commit come
the write-through to the ledger in the other database (`WriteSnapshot`) and the
exhausted flags (`SyncFlags`), each of which can fail. A revision of the tenant's budget
is followed by `_sync_ppu_wallet_and_exhaustion`, in two steps as in the code:
`WalletRead` fetches the usage and decides with the budget it was called with, and
`WalletExhaust` or `WalletClear` sets or lifts flags by what was read. The consumer's
debit (`Bill`) and its push of the flag are two steps as well: a key is in `owed` between
them, and the push can fail. A revision without an amount, which only moves the window,
is one of amount 0; whether the dates admit a request is left open.

Bounds: two applications, two keys of one of them, five requests two at a time, one
fault, one billed request (which reaches a key's ceiling); a budget of 5.01 rupees, whose half is not a whole number of
paise, or none, topped up by 2 rupees. An application is created with half the budget and
resized to 1.75 rupees, which is less than half of 5.01 and more than half of 2, so that a
resize shrinks, grows and is refused; a key asks for a rupee or for half. A level with two children shows the sums and the rounding; a third application
would only add another term.

What the model shows:

- A key created between the zeroing UPDATE of a deactivation and its commit keeps its
  ceiling, and funding committed after the deactivation's read survives it, although a
  comment in `application_service.py` says a reactivated application comes back with no
  allocation at all (`slipped`).
- `update_single_api_key_allocation` works on a stale copy (`behind`); deactivation
  locks keys before the application and allocation the other way round, so one of two
  becomes a deadlock victim; write-throughs of two requests can land in opposite order
  (`LedgerFollows` speaks of undisturbed ones).
- A key that reaches its ceiling while a revision of the tenant's budget is between
  reading the ledger and clearing flags loses the flag the consumer has just pushed,
  although the docstring of `_sync_ppu_wallet_and_exhaustion` says that "an
  individually-exhausted key keeps its flag untouched by this path". `LedgerFollows` drops
  a key whose flag is lifted so; the next billed request pushes the flag again.
- `revise_tenant_budget` says a window is only ever extended, but an active window can
  be shrunk; dates are not modelled beyond that.

Proofs (`BudgetAllocationProofs`): `LedgerFollows`, for any applications, keys, inputs,
charges and number of requests at a time, from `AllocationAssumption` (of the inputs it
says what the request schema validates: a type and a value that is not negative).
`settled` says that a key's write-through ended undisturbed; why the ledger then agrees
is in what the request held on its way. `LedgerInv` adds that a write-through that is
still clean for a key holds the ceiling of the row and the usage it has seen, and has
them in the ledger once past that step (`CleanInv`), and that nobody else is about to
write through a clean or a settled key (`Alone`): a second commit for the key takes it
out of the first request's `clean` and out of `settled`. What a revision has read is
treated alike: spending or another request between its reading and its clearing takes a key
out of `clean`, and a flag lifted from a key that is no longer clean takes it out of
`settled`; a key that stays settled and unflagged is below its ceiling or in `owed`. The
key's own history
(`KnownKeys`: usage and write-throughs only of keys that exist) closes the creation
case.

`ChildrenWithinParent` and `PercentFollowsAmount` are proved from the same assumption, with
`FitInv`. Beside the two properties, for the applications (`AppsGood`) and for the keys of
each of them (`KeysGood`), it says that a deactivated application holds no budget
(`InactiveReleased`), so that switching it on again adds nothing to the sum; that a
deactivation zeroes keys of its own application only (`ZeroesItsOwn`); and that budgets
and keys belong to applications that exist (`Founded`). A key in `behind` keeps a
percentage that says nothing of its amount, and its siblings' sum is not bounded until
another request rewrites it. A request that `resolve_level` accepted bounds the amounts it
leaves (`LevelAccepted`, `KeysLevel`); where percentages follow a new total, the child that
takes the residual is off by the roundings of all the others (`RecomputeNear`);
`create_api_key` sums stored percentages, and what those say of the amounts is `NearSum`
and `CommittedCovers`. Sums are over finite sets of children, from `FiniteSums`.

The proof corrected the two properties. They used to allow a paisa per child, which TLC
found true on its small budgets and which is false: in a budget of 1000.00, a FIXED key of
333.34 is stored as 33.33 %, the 66.67 % left let a FIXED key of 666.70 in, and the sum is
1000.04. The gate of `create_api_key` compares percentages, so its slack per key is a
hundredth of a percent of the budget as well as a paisa, and so it is in `KeysFit`. (For
applications, whose gate compares rupees, a paisa for each one ever created is enough. The
comment on `drift_tolerance` in `allocation_validator.py` puts the drift at "well under a
cent per independently-rounded row", which holds for amounts derived from percentages and
not for the percentages derived from amounts.)

## 8. Users and sessions: `TenantUsers`, `UserSessions`

`TenantUsers` is one tenant, the Default Organisation or an institution, its users and
their onboarding links. A request reads tenant and target, decides (`MayPromote`,
`MayDemote`, ...), may take the tenant's advisory lock and count the roster, and
commits an UPDATE of the columns that differ from its copy. Three users are an
administrator, a second one, and one who is neither; five requests, two at a time.

`UserSessions` is one account: passwords, the single refresh row, the access tokens out
in the world, the logout timestamp, in seconds. Four requests, three sessions, three
seconds and a lifetime of two, so that tokens of before, in and after the second of a
logout, and expired ones, all occur; one crash or Redis failure. The account (`account`)
and its tenant (`open`) are apart, because the ways to a token do not look at the same
things (`Admits`): login and refresh at both, a change of the password at the account only
(`get_current_user` asks for `is_active`), a sign-in with a provider at neither.

What the models show:

- The last administrator is only lost through a request that does not count:
  `/roles/remove` of a tenant administrator, suspension, or a demotion racing a change of
  contact (`slipped`). `set_password_with_token` can overwrite a concurrent DEACTIVATED
  of the tenant with ACTIVE; a suspended user is activated again by an old link.
- A refresh in flight over a logout mints a token that stays valid, as does one issued
  in the second of the logout; a login that checked the old password before a change
  gets a session after it (`late`); a change that dies before its own session is issued
  leaves the old refresh row (`cut`); two uses of one reset link at a time both succeed.
- A user of a suspended tenant with a live access token renews it by changing the
  password: `change_password` does not ask for the tenant, and the new token serves for
  the next change. `TokensFollowAccount` admits that way and no other.
- `NobodyStranded` is about `is_tenant_active`. Comments at `auth_service.py:398` and
  `tenant_service.py:2074` speak of an endpoint that clears the flag for one user;
  there is none at this commit. `PATCH /tenants/{t}/users/{u}/status` writes `is_active`
  (`update_tenant_user_status`; `schemas/tenant.py:298` and
  `tests/test_tenant_admin_tenant_flag_rbac.py` say that it no longer takes the other
  flag), and the only statements that write `is_tenant_active` of an existing row are the
  tenant-wide ones of `user_repository.py:116-154`.
- A sign-in with a provider looks neither at `is_active` nor at the tenant; the role
  routes set no logout timestamp, so tokens keep the old permissions (`unstamped`).

Proofs (`AccountsProofs`). `NobodyStranded` and the action property `RosterSurvives`
(`Spec` of `TenantUsers`), for any finite set of users and any number of requests at a time
(`TenantUsersAssumption`). `NobodyStranded` is inductive with the types; `RosterSurvives`
needs `CountIsCurrent`: the count a request made of the roster is current for as long as
it holds the tenant's lock, because every step either leaves the roster alone or lets it
grow, or is of the request that holds the lock, or sets `slipped`.
`EndedSessionsAreOver`, `OldPasswordRenewsNothing`, `TokensFollowAccount` (`S!Spec`), for any number of requests and any positive lifetime (`LifetimeIsPositive`). In `Inv`,
`Dated` orders the times of tokens, timestamps and the clock, `Ended` says what a
stamping request has still to cover, `Barred` and `Noticed` what a token may be that is
out while the account is not admitted, or after a change of roles.

## 9. Catalogues: `TierCatalogue`, `InferenceTypes`, `ModelRegistry`

Each is one table with its copies. `TierCatalogue`: status changes, assignment of
tenants (auth-service's database) and services, the pushed copy in Redis and its repair;
one tier and one tenant, five requests. `InferenceTypes`: create, rename, delete, the
`:all` key and the keys per name with rebuilds and warm-ups, a client's snapshot; two
types, three requests. `ModelRegistry`: versions of a model and services on them, probe
between read and commit, the memory of a process, the version keys and the consumer's
price key; one model, two services, three requests, from an empty catalogue and from one
in use. One fault each. Fairness, of the first two: a started request goes on,
TTLs expire, clients refresh; that a cache is right once it has expired says nothing of
the code that invalidates it, so `ModelRegistry` makes no such claim.

Rows that refer to an inference type are those of `tier_quotas` and of `quota_usage`,
which billing copies from the first (`RecordUsage`).

`OldPriceIsKnown`: when the price in the consumer's key is not that of the row, either the
edit that changed it is between its commit and its deletion of the key, or the service is
in `overtaken`: the key was filled by a lookup that had read the row before the change, or
the request died before the deletion, and nothing has deleted or filled the key since.
That needs the deletion to come after the commit and, as a comment in `update_service`
says, before the lookups that can still fail (the mutant moves it behind them).

What the models show:

- `update_service` clears other services' Try-It default by the task type it had before
  the update, so two services of one task type can be its default (`TryItDefault`).
- Two status changes at a time break "DELETED (terminal)" of `tier_service.py:44`, and
  an assignment racing a deactivation leaves a tenant or service on a dead tier;
  `NeverOnDraft` is what remains.
- A warm-up by name racing a rebuild leaves the name's key different from `:all` until
  its TTL; an emptied catalogue never reaches a client; a rename racing a new tier leaves
  a quota under the old name.
- A lookup of the consumer that has read the row before an edit and fills the key after
  `invalidate_pricing` keeps the old price for up to an hour, although the docstring says
  that it "takes effect on the very next billing event" (`NewPrice`, with one service and
  no fault). The foreign key
  keeps a model with any service row, although `delete_model` is documented as
  cascading; `update_service` has no check that a published service is immutable.

Proofs (`CatalogueProofs`). `NeverOnDraft`, for any tiers, tenants and requests: a tier
once published stays so, and a request that has looked one up and will assign it holds a
published one (`OnTheWay`). `QuotaHasType` (`T!Spec`), for any names, ids and requests:
ids are not reused (`IdsUnique`), an id that came from a Redis key or was looked up is
checked against the table by the foreign key in the statement that stores it, and so is a
deletion when it commits; the look for references, before it, is not repeated there.
`Absences` keeps the model values for a missing row and a missing key apart from rows.
`OldPriceIsKnown` (`M!Spec`), for any models, services, processes and requests: its
invariant adds what a request holds at each place, that the service of a request is one
that exists, and that a request past its commit which changed a price is in `Due` until it
has deleted the key; the hypothesis `NoRow` keeps "no row" apart from rows. The
convergence properties are liveness.

## 10. Inference orchestration: `InferenceRouting`

One request: a task (in groups, one call and one span each in mode per_item), a chat, a
stream or an upload, with the services it is allowed to fall back to. `info` says for
each service whether it resolves, is open to the tier, and so on; it is fixed, since a
request resolves a service once. `MaxFallbacks` bounds the chain. `spans` are the spans
billing reads, `charged` the groups whose span carries a count above zero, `report` the
request span. Two things decide over a count (`Meter`): `unit`, whether the unit type is
known (for a task, the catalogue answers; for a chat, the body has a `usage`), and
`empty`, the groups with nothing to count. `Requests` explores every request over three services, two fallbacks in
either order and three groups: fallback after nothing, after something, and twice.

What the model shows: a task served while the inference-type catalogue cannot be reached, and
a chat whose answer has no `usage`, succeed and are charged nothing, since `get_unit_type`
degrades to `unknown` and missing counts to 0; a payload that was answered in part stays billed although the
request fails; an answer a guardrail withholds is billed; a stream without
`include_usage` and uploads are not; a client that leaves in the middle of a stream
leaves spans without attributes (`traced_span` catches `Exception` only); a
misconfigured fallback ends a task with 502 but is skipped by the proxy.

Proofs (`RequestProofs`, `R!Spec`): `BilledByOne`, `SuccessIsBilled` and `ChainRespected`,
for any services, chain of fallbacks and number of groups. `SuccessIsBilled` says that a
success is charged for as a whole or, without a unit, not at all. `Underway` says what a request has billed before
its end: as many groups as were answered, all by the service it is at, and it goes on to
another only while that is none. `ChainRespected` says where in the requested service
and its chain (`Plan`) each call stands: positions grow, and they are the usable ones of a
first part of the plan. The invariant carries that part along with the request: a service
that is skipped is one that cannot be used, and the request fails with 503 and nothing
billed only past the last.

## 11. Usage history: `UsageRollup`

Time is in half days: the IST day `d` is the instants `2d` and `2d + 1`, and UTC days
begin one instant later, so rows before and after a UTC midnight lie in one IST day and
in two UTC months. `Store` is the consumer's insert, days late if it likes, routed to a
partition or to DEFAULT. A run of `daily_usage_consolidation` goes `Maintain` (one
transaction under the table lock) and then day by day `Aggregate` (snapshot, under the
advisory lock) and `Write` (upsert, sweep, commit), skips a day whose lock is taken,
passes over a step that fails, and can be killed. `BackfillStart` checks all days once,
`BackfillDay` writes one; `Undo` deletes them. `Shown` is the dashboard's choice between
`daily_usage` and `usage_events` for a day.

The sweep's `updated_at < now()` is "not written by this transaction": the lock
serialises the runs, and the moment between BEGIN and the lock is ignored. `unsorted`
(rows stored since the last maintenance) and `crossed` (days a run rolled up after the
midnight that followed its start) are history variables.

Bounds: two rows on the two sides of the UTC midnight in the first IST day, one of them
of the kind from before request rows existed; two runs of job or backfill; one failure;
three days and a half; a look-back of one day and months of two days, so that days
leave the reach of the job and months change.

What the model shows:

- The check of the backfill holds against the nightly job except for a run that
  outlives midnight, which can roll up a day the backfill has just accepted (`crossed`).
  The upsert keeps `source = 'backfill'` there, so a later undo deletes recorded usage.
- The undo's lock is a transaction's, so it fits between two days of a running backfill,
  although the docstring of `undo.py` says it cannot run alongside one.
- A skipped day is no error to the run, although rows stored after the holder's snapshot
  are picked up by neither; a late row stored between aggregation and commit makes the
  dashboard's figure drop until the next night, and rows later than the look-back are
  never rolled up (`RunCatchesUp` promises what was stored when the run began).

Proofs (`AccountsProofs`, `U!Spec`): `RowsInTheirDay` and `NoDayCountedTwice`, for any
rows, settings and number of runs at a time (`RollupSettings`: times and settings are
natural numbers). `PartitionsInv` says that the partitions are those of the migration or
IST days (`OldOrDays`) and that every row is in one of them or in DEFAULT (`Routed`).
`HistoryInv` is about distance: a run started today or before works from its first day
on (`RunsInReach`), estimates are of days no run started today can reach
(`EstimatesOutOfReach`), and of the days a backfill still has before it none was
recorded but by a run from before midnight (`LoadInv`).

`RunCatchesUp` needs in addition a finite set of groups. It compares what the dashboard
shows for a day with the rows stored when a run began, and a day is written by more than
one run, each from a snapshot of its own. `CatchUpInv` says that the days a run has behind
it stand in `daily_usage` as it found them or better (`RunsCaught`), and keeps that true
under the writes of others: what a run is about to write covers the rows its own run began
with and those of every run that has the day behind it (`PendingCovers`). That holds
because the snapshot is taken under the lock, after any earlier run has passed the day, and
only one run at a time is between snapshot and write (`OneWriter`). What an upsert
aggregates by key is at least the figures of the rows aggregated (`AddedCovers`), from
`FiniteSums`.

## 12. Quotas and their announcement: `QuotaChanges`

One row of `tier_quotas`, what is announced about it, and to whom. A request reads the
row and later commits the columns that differ from its copy (`EditCommit`,
`CancelCommit`, `CronCommit`); nothing locks the row. An edit that changes what is
scheduled goes on in the background as an announcement: `Lookup` (tenants, settings,
subscriptions, and the effective date), `Claim` (one statement for all tenants, which
wins where the fingerprint in the ledger differs), `Recipients`, and one `Deliver` for
each tenant and for the platform's ADMIN. Every step can fail with its failure row, and
the process can die; `missed` holds what was lost so.

Bounds (part "quotas" of `BudgetAllocation`): two quotas, two tenants and ADMIN, any of
them subscribed; three requests, two at a time; two months; one failure. An edit, its
cancellation and the same edit again, in the same month or the next, is the shortest
history in which an announcement could pass for a duplicate of another. `since` records
when the pending quota was announced, and whether undisturbed.

What the model shows:

- An edit committed between the read and the commit of the monthly job is lost, and a
  quota cancelled there is applied all the same.
- Taking a change back, by cancelling it or by setting the present quota, is never
  announced; scheduled again in the same month, it is a duplicate of what was said.
- Two announcements at a time can be delivered in the opposite order of their claims,
  and the repeat of the one delivered first is dropped as a duplicate. One that runs
  past the end of the month names a date too late; so does every edit between the
  beginning of a month and its job. A body with a quota and its cancellation announces
  the quota it cancels.

Proofs (`BudgetAllocationProofs`, `Q!Spec`): `ScheduledIsTold`, for any tenants, quotas and
number of requests and months. That a dropped repeat was said before is no property of
one announcement. `QuotaInv` says that while `since` is sound at most one announcement is
under way (`OneVoice`), that it says what the row says (`SaysSo`), and that everybody it
does not have to serve any more has heard that, or has a failure row (`OthersHeard`); a
claim is lost only where the fingerprint in the ledger is that of the same words. The
hypothesis `NoNewsIsNone` keeps the model value for "nothing yet" out of the announcements.

## 13. What is proved, what is not, and the next steps

Eight modules hold proofs, seven about components and one about sums, each for every
value of the constants:

| Module | Extends | Theorems that state properties of runs |
|---|---|---|
| `PpuConsumerProofs` | `PpuConsumer` | `CommittedIsSettled`, `DeliveryInv`, `OverchargeBounded` |
| `BandAlertsProofs` | `BandAlerts` | `AlertedOnce`, `LedgerInv`, `ImplementsIncident` |
| `NotificationProofs` | `NotificationDelivery` | `DuplicatesBounded`, `LossBounded`, `RowsAreTrue` |
| `RequestProofs` | `MCRequests` | `FlagsKept`, `TierNeverDropped`; `BilledByOne`, `SuccessIsBilled`, `ChainRespected`; `ChargeFollowsUsage` |
| `BudgetAllocationProofs` | `MCBudgetAllocation` | `LedgerFollows`, `ChildrenWithinParent`, `PercentFollowsAmount`; `EntryBacked`, `PreviousKeepsWorking`; `ScheduledIsTold` |
| `AccountsProofs` | `MCAccounts` | `NobodyStranded`, `RosterSurvives`; `EndedSessionsAreOver`, `OldPasswordRenewsNothing`, `TokensFollowAccount`; `RowsInTheirDay`, `NoDayCountedTwice`, `RunCatchesUp` |
| `CatalogueProofs` | `MCCatalogue` | `NeverOnDraft`; `QuotaHasType`; `OldPriceIsKnown` |
| `FiniteSums` | - | lemmas on sums over finite sets, used by `BudgetAllocationProofs` and `AccountsProofs` |

`FiniteSums` is about `SumOver`, the sum of the community modules that the models' `Total`
is. The provers cannot use the induction theorems of the library, which take an operator as a parameter.
The lemmas are proved from a smallest counterexample instead (`SmallestSet`): of the
subsets for which a statement fails there is one that contains no other, and without one
of its elements the statement holds.

Where a run explores several components side by side, the MC module instantiates them
under a letter and gives their properties the names the run checks. The proofs extend that
module so that a theorem and a run speak of the same definition; they use neither its
bounds nor its `part`: the theorem is about `K!Spec`, the component's own specification.
Settings that such a component needs are hypotheses of its theorems, since an ASSUME of
an instantiated module is not evaluated by TLC.

Each inductive invariant was also checked by TLC on the small instance of its run, with days
in a finite range. Several were found that way: `Covered` had to count a mail per event and not
per message (`mailed` is indexed by the event for that reason), and `MindsEntry` had to
tell a rotation that finds its old value replaced from one that finds its window closed. The
bound of `OverchargeBounded` had to count a lost partition once per message of a chunk, and
that of the two allocation properties the rounding of percentages (section 7), which the
small budgets of the run do not tell from none.

With TLC only:

- liveness (`EventuallySettled`, `ExhaustionReported`, `BreachAlerted`, `QuietRearms`,
  `AllCommitted`, `OverspendEnds` and the convergence properties), which is out of the
  prover's reach;
- the three runs that expect a violation, which show a counterexample.

Next:

1. Composition of `PpuConsumer` with `ApiKeyFlags`: the consumer's push is an input of
   the second, and whether a key is served decides whether the first gets another span.
2. The settings cache with its fill lock and back-off, the lock and send log of the
   usage report.

## 14. Not modelled

The components of section 1 without a module, each with its reason in `PROJECT.json`.
Most of the repository's lines are of a kind a model says nothing about: request and
response schemas, SQL reads and their shaping for the dashboard, CRUD without a second
copy, the web console, Prometheus and OpenSearch queries, rendering of configuration,
logging and tracing, migrations.

Within the modelled components: the settings and subscription caches of the
notification pipeline; `emit_state`; grouped envelopes; the broker refusing a record
after `send()` has returned (the errback only logs); templates and SMTP; SQL beyond its
WHERE clauses and locks; the five-minute memo of unknown inference types; effective
dates of budgets; the bulk update of endpoints; the exchange with OAuth providers; tensor
mapping and token counting; `monthly_partition_rollover`, which does to the months of
`daily_usage` what `Maintain` does to days. The modules are not composed: what one
hands to the next (a span, a flag, a percentage, an event, a usage row) is an input the
next one takes at any time.
