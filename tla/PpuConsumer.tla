------------------------------ MODULE PpuConsumer ------------------------------
(***************************************************************************)
(* The pay-per-use billing consumer: services/kafka-consumers,             *)
(* consumers/payperuse_consumer (loop, handler, billing writes) on top of  *)
(* bootstrap/consumers.py (ManagedConsumer), for one partition of the span *)
(* topic read by the replicas of one consumer group.                       *)
(*                                                                         *)
(* A replica fetches a chunk of messages and takes them one at a time:     *)
(*                                                                         *)
(*   poll -> loop -> check -> bill -> mark -> notify -> commit -> loop ... *)
(*                        \-> request ----------------/                    *)
(*                                                                         *)
(* check is the Redis dedup read, bill the database transaction, mark the  *)
(* Redis dedup write, notify the call to auth-service and commit the       *)
(* offset store + commit.  Between any two of them the process can die, a  *)
(* dependency can fail, or the broker can hand the partition to another    *)
(* replica.  One partition is enough: offsets, ownership and order are all *)
(* per partition, and dedup keys are never shared across partitions.       *)
(***************************************************************************)
EXTENDS PpuPricing, Sequences, FiniteSets, FiniteSetsExt

CONSTANTS
  Replicas,      \* consumer processes of the group
  NoReplica,     \* the partition is assigned to nobody
  Log,           \* the partition: a sequence of spans, all produced already
  Pricing,       \* mm_services: service -> ServicePricing; no entry = no pricing row
  Catalogue,     \* inference_types: the task types that resolve to an id
  BudgetSnap,    \* budget_usage: api key -> ceiling, or Unlimited (NULL snap)
  TierQuota,     \* tier_quotas: <<tier, task type>> -> monthly quota
  BatchSize,     \* KAFKA_BATCH_SIZE
  MaxAttempts,   \* Constants.MAX_ATTEMPTS
  MaxFaults,     \* bound: how often each kind of fault may happen
  MaxTogether    \* bound: how many faults may happen in all

\* Distinguished values of span attributes and of the snapshot column.
NoId == "no-correlation-id"
NoKey == "no-api-key"
NoTier == "no-tier"
NoType == ""
Unlimited == -1

Offsets == 1..Len(Log)
Ids == {Log[o].id : o \in Offsets}
Tenants == {Log[o].tenant : o \in Offsets}
Keys == DOMAIN BudgetSnap
QuotaRows == Tenants \X DOMAIN TierQuota
RowKeys == {Log[o].row : o \in Offsets}
TaskTypes == {Pricing[s].task_type : s \in DOMAIN Pricing}
Flags == ({"budget"} \X Keys) \union ({"quota"} \X Tenants \X TaskTypes)

\* crash: process death.  lost: session or poll-interval timeout.  revoke: orderly
\* rebalance.  stop: SIGTERM.  slow: chunk deadline passed.  check, set: Redis
\* errors of the dedup read and write.  expire: dedup key gone (TTL or LRU).
\* db: transaction rolled back.  ambiguous: COMMIT applied, acknowledgement lost.
\* row: usage_events savepoint rolled back.  notify: auth-service call given up.
FaultKinds == {"crash", "lost", "revoke", "stop", "slow", "check", "set", "expire",
               "db", "ambiguous", "row", "notify"}

Spans == [kind: {"inference", "request", "other"}, id: STRING, auth: STRING,
          key: STRING, tenant: STRING, tier: STRING, service: STRING,
          input: Nat, cached: Int, output: Nat, row: STRING, counted: BOOLEAN]

ASSUME ReplicasAssumption == NoReplica \notin Replicas
ASSUME LogAssumption == Log \in Seq(Spans)
ASSUME PricingAssumption == Pricing \in [DOMAIN Pricing -> Pricings(STRING)]
ASSUME BudgetAssumption == BudgetSnap \in [DOMAIN BudgetSnap -> Nat \union {Unlimited}]
ASSUME QuotaAssumption == TierQuota \in [DOMAIN TierQuota -> Nat]
ASSUME BatchAssumption == BatchSize \in Nat \ {0}
ASSUME AttemptsAssumption == MaxAttempts \in Nat \ {0}
ASSUME FaultsAssumption == MaxFaults \in [FaultKinds -> Nat] /\ MaxTogether \in Nat

VARIABLES
  \* The broker's group coordinator.
  owner,        \* which replica the partition is assigned to
  committed,    \* the group's committed offset: the next message to read
  \* Each replica.
  pc,           \* where its loop stands
  assigned,     \* ManagedConsumer._assigned holds the partition
  position,     \* librdkafka's fetch position
  chunk,        \* the messages consume() handed over, as offsets
  next,         \* index of the message in hand
  attempt,      \* attempts of the message in hand
  due,          \* flags the billed message obliges it to push to auth-service
  \* The platform-core database.
  charged,      \* how often each span was debited
  used,         \* budget_usage.api_key_budget_used
  quotaUsed,    \* quota_usage.monthly_quota_used
  rows,         \* usage_events keys present
  \* Redis.
  billed,       \* ppu:billed:* keys present
  flags,        \* the exhausted flags auth-service set on our request
  \* The operator's view.
  dropped,      \* offsets given up on with a CRITICAL line
  faults        \* how often each kind of fault has happened

broker   == <<owner, committed>>
control  == <<assigned, position, chunk, next, attempt, due>>
database == <<charged, used, quotaUsed, rows>>
redis    == <<billed, flags>>
vars == <<broker, pc, control, database, redis, dropped, faults>>

PCs == {"down", "poll", "loop", "check", "request", "bill", "mark", "notify", "commit"}

TypeOK ==
  /\ owner \in Replicas \union {NoReplica}
  /\ committed \in 1..(Len(Log) + 1)
  /\ pc \in [Replicas -> PCs]
  /\ assigned \in [Replicas -> BOOLEAN]
  /\ position \in [Replicas -> 1..(Len(Log) + 1)]
  /\ chunk \in [Replicas -> Seq(Offsets)]
  /\ next \in [Replicas -> Nat \ {0}]
  /\ attempt \in [Replicas -> 1..MaxAttempts]
  /\ due \in [Replicas -> SUBSET Flags]
  /\ charged \in [Ids -> Nat]
  /\ used \in [Keys -> Nat]
  /\ quotaUsed \in [QuotaRows -> Nat]
  /\ rows \subseteq RowKeys
  /\ billed \subseteq Ids
  /\ flags \subseteq Flags
  /\ dropped \subseteq Offsets
  /\ faults \in [FaultKinds -> Nat]

Init ==
  /\ owner = NoReplica
  /\ committed = 1
  /\ pc = [r \in Replicas |-> "down"]
  /\ assigned = [r \in Replicas |-> FALSE]
  /\ position = [r \in Replicas |-> 1]
  /\ chunk = [r \in Replicas |-> <<>>]
  /\ next = [r \in Replicas |-> 1]
  /\ attempt = [r \in Replicas |-> 1]
  /\ due = [r \in Replicas |-> {}]
  /\ charged = [i \in Ids |-> 0]
  /\ used = [k \in Keys |-> 0]
  /\ quotaUsed = [q \in QuotaRows |-> 0]
  /\ rows = {}
  /\ billed = {}
  /\ flags = {}
  /\ dropped = {}
  /\ faults = [f \in FaultKinds |-> 0]

-------------------------------------------------------------------------------
(* Spans: the conditions of the handler, as predicates on the message.       *)

\* The message replica r has in hand.
InHand(r) == chunk[r][next[r]]
Span(r) == Log[InHand(r)]

\* _prepare_billing_context's attribute filters (an absent authType is billed).
Eligible(m) ==
  /\ m.auth \in {"", "api_key"}
  /\ m.tenant # "" /\ m.service # "" /\ m.input + m.output > 0

\* _bill_usage skips a span whose service has no pricing row or that costs nothing.
Cost(m) ==
  IF m.service \in DOMAIN Pricing
  THEN SpanCost(m.input, m.cached, m.output, Pricing[m.service])
  ELSE 0

\* A span the handler is meant to charge for.
Billable(m) == m.kind = "inference" /\ m.id # NoId /\ Eligible(m) /\ Cost(m) > 0

\* _record_request's filters: an API-key request to a counted path, fields present.
Countable(m) == m.kind = "request" /\ m.auth = "api_key" /\ m.counted

TaskType(m) == Pricing[m.service].task_type
Units(m) == BilledUnits(m.input, m.output, Pricing[m.service])
QuotaRow(m) == <<m.tenant, <<m.tier, TaskType(m)>>>>

\* The quota upsert selects a row: tier, id and tier_quotas entry all exist.
QuotaRecorded(m) ==
  m.tier # NoTier /\ TaskType(m) \in Catalogue /\ <<m.tier, TaskType(m)>> \in DOMAIN TierQuota

-------------------------------------------------------------------------------
(* Faults.                                                                   *)

FaultsSoFar == Cardinality(UNION {{f} \X (1..faults[f]) : f \in FaultKinds})

Fault(k) ==
  /\ faults[k] < MaxFaults[k]
  /\ FaultsSoFar < MaxTogether
  /\ faults' = [faults EXCEPT ![k] = @ + 1]

NoFault == UNCHANGED faults

Goto(r, label) == pc' = [pc EXCEPT ![r] = label]

-------------------------------------------------------------------------------
(* The life of a replica, and the group.                                     *)

\* run(): the process starts, subscribes and makes its first consume() call.
Start(r) ==
  /\ pc[r] = "down"
  /\ Goto(r, "poll")
  /\ NoFault
  /\ UNCHANGED <<broker, control, database, redis, dropped>>

\* Mistake: the process ends without leaving the group.
LeaveUnclosed(r) ==
  /\ Goto(r, "down")
  /\ assigned' = [assigned EXCEPT ![r] = FALSE]
  /\ chunk' = [chunk EXCEPT ![r] = <<>>]
  /\ next' = [next EXCEPT ![r] = 1]
  /\ attempt' = [attempt EXCEPT ![r] = 1]
  /\ due' = [due EXCEPT ![r] = {}]
  /\ UNCHANGED <<broker, position, database, redis, dropped>>

\* What a process loses when it ends; the coordinator frees its partition.
Leave(r) ==
  /\ Goto(r, "down")
  /\ owner' = IF owner = r THEN NoReplica ELSE owner
  /\ assigned' = [assigned EXCEPT ![r] = FALSE]
  /\ chunk' = [chunk EXCEPT ![r] = <<>>]
  /\ next' = [next EXCEPT ![r] = 1]
  /\ attempt' = [attempt EXCEPT ![r] = 1]
  /\ due' = [due EXCEPT ![r] = {}]
  /\ UNCHANGED <<committed, position, database, redis, dropped>>

\* The process dies between any two steps: a kill, a fatal Kafka error, or any
\* commit error that commit_stored re-raises.
Crash(r) == pc[r] # "down" /\ Fault("crash") /\ Leave(r)

\* SIGTERM is noticed only at the top of the while loop; close() commits nothing.
Stop(r) == pc[r] = "poll" /\ chunk[r] = <<>> /\ Fault("stop") /\ Leave(r)

\* The coordinator times the member out.  The replica does not know yet: its
\* callbacks run only inside its next consume().
TimeOut(r) ==
  /\ owner = r
  /\ Fault("lost")
  /\ owner' = NoReplica
  /\ UNCHANGED <<committed, pc, control, database, redis, dropped>>

\* consume() has not yet returned: rebalance callbacks and messages interleave.
Consuming(r) == pc[r] = "poll" /\ Len(chunk[r]) < BatchSize

\* Mistake: a partition that comes back is resumed where this replica left it.
OnAssignResume(r) ==
  /\ Consuming(r) /\ ~assigned[r] /\ owner = NoReplica
  /\ owner' = r
  /\ assigned' = [assigned EXCEPT ![r] = TRUE]
  /\ NoFault
  /\ UNCHANGED <<committed, pc, position, chunk, next, attempt, due, database, redis, dropped>>

\* on_assign: fetching resumes at the group's committed offset.
OnAssign(r) ==
  /\ Consuming(r) /\ ~assigned[r] /\ owner = NoReplica
  /\ owner' = r
  /\ assigned' = [assigned EXCEPT ![r] = TRUE]
  /\ position' = [position EXCEPT ![r] = committed]
  /\ NoFault
  /\ UNCHANGED <<committed, pc, chunk, next, attempt, due, database, redis, dropped>>

\* on_revoke: an orderly hand-over.  Messages already collected stay in the chunk.
OnRevoke(r) ==
  /\ Consuming(r) /\ assigned[r] /\ owner = r
  /\ Fault("revoke")
  /\ owner' = NoReplica
  /\ assigned' = [assigned EXCEPT ![r] = FALSE]
  /\ UNCHANGED <<committed, pc, position, chunk, next, attempt, due, database, redis, dropped>>

\* on_lost: the replica learns that it had been timed out.
OnLost(r) ==
  /\ Consuming(r) /\ assigned[r] /\ owner # r
  /\ assigned' = [assigned EXCEPT ![r] = FALSE]
  /\ NoFault
  /\ UNCHANGED <<broker, pc, position, chunk, next, attempt, due, database, redis, dropped>>

\* librdkafka hands one message over and moves the fetch position past it.
Collect(r) ==
  /\ Consuming(r) /\ assigned[r] /\ owner = r
  /\ position[r] <= Len(Log)
  /\ chunk' = [chunk EXCEPT ![r] = Append(@, position[r])]
  /\ position' = [position EXCEPT ![r] = @ + 1]
  /\ NoFault
  /\ UNCHANGED <<broker, pc, assigned, next, attempt, due, database, redis, dropped>>

\* consume_batch returns what it collected; an empty list is just another poll.
Return(r) ==
  /\ pc[r] = "poll"
  /\ Goto(r, IF chunk[r] = <<>> THEN "poll" ELSE "loop")
  /\ next' = [next EXCEPT ![r] = 1]
  /\ NoFault
  /\ UNCHANGED <<broker, assigned, position, chunk, attempt, due, database, redis, dropped>>

-------------------------------------------------------------------------------
(* The loop over the chunk.                                                  *)

\* Go on to the next message of the chunk, or back to consume() after the last.
Advance(r) ==
  IF next[r] < Len(chunk[r])
  THEN Goto(r, "loop") /\ next' = [next EXCEPT ![r] = @ + 1] /\ UNCHANGED chunk
  ELSE /\ Goto(r, "poll")
       /\ next' = [next EXCEPT ![r] = 1]
       /\ chunk' = [chunk EXCEPT ![r] = <<>>]

\* The fence: a message of a revoked partition is passed over, not processed.
SkipRevoked(r) ==
  /\ pc[r] = "loop" /\ ~assigned[r]
  /\ Advance(r)
  /\ NoFault
  /\ UNCHANGED <<broker, assigned, position, attempt, due, database, redis, dropped>>

\* The chunk deadline: give the rest of the chunk up.  It is stamped right before
\* the loop, so the first message never sees it pass.
AbandonChunk(r) ==
  /\ pc[r] = "loop" /\ assigned[r] /\ next[r] > 1
  /\ Fault("slow")
  /\ Goto(r, "poll")
  /\ next' = [next EXCEPT ![r] = 1]
  /\ chunk' = [chunk EXCEPT ![r] = <<>>]
  /\ UNCHANGED <<broker, assigned, position, attempt, due, database, redis, dropped>>

\* _handle_with_retry makes its first attempt.
Begin(r) ==
  /\ pc[r] = "loop" /\ assigned[r]
  /\ Goto(r, "check")
  /\ attempt' = [attempt EXCEPT ![r] = 1]
  /\ NoFault
  /\ UNCHANGED <<broker, assigned, position, chunk, next, due, database, redis, dropped>>

\* Mistake: a message is given up on without a word.
HandlerRaisedSilently(r) ==
  /\ IF attempt[r] < MaxAttempts
     THEN Goto(r, "check") /\ attempt' = [attempt EXCEPT ![r] = @ + 1]
     ELSE Goto(r, "commit") /\ UNCHANGED attempt
  /\ UNCHANGED dropped

\* The handler raised: try the message in hand again, or drop it after MaxAttempts.
HandlerRaised(r) ==
  IF attempt[r] < MaxAttempts
  THEN /\ Goto(r, "check")
       /\ attempt' = [attempt EXCEPT ![r] = @ + 1]
       /\ UNCHANGED dropped
  ELSE /\ Goto(r, "commit")
       /\ dropped' = dropped \union {InHand(r)}
       /\ UNCHANGED attempt

-------------------------------------------------------------------------------
(* handle_ppu_usage.                                                         *)

Dispatch(r, label) ==
  /\ Goto(r, label)
  /\ UNCHANGED <<broker, control, database, redis, dropped>>

\* _get_billing_data: not JSON, empty, or a span nobody bills.
IgnoreSpan(r) ==
  /\ pc[r] = "check"
  /\ Span(r).kind = "other" \/ (Span(r).kind = "request" /\ ~Countable(Span(r)))
  /\ NoFault
  /\ Dispatch(r, "commit")

CountRequest(r) ==
  /\ pc[r] = "check" /\ Countable(Span(r))
  /\ NoFault
  /\ Dispatch(r, "request")

\* _prepare_billing_context: no correlation id, or the dedup read says billed, or
\* the attributes say not to bill, end the handler; anything else goes to billing.
CheckBilled(r) ==
  LET m == Span(r)
  IN /\ pc[r] = "check" /\ m.kind = "inference"
     /\ NoFault
     /\ Dispatch(r, IF m.id # NoId /\ m.id \notin billed /\ Eligible(m) THEN "bill" ELSE "commit")

\* The dedup read fails: _is_already_billed answers None and the caller returns.
CheckFails(r) ==
  /\ pc[r] = "check" /\ Span(r).kind = "inference" /\ Span(r).id # NoId
  /\ Fault("check")
  /\ Dispatch(r, "commit")

\* deduct_balance_and_update_quota: the span's debit, applied when the
\* transaction commits.
Debit(m) ==
  /\ charged' = [charged EXCEPT ![m.id] = @ + 1]
  /\ used' = IF m.key \in Keys THEN [used EXCEPT ![m.key] = @ + Cost(m)] ELSE used
  /\ quotaUsed' = IF QuotaRecorded(m)
                  THEN [quotaUsed EXCEPT ![QuotaRow(m)] = @ + Units(m)]
                  ELSE quotaUsed

\* record_usage_event: ON CONFLICT DO NOTHING, and a failed insert is rolled back
\* to its savepoint without failing the transaction around it.
RecordUsageEvent(m) ==
  \/ rows' = rows \union {m.row} /\ NoFault
  \/ Fault("row") /\ UNCHANGED rows

\* Mistake: the ceiling itself still counts as within budget.
WalletOverdrawn(m, after) ==
  /\ m.tier # NoTier
  /\ m.key \in Keys
  /\ BudgetSnap[m.key] # Unlimited
  /\ after[m.key] > BudgetSnap[m.key]

\* write.budget_exhausted, forced to False for a span without a tier.
WalletExhausted(m, after) ==
  /\ m.tier # NoTier
  /\ m.key \in Keys
  /\ BudgetSnap[m.key] # Unlimited
  /\ after[m.key] >= BudgetSnap[m.key]

\* No tier: exhausted.  No task type or no catalogue id: fail open.  No quota row
\* for the tier: not entitled, so exhausted.
QuotaExhausted(m, after) ==
  \/ m.tier = NoTier
  \/ /\ TaskType(m) # NoType /\ TaskType(m) \in Catalogue
     /\ QuotaRecorded(m) => after[QuotaRow(m)] >= TierQuota[QuotaRow(m)[2]]

\* What _post_billing will push for this outcome.
FlagsDue(m, usedAfter, quotaAfter) ==
  (IF WalletExhausted(m, usedAfter) THEN {<<"budget", m.key>>} ELSE {})
  \union (IF QuotaExhausted(m, quotaAfter) THEN {<<"quota", m.tenant, TaskType(m)>>} ELSE {})

BillCommits(r) ==
  /\ pc[r] = "bill" /\ Cost(Span(r)) > 0
  /\ Debit(Span(r))
  /\ RecordUsageEvent(Span(r))
  /\ due' = [due EXCEPT ![r] = FlagsDue(Span(r), used', quotaUsed')]
  /\ Goto(r, "mark")
  /\ UNCHANGED <<broker, assigned, position, chunk, next, attempt, redis, dropped>>

BillSkips(r) ==
  /\ pc[r] = "bill" /\ Cost(Span(r)) = 0
  /\ NoFault
  /\ Dispatch(r, "commit")

\* Pricing lookup, write or commit raises; session_scope rolled back.
BillFails(r) ==
  /\ pc[r] = "bill"
  /\ Fault("db")
  /\ HandlerRaised(r)
  /\ UNCHANGED <<broker, assigned, position, chunk, next, due, database, redis>>

\* The commit landed but its answer did not: it raises all the same.
BillAmbiguous(r) ==
  /\ pc[r] = "bill" /\ Cost(Span(r)) > 0
  /\ Fault("ambiguous")
  /\ Debit(Span(r))
  /\ rows' = rows \union {Span(r).row}
  /\ HandlerRaised(r)
  /\ UNCHANGED <<broker, assigned, position, chunk, next, due, redis>>

\* Mistake: the dedup key is written only when the span is known to be billed.
MarkNothing(r) ==
  /\ pc[r] = "mark"
  /\ NoFault
  /\ Goto(r, "notify")
  /\ UNCHANGED <<broker, control, database, redis, dropped>>

\* _update_billing_on_cache; a Redis error is swallowed.
MarkBilled(r) ==
  /\ pc[r] = "mark"
  /\ \/ billed' = billed \union {Span(r).id} /\ NoFault
     \/ Fault("set") /\ UNCHANGED billed
  /\ Goto(r, "notify")
  /\ UNCHANGED <<broker, control, database, flags, dropped>>

\* _post_billing: each due flag is one _notify_auth call.  A call that is given up
\* on may still have landed, so a failure leaves any part of the flags set.
NotifyAuth(r) ==
  /\ pc[r] = "notify"
  /\ \/ flags' = flags \union due[r] /\ NoFault
     \/ /\ due[r] # {} /\ Fault("notify")
        /\ \E landed \in SUBSET due[r] : flags' = flags \union landed
  /\ due' = [due EXCEPT ![r] = {}]
  /\ Goto(r, "commit")
  /\ UNCHANGED <<broker, assigned, position, chunk, next, attempt, database, billed, dropped>>

\* _record_request: a zero-cost row, in a transaction of its own.
RequestRecorded(r) ==
  /\ pc[r] = "request"
  /\ RecordUsageEvent(Span(r))
  /\ Goto(r, "commit")
  /\ UNCHANGED <<broker, control, charged, used, quotaUsed, redis, dropped>>

RequestFails(r) ==
  /\ pc[r] = "request"
  /\ Fault("db")
  /\ HandlerRaised(r)
  /\ UNCHANGED <<broker, assigned, position, chunk, next, due, database, redis>>

\* record_processed: store_offsets records offset + 1 and commit sends it.  The
\* coordinator refuses a member it has timed out; commit_stored swallows that.
Commit(r) ==
  /\ pc[r] = "commit"
  /\ committed' = IF owner = r THEN InHand(r) + 1 ELSE committed
  /\ Advance(r)
  /\ NoFault
  /\ UNCHANGED <<owner, assigned, position, attempt, due, database, redis, dropped>>

\* BILLED_KEY_TTL runs out, or Redis evicts the key under allkeys-lru.
Expire(i) ==
  /\ i \in billed
  /\ Fault("expire")
  /\ billed' = billed \ {i}
  /\ UNCHANGED <<broker, pc, control, database, flags, dropped>>

-------------------------------------------------------------------------------
Handle(r) ==
  \/ IgnoreSpan(r) \/ CountRequest(r) \/ CheckBilled(r) \/ CheckFails(r)
  \/ BillCommits(r) \/ BillSkips(r) \/ BillFails(r) \/ BillAmbiguous(r)
  \/ MarkBilled(r) \/ NotifyAuth(r) \/ RequestRecorded(r) \/ RequestFails(r)

Loop(r) == SkipRevoked(r) \/ AbandonChunk(r) \/ Begin(r) \/ Handle(r) \/ Commit(r)

Poll(r) == OnAssign(r) \/ OnLost(r) \/ Collect(r) \/ Return(r)

\* What a replica does of its own accord, and what happens to it.
Run(r) == Start(r) \/ Poll(r) \/ Loop(r)
Disturb(r) == Crash(r) \/ Stop(r) \/ TimeOut(r) \/ OnRevoke(r)

Next ==
  \/ \E r \in Replicas : Run(r) \/ Disturb(r)
  \/ \E i \in Ids : Expire(i)

\* A replica's loop keeps running and a stopped one is started again (the
\* deployment restarts the container); no fault is ever owed.
Fairness == \A r \in Replicas : WF_vars(Run(r))

Spec == Init /\ [][Next]_vars /\ Fairness

-------------------------------------------------------------------------------
(* Properties.                                                               *)

\* A message whose handling came to its intended end, or was given up on loudly.
Settled(o) ==
  /\ Billable(Log[o]) => charged[Log[o].id] > 0 \/ o \in dropped
  /\ Countable(Log[o]) => Log[o].row \in rows \/ o \in dropped \/ faults["row"] > 0

\* No chunk was abandoned at its deadline and no dedup read failed.
Undisturbed == faults["slow"] = 0 /\ faults["check"] = 0

\* record_processed runs only after the handler returned or gave up (section 6.1,
\* 7.1), so whatever the interleaving of crashes, retries and rebalances, the
\* committed offset never passes a span that was neither charged (or counted) nor
\* reported as dropped, as long as no chunk was abandoned at its deadline and the
\* dedup read never failed.
CommittedIsSettled == Undisturbed => \A o \in 1..(committed - 1) : Settled(o)

\* Debits beyond the first, over all spans.
Overcharged == UNION {{<<i, n>> : n \in 2..charged[i]} : i \in Ids}

\* What can charge spans again.  A replica that was timed out works through the chunk
\* it holds while its successor reads the same messages, so a lost partition counts
\* once per message of a chunk; anything else opens the way to one debit.
RebillingFaults ==
  faults["crash"] + faults["set"] + faults["expire"] + faults["ambiguous"]
    + BatchSize * faults["lost"]

\* Section 7.4: redelivery is deduplicated, so each crash, failed or expired dedup
\* key and unacknowledged commit charges at most one span twice, and each lost
\* partition at most the spans of one chunk.  Retries, orderly rebalances, restarts
\* and duplicate deliveries charge none.
OverchargeBounded == Cardinality(Overcharged) <= RebillingFaults

\* Every message produced is eventually charged, counted or reported as dropped,
\* whatever finite number of faults happens on the way (section 7.4, at least once).
EventuallySettled ==
  Undisturbed ~> (~Undisturbed \/ \A o \in Offsets : Settled(o))

Exhausted(k) == BudgetSnap[k] # Unlimited /\ used[k] >= BudgetSnap[k]

\* A key whose budget a tiered span used up is eventually flagged at auth-service,
\* unless the process died, the call was given up on, or the span was dropped
\* after its commit went unacknowledged: the windows _notify_auth documents.
ExhaustionReported ==
  \A k \in Keys :
    Exhausted(k) ~> \/ <<"budget", k>> \in flags
                    \/ faults["crash"] + faults["notify"] + faults["ambiguous"] > 0

-------------------------------------------------------------------------------
(* The inductive invariant behind CommittedIsSettled.                        *)

\* A replica past its fetch has a message in hand.
InHandOK ==
  \A r \in Replicas :
    /\ pc[r] \notin {"down", "poll"} => next[r] \in 1..Len(chunk[r])
    /\ pc[r] \in {"down", "poll"} => next[r] = 1
    /\ pc[r] = "down" => ~assigned[r] /\ chunk[r] = <<>>
    /\ pc[r] \notin {"down", "poll", "loop"} => assigned[r]

\* Once the handler is through with a message it is settled, and until then the
\* steps after the debit know that it was made.
HandlerSettles(r) ==
  /\ pc[r] = "commit" => Settled(InHand(r))
  /\ pc[r] \in {"mark", "notify"} => Span(r).kind = "inference" /\ charged[Span(r).id] > 0
  /\ pc[r] = "bill" => Span(r).kind = "inference"
  /\ pc[r] = "request" => Countable(Span(r))

\* Replica r still holds offset o ahead of index j of its chunk.
HeldBefore(r, o, j) == \E i \in next[r]..(j - 1) : chunk[r][i] = o

\* The chunk, from the message in hand on, and the fetch position never run ahead
\* of something that is neither settled nor still held.
NothingSkipped(r) ==
  /\ pc[r] = "poll" \/ assigned[r] =>
       \A j \in next[r]..Len(chunk[r]) : \A o \in 1..(chunk[r][j] - 1) :
         Settled(o) \/ HeldBefore(r, o, j)
  /\ assigned[r] =>
       \A o \in 1..(position[r] - 1) : Settled(o) \/ HeldBefore(r, o, Len(chunk[r]) + 1)

\* A dedup key stands for a debit that was made.
KeysAreCharged == \A i \in billed : charged[i] > 0

\* The strengthening of CommittedIsSettled that every step of the consumer keeps: what
\* the loop holds, what the handler has done with it and where the group stands.
DeliveryInv ==
  /\ TypeOK
  /\ InHandOK
  /\ Undisturbed => /\ \A r \in Replicas : HandlerSettles(r) /\ NothingSkipped(r)
                    /\ KeysAreCharged
                    /\ \A o \in 1..(committed - 1) : Settled(o)

-------------------------------------------------------------------------------
(* What a comment says and the code does not do.                             *)

\* main.py: "the remainder was never stored, so the next fetch returns it".
AbandonedIsFetchedAgain ==
  faults["check"] = 0 => \A o \in 1..(committed - 1) : Settled(o)
===============================================================================
