---------------------------- MODULE ApiKeyFlags ----------------------------
(***************************************************************************)
(* The billing fields of one API key and the two stores that hold them:    *)
(* the Redis hash auth:apikey:{value} that /auth/validate answers from, and*)
(* the snapshot api_key.cached_data the hash is rebuilt from on a miss.    *)
(*                                                                         *)
(* budget is the field budget-exhausted, quota the field quota-<name> of   *)
(* one inference type, tier the field tier_id; "none" is an absent field.  *)
(* A hash is full when a whole payload was written to it, and partial when *)
(* a field was patched into a hash that was gone.  The values a rotated key*)
(* has are the subject of ApiKeyLifecycle; here the key has one value.     *)
(***************************************************************************)
EXTENDS Integers

CONSTANTS
    Worker,         \* requests being handled at the same time
    Consumer,       \* the one of them that serves the billing consumer
    MaxOps,         \* bound: administrative requests and quota notices
    MaxFaults       \* bound: requests that die half way

ASSUME FlagsAssumption == Consumer \in Worker /\ MaxOps \in Nat /\ MaxFaults \in Nat

VARIABLES
    data,       \* cached_data, or NoData (NULL)
    hash,       \* the Redis hash, or NoHash
    lock,       \* the worker whose transaction holds the row, or NoWorker
    over,       \* the key has spent its ceiling (budget_usage)
    due,        \* the consumer has an exhausted notice to push
    disturbed,  \* history: a writer of the whole snapshot met another writer
    stale,      \* history: the hash may differ from the snapshot
    last,       \* history: the last completed write of every field
    issued,     \* the key's creation reached its snapshot
    worker,     \* the request each worker handles
    ops, faults

stores == <<data, hash, lock>>
billing == <<over, due>>
history == <<disturbed, stale, last>>
vars == <<data, hash, lock, over, due, disturbed, stale, last, worker, ops, faults, issued>>

NoWorker == "none"
Field == {"budget", "quota", "tier"}
Fields == [budget: {"none", "0", "1"}, quota: {"none", "1"},
           tier: {"none", "assigned", "unassigned"}]
Blank == [budget |-> "none", quota |-> "none", tier |-> "none"]

NoData == [null |-> TRUE, f |-> Blank]
Data(f) == [null |-> FALSE, f |-> f]
NoHash == [kind |-> "absent", f |-> Blank]
Hash(kind, f) == [kind |-> kind, f |-> f]

Idle == [op |-> "none", pc |-> "idle", field |-> "budget", value |-> "1",
         copy |-> NoData, seen |-> Blank]

\* The upper map's fields win where it has them.
Merge(lower, upper) == [x \in Field |-> IF upper[x] = "none" THEN lower[x] ELSE upper[x]]

\* HSET of one field; an absent hash is created with that field alone.
SetField(field, value) ==
    IF hash = NoHash THEN Hash("partial", [Blank EXCEPT ![field] = value])
    ELSE [hash EXCEPT !.f[field] = value]

\* HDEL of one field; a hash without fields is gone.
DeleteField(field) ==
    IF hash.kind = "partial" /\ [hash.f EXCEPT ![field] = "none"] = Blank THEN NoHash
    ELSE [hash EXCEPT !.f[field] = "none"]

\* set_api_key_cache: HSET of a whole payload is additive.
SetPayload(f) == Hash("full", Merge(hash.f, f))

-----------------------------------------------------------------------------
Init ==
    /\ \/ data = NoData /\ hash = NoHash
       \/ /\ data = Data([Blank EXCEPT !.tier = "assigned"])
          /\ hash = Hash("full", data.f)
    /\ issued = ~data.null
    /\ last = data.f
    /\ lock = NoWorker
    /\ over = FALSE /\ due = FALSE
    /\ disturbed = FALSE
    /\ stale = FALSE
    /\ worker = [w \in Worker |-> Idle]
    /\ ops = 0 /\ faults = 0

At(w, op, pc) == worker[w].op = op /\ worker[w].pc = pc

Goto(w, pc) == worker' = [worker EXCEPT ![w].pc = pc]

Done(w) == worker' = [worker EXCEPT ![w] = Idle]

Begin(w, op, pc, field, value) ==
    worker' = [worker EXCEPT ![w] = [Idle EXCEPT !.op = op, !.pc = pc,
                                                 !.field = field, !.value = value]]

\* A request that keeps the snapshot it read.
BeginWithCopy(w, op, pc) ==
    worker' = [worker EXCEPT ![w] = [Idle EXCEPT !.op = op, !.pc = pc, !.copy = data]]

Busy(w) == \E u \in Worker \ {w} : worker[u] # Idle

\* Requests that replace the whole snapshot, and those that write to it at all.
WholeWriters == {"push", "refresh"}
Writers == WholeWriters \cup {"keys", "tenant", "unassign", "clear"}

\* A whole-snapshot writer runs next to another writer, or a refresh takes
\* its fields from a hash that does not agree with the snapshot.
Meets(w, op) ==
    \/ op = "refresh" /\ stale
    \/ \E u \in Worker \ {w} :
          \/ op \in Writers /\ worker[u].op \in WholeWriters
          \/ op \in WholeWriters /\ worker[u].op \in Writers

Starts(w, op) ==
    /\ worker[w] = Idle
    /\ stale' = (stale \/ Busy(w))
    /\ disturbed' = (disturbed \/ Meets(w, op))

AdminStarts(w, op) ==
    /\ ops < MaxOps
    /\ ops' = ops + 1
    /\ Starts(w, op)

\* jsonb_set of one field, committed.
PatchData(field, value) ==
    IF data.null THEN UNCHANGED <<data, last>>
    ELSE /\ data' = [data EXCEPT !.f[field] = value]
         /\ last' = [last EXCEPT ![field] = value]

-----------------------------------------------------------------------------
(* set_budget_exhausted_for_key: the consumer's notice                      *)

\* Mistake: a key whose snapshot has the flag already is skipped.
PushStartOnce(w) ==
    /\ due
    /\ due' = FALSE
    /\ Starts(w, "push")
    /\ IF data.null \/ data.f.budget = "1" THEN Done(w) ELSE BeginWithCopy(w, "push", "exists")
    /\ UNCHANGED <<stores, over, last, ops, faults, issued>>

PushStart(w) ==
    /\ due
    /\ due' = FALSE
    /\ Starts(w, "push")
    /\ IF data.null THEN Done(w) ELSE BeginWithCopy(w, "push", "exists")
    /\ UNCHANGED <<stores, over, last, ops, faults, issued>>

\* {**key.cached_data, ...} replaces the snapshot with the copy read first.
PushPersist(w) ==
    /\ At(w, "push", "persist")
    /\ lock = NoWorker
    /\ data' = [worker[w].copy EXCEPT !.f.budget = "1"]
    /\ last' = [last EXCEPT !.budget = "1"]
    /\ Done(w)
    /\ UNCHANGED <<hash, lock, billing, disturbed, stale, ops, faults, issued>>

-----------------------------------------------------------------------------
(* set_budget_exhausted_for_keys: UPDATE, Redis, then the commit            *)

\* A top-up clears the flag; deactivating the application sets it.
KeysStart(w, value) ==
    /\ AdminStarts(w, "keys")
    /\ lock = NoWorker
    /\ over' = (value = "1")
    /\ IF data.null THEN Done(w) /\ UNCHANGED lock
       ELSE Begin(w, "keys", "exists", "budget", value) /\ lock' = w
    /\ UNCHANGED <<data, hash, due, last, faults, issued>>

KeysCommit(w) ==
    /\ At(w, "keys", "persist")
    /\ PatchData("budget", worker[w].value)
    /\ lock' = NoWorker
    /\ Done(w)
    /\ UNCHANGED <<hash, billing, disturbed, stale, ops, faults, issued>>

-----------------------------------------------------------------------------
(* _patch_all_tenant_key_caches: Redis, then one UPDATE                     *)

TenantStart(w, field, value) ==
    /\ AdminStarts(w, "tenant")
    /\ over' = IF field = "budget" THEN value = "1" ELSE over
    /\ Begin(w, "tenant", "exists", field, value)
    /\ UNCHANGED <<stores, due, last, faults, issued>>

TenantUpdate(w) ==
    /\ At(w, "tenant", "persist")
    /\ lock = NoWorker
    /\ PatchData(worker[w].field, worker[w].value)
    /\ Done(w)
    /\ UNCHANGED <<hash, lock, billing, disturbed, stale, ops, faults, issued>>

\* patch_api_key_cache_field: EXISTS and HSET are two round trips.
PatchExists(w) ==
    /\ worker[w].pc = "exists"
    /\ Goto(w, IF hash = NoHash THEN "persist" ELSE "hset")
    /\ UNCHANGED <<stores, billing, history, ops, faults, issued>>

PatchHset(w) ==
    /\ worker[w].pc = "hset"
    /\ hash' = SetField(worker[w].field, worker[w].value)
    /\ Goto(w, "persist")
    /\ UNCHANGED <<data, lock, billing, history, ops, faults, issued>>

\* mark_tier_unassigned_for_tenant: one atomic script, then the UPDATE, both
\* only where a tier_id is present.
UnassignStart(w) ==
    /\ AdminStarts(w, "unassign")
    /\ Begin(w, "unassign", "hset_if", "tier", "unassigned")
    /\ UNCHANGED <<stores, billing, last, faults, issued>>

\* Mistake: the tier_id is removed instead of marked.
HsetIfPresentDeletes(w) ==
    /\ worker[w].pc = "hset_if"
    /\ hash' = DeleteField("tier")
    /\ Goto(w, "update_if")
    /\ UNCHANGED <<data, lock, billing, history, ops, faults, issued>>

HsetIfPresent(w) ==
    /\ worker[w].pc = "hset_if"
    /\ hash' = IF hash.f.tier = "none" THEN hash ELSE SetField("tier", "unassigned")
    /\ Goto(w, "update_if")
    /\ UNCHANGED <<data, lock, billing, history, ops, faults, issued>>

UpdateIfPresent(w) ==
    /\ worker[w].pc = "update_if"
    /\ lock = NoWorker
    /\ IF data.f.tier = "none" THEN UNCHANGED <<data, last>>
       ELSE PatchData("tier", "unassigned")
    /\ Done(w)
    /\ UNCHANGED <<hash, lock, billing, disturbed, stale, ops, faults, issued>>

\* clear_quota_flags_for_tenant, reset_all_quota_fields: HDEL, then the UPDATE.
\* With an unreachable catalogue there is nothing to clear and nothing is done.
ClearStart(w) ==
    /\ AdminStarts(w, "clear")
    /\ Begin(w, "clear", "hdel", "quota", "none")
    /\ UNCHANGED <<stores, billing, last, faults, issued>>

ClearHdel(w) ==
    /\ worker[w].pc = "hdel"
    /\ hash' = DeleteField("quota")
    /\ Goto(w, "remove")
    /\ UNCHANGED <<data, lock, billing, history, ops, faults, issued>>

\* Mistake: the snapshot keeps the flags that were removed from Redis.
ClearRemoveRedisOnly(w) ==
    /\ worker[w].pc = "remove"
    /\ lock = NoWorker
    /\ Done(w)
    /\ UNCHANGED <<stores, billing, history, ops, faults, issued>>

ClearRemove(w) ==
    /\ worker[w].pc = "remove"
    /\ lock = NoWorker
    /\ PatchData("quota", "none")
    /\ Done(w)
    /\ UNCHANGED <<hash, lock, billing, disturbed, stale, ops, faults, issued>>

-----------------------------------------------------------------------------
(* _refresh_redis_cache, after an update of the key or the tenant's return  *)

\* The key may be served; one that may not is evicted instead (ApiKeyLifecycle).
RefreshStart(w) ==
    /\ AdminStarts(w, "refresh")
    /\ BeginWithCopy(w, "refresh", "get")
    /\ UNCHANGED <<stores, billing, last, faults, issued>>

RefreshGet(w) ==
    /\ worker[w].pc = "get"
    /\ worker' = [worker EXCEPT ![w].seen = [hash.f EXCEPT !.tier = "none"],
                                 ![w].pc = "set"]
    /\ UNCHANGED <<stores, billing, history, ops, faults, issued>>

\* The snapshot's fields, overridden by the live hash; the tier is the snapshot's.
RefreshPayload(w) == Merge(worker[w].copy.f, worker[w].seen)

RefreshSet(w) ==
    /\ worker[w].pc = "set"
    /\ hash' = SetPayload(RefreshPayload(w))
    /\ Goto(w, "snapshot")
    /\ UNCHANGED <<data, lock, billing, history, ops, faults, issued>>

RefreshPersist(w) ==
    /\ worker[w].pc = "snapshot"
    /\ lock = NoWorker
    /\ data' = Data(RefreshPayload(w))
    /\ Done(w)
    /\ UNCHANGED <<hash, lock, billing, history, ops, faults, issued>>

-----------------------------------------------------------------------------
(* /auth/validate                                                           *)

ValidateMiss(w) ==
    /\ hash = NoHash
    /\ ~data.null
    /\ Starts(w, "validate")
    /\ BeginWithCopy(w, "validate", "rehydrate")
    /\ UNCHANGED <<stores, billing, last, ops, faults, issued>>

Rehydrate(w) ==
    /\ worker[w].pc = "rehydrate"
    /\ hash' = SetPayload(worker[w].copy.f)
    /\ Done(w)
    /\ UNCHANGED <<data, lock, billing, history, ops, faults, issued>>

\* What _validate_api_key lets through: a partial hash has no permissions.
Served ==
    /\ hash.kind = "full"
    /\ hash.f.tier # "unassigned"
    /\ hash.f.budget # "1"
    /\ hash.f.quota # "1"

\* A request is served and billed; crosses says that it spends the ceiling.
Serve(crosses) ==
    /\ Served
    /\ over' = (over \/ crosses)
    /\ due' = (due \/ over')
    /\ UNCHANGED <<stores, history, worker, ops, faults, issued>>

\* The TTL of a full hash ends; a partial one has none.
Expire ==
    /\ hash.kind = "full"
    /\ hash' = NoHash
    /\ stale' = (\E w \in Worker : worker[w] # Idle)
    /\ UNCHANGED <<data, lock, billing, disturbed, last, worker, ops, faults, issued>>

\* A request dies: its transaction is rolled back, its Redis writes stay.
Abort(w) ==
    /\ worker[w] # Idle
    /\ faults < MaxFaults
    /\ faults' = faults + 1
    /\ lock' = IF lock = w THEN NoWorker ELSE lock
    /\ stale' = TRUE
    /\ Done(w)
    /\ UNCHANGED <<data, hash, billing, disturbed, last, ops, issued>>

Admin(w) ==
    \/ \E value \in {"0", "1"} : KeysStart(w, value) \/ TenantStart(w, "budget", value)
    \/ TenantStart(w, "quota", "1") \/ TenantStart(w, "tier", "assigned")
    \/ UnassignStart(w) \/ ClearStart(w) \/ RefreshStart(w)

Continue(w) ==
    \/ PatchExists(w) \/ PatchHset(w) \/ KeysCommit(w) \/ TenantUpdate(w)
    \/ HsetIfPresent(w) \/ UpdateIfPresent(w)
    \/ ClearHdel(w) \/ ClearRemove(w)
    \/ RefreshGet(w) \/ RefreshSet(w) \/ RefreshPersist(w)
    \/ Rehydrate(w) \/ PushPersist(w)

Next ==
    \/ PushStart(Consumer)
    \/ \E w \in Worker \ {Consumer} : Admin(w) \/ ValidateMiss(w)
    \/ \E w \in Worker : Continue(w) \/ Abort(w)
    \/ \E crosses \in BOOLEAN : Serve(crosses)
    \/ Expire

\* The consumer pushes the notices it has, and a request that was started is
\* carried on; clients and administrators owe nothing.
Fairness == WF_vars(PushStart(Consumer)) /\ \A w \in Worker : WF_vars(Continue(w))

Spec == Init /\ [][Next]_vars /\ Fairness

-----------------------------------------------------------------------------
(* Properties                                                               *)

\* No billing flag gets lost.  The snapshot holds the last completed write of every
\* field: writers of one field may overlap freely (jsonb_set keeps the others), and only
\* the two that replace the whole snapshot, set_budget_exhausted_for_key and
\* _refresh_redis_cache, can undo what was written while they ran.  Requests handled one
\* after the other leave both stores alike, whatever the hash was rebuilt from in between.
FlagsKept ==
    /\ ~disturbed /\ ~data.null => data.f = last
    /\ ~stale /\ hash.kind = "full" /\ (\A w \in Worker : worker[w] = Idle)
          => hash.f = data.f

\* The snapshot and the full hash of a key never come to lack a tier_id they
\* were issued with, in any race: /auth/validate reads a missing tier_id as "no
\* restriction" (_preserved_tier_id, mark_tier_unassigned_for_tenant).
TierNeverDropped ==
    [][issued =>
       /\ ~data.null /\ data.f.tier # "none" => data'.f.tier # "none"
       /\ hash.kind = "full" /\ hash'.kind = "full" /\ hash.f.tier # "none"
             => hash'.f.tier # "none"]_vars

\* Whatever overwrites the exhausted flag, serving a key beyond its ceiling
\* comes to an end: each such request is billed, and the consumer pushes the
\* flag again.  A key without a snapshot is left out: set_budget_exhausted_for_key
\* skips it, and its hash, if it has one, is served until it expires.
OverspendEnds ==
    <>[][~(over /\ ~data.null /\ \E crosses \in BOOLEAN : Serve(crosses))]_vars
=============================================================================
