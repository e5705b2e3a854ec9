-------------------------- MODULE ApiKeyLifecycle --------------------------
(***************************************************************************)
(* Which values of one API key are accepted: the api_key row in Postgres,  *)
(* the Redis entries auth:apikey:{value} that answer /auth/validate, and   *)
(* the requests of auth-service that read the one and write the other.     *)
(*                                                                         *)
(* Every await of a handler is a step of its own, so a handler works with  *)
(* the copy of the row its session last read (expire_on_commit is FALSE)   *)
(* while other handlers commit.  Of an entry only the kind (a payload, or  *)
(* the tombstone of a refused token) and the deadline are kept: the        *)
(* billing fields are the subject of ApiKeyFlags.                          *)
(*                                                                         *)
(* Values are numbered in the order they are issued, and the value in use  *)
(* is the last one, so row.value + 1 is unused (_generate_unused_key).     *)
(***************************************************************************)
EXTENDS Integers, Sequences

CONSTANTS
    Worker,         \* requests being handled at the same time
    MaxValues,      \* bound: values issued for the key
    MaxTime,        \* bound: days that pass
    MaxRequests,    \* bound: administrative requests
    MaxFaults,      \* bound: requests that die or lose Redis half way
    Lifetime        \* bound: days of the key's life, and of a rotation window

VARIABLES
    row,        \* the api_key row
    tenant,     \* tenants.status
    app,        \* applications.status
    redis,      \* the entry of every value
    tainted,    \* history: entries written from an outdated copy, or left by a fault
    worker,     \* the request each worker handles
    now,        \* the time, in days
    requests,   \* administrative requests so far
    faults      \* faults so far

vars == <<row, tenant, app, redis, tainted, worker, now, requests, faults>>

Value == 1..MaxValues
NoValue == 0
NoEntry == [kind |-> "absent", exp |-> 0]
Deadlines == 0..(MaxTime + Lifetime)

Row == [active: BOOLEAN, value: Value, rotated: Value \cup {NoValue},
        window: Deadlines, expires: Deadlines]
Entry == [kind: {"absent", "payload", "tombstone"}, exp: Deadlines]

NoCopy == [active |-> FALSE, value |-> 1, rotated |-> NoValue, window |-> 0, expires |-> 0]

Idle == [op |-> "none", pc |-> "idle", copy |-> NoCopy, left |-> <<>>,
         token |-> NoValue, until |-> 0]

-----------------------------------------------------------------------------
(* models/api_key.py and the predicates of the service                      *)

LiveRotatedKey(r) == r.rotated # NoValue /\ r.window > now

\* is_expired: strictly after, unlike the SQL condition of ActiveKey.
IsExpired(r) == now > r.expires

ActiveKey(r) == r.active /\ r.expires > now

ApplicationMayUse == app = "ACTIVE" /\ tenant = "ACTIVE"

EffectiveIsActive(r) == r.active /\ ~IsExpired(r) /\ ApplicationMayUse

\* live_rotated_key_expires_at: the previous value still works.
PreviousWorks(r) == r.active /\ ~IsExpired(r) /\ LiveRotatedKey(r)

CacheKeyValues(r) ==
    IF LiveRotatedKey(r) THEN <<r.value, r.rotated>> ELSE <<r.value>>

\* Every value _delete_key_caches deletes: the rotated one too, live or not.
HeldValues(r) ==
    IF r.rotated = NoValue THEN <<r.value>> ELSE <<r.value, r.rotated>>

\* get_by_api_key_if_valid: the row answers for v.
Accepts(r, v) ==
    /\ ActiveKey(r)
    /\ v = r.value \/ (v = r.rotated /\ r.window > now)

\* _cache_ttl_for, as the time at which the entry ends.
CacheDeadline(r, v) ==
    IF v # r.value /\ v = r.rotated /\ r.window < r.expires
    THEN r.window ELSE r.expires

\* set_api_key_cache; the callers skip a TTL that is not positive.
SetEntry(v, kind, exp) ==
    IF exp > now THEN [redis EXCEPT ![v] = [kind |-> kind, exp |-> exp]] ELSE redis

\* delete_api_key_cache
DeleteEntry(v) == [redis EXCEPT ![v] = NoEntry]

-----------------------------------------------------------------------------
\* A key as it was created, and one whose first value is being replaced.
Created == [active |-> TRUE, value |-> 1, rotated |-> NoValue, window |-> 0,
            expires |-> Lifetime]
BeingRotated == [Created EXCEPT !.value = 2, !.rotated = 1, !.window = 1]

Init ==
    /\ row \in {Created, BeingRotated}
    /\ tenant = "ACTIVE"
    /\ app = "ACTIVE"
    /\ redis = [v \in Value |->
                  IF v = row.value THEN [kind |-> "payload", exp |-> Lifetime]
                  ELSE IF v = row.rotated THEN [kind |-> "payload", exp |-> row.window]
                  ELSE NoEntry]
    /\ tainted = [v \in Value |-> FALSE]
    /\ worker = [w \in Worker |-> Idle]
    /\ now = 0
    /\ requests = 0
    /\ faults = 0

At(w, op, pc) == worker[w].op = op /\ worker[w].pc = pc

Goto(w, pc) == worker' = [worker EXCEPT ![w].pc = pc]

Done(w) == worker' = [worker EXCEPT ![w] = Idle]

\* Move on with a fresh copy of the row.
ReadRow(w, pc) == worker' = [worker EXCEPT ![w].copy = row, ![w].pc = pc]

\* Start writing, or deleting, the entries of the given values one by one.
Entries(w, pc, copy, values) ==
    worker' = [worker EXCEPT ![w].copy = copy, ![w].left = values, ![w].pc = pc]

\* Entries that a request leaves as they are although the row has moved on.
LeaveBehind == tainted' = [v \in Value |-> tainted[v] \/ redis[v].kind = "payload"]

-----------------------------------------------------------------------------
(* GET /auth/validate.  A hit changes nothing.                              *)

ValidateMiss(w, v) ==
    /\ worker[w] = Idle
    /\ redis[v] = NoEntry
    /\ worker' = [worker EXCEPT ![w].op = "validate", ![w].pc = "lookup", ![w].token = v]
    /\ UNCHANGED <<row, tenant, app, redis, tainted, now, requests, faults>>

ValidateLookup(w) ==
    /\ At(w, "validate", "lookup")
    /\ IF Accepts(row, worker[w].token) /\ ApplicationMayUse
       THEN ReadRow(w, "rehydrate")
       ELSE Goto(w, "tombstone")
    /\ UNCHANGED <<row, tenant, app, redis, tainted, now, requests, faults>>

\* A copy that is not what the row says any more.  A rotation re-checks
\* activity after its writes, so only the values and deadlines count for it.
Outdated(w) ==
    LET c == worker[w].copy IN
    IF worker[w].op = "rotate"
    THEN [c EXCEPT !.active = row.active] # row
    ELSE c # row \/ tenant # "ACTIVE"

WritePayload(w, v) ==
    LET exp == CacheDeadline(worker[w].copy, v) IN
    /\ redis' = SetEntry(v, "payload", exp)
    /\ tainted' = [tainted EXCEPT ![v] = IF exp > now THEN Outdated(w)
                                         ELSE @ \/ redis[v].kind = "payload"]

ValidateRehydrate(w) ==
    /\ At(w, "validate", "rehydrate")
    /\ WritePayload(w, worker[w].token)
    /\ Done(w)
    /\ UNCHANGED <<row, tenant, app, now, requests, faults>>

\* The tombstone outlives no more than one day.
ValidateTombstone(w) ==
    /\ At(w, "validate", "tombstone")
    /\ redis' = SetEntry(worker[w].token, "tombstone", now + 1)
    /\ tainted' = [tainted EXCEPT ![worker[w].token] = FALSE]
    /\ Done(w)
    /\ UNCHANGED <<row, tenant, app, now, requests, faults>>

-----------------------------------------------------------------------------
(* The administrator's requests on the key.  The route reads the row first. *)

KeyRequests == {"revoke", "update", "rotate", "end", "extend"}

ReadKey(w, op) ==
    /\ worker[w] = Idle
    /\ requests < MaxRequests
    /\ requests' = requests + 1
    /\ worker' = [worker EXCEPT ![w].op = op, ![w].pc = "begin", ![w].copy = row]
    /\ UNCHANGED <<row, tenant, app, redis, tainted, now, faults>>

\* revoke_by_obj: commit, re-read the row, delete the entries.
RevokeCommit(w) ==
    /\ At(w, "revoke", "begin")
    /\ row' = [row EXCEPT !.active = FALSE]
    /\ Goto(w, "reread")
    /\ UNCHANGED <<tenant, app, redis, tainted, now, requests, faults>>

RevokeReread(w) ==
    /\ At(w, "revoke", "reread")
    /\ Entries(w, "evict", row, HeldValues(row))
    /\ UNCHANGED <<row, tenant, app, redis, tainted, now, requests, faults>>

\* update_key_by_obj.  until = 0: an update that leaves expires_at alone.  The
\* window is compared in the copy and written to the row.
UpdateCommit(w, until) ==
    LET Clamped(r) == [r EXCEPT !.expires = until,
                                !.window = IF worker[w].copy.window > until THEN until ELSE @]
        Updated(r) == IF until = 0 THEN r ELSE Clamped(r)
    IN
    /\ At(w, "update", "begin")
    /\ until = 0 \/ until > now
    /\ row' = Updated(row)
    /\ worker' = [worker EXCEPT ![w].copy = Updated(@), ![w].pc = "eligible"]
    /\ IF worker[w].copy = row THEN UNCHANGED tainted ELSE LeaveBehind
    /\ UNCHANGED <<tenant, app, redis, now, requests, faults>>

\* The copy decides, with the application and tenant as they are now;
\* _refresh_redis_cache returns at once when the key has no time left.
UpdateEligible(w) ==
    LET c == worker[w].copy IN
    /\ At(w, "update", "eligible")
    /\ \/ /\ ~EffectiveIsActive(c)
          /\ Entries(w, "evict", c, HeldValues(c))
          /\ UNCHANGED tainted
       \/ /\ EffectiveIsActive(c) /\ c.expires > now
          /\ Entries(w, "fill", c, CacheKeyValues(c))
          /\ UNCHANGED tainted
       \/ /\ EffectiveIsActive(c) /\ c.expires = now
          /\ Done(w)
          /\ LeaveBehind
    /\ UNCHANGED <<row, tenant, app, redis, now, requests, faults>>

\* rotate_by_obj, up to the value it is about to store; a refusal ends it.
RotateCheck(w, grace) ==
    LET c == worker[w].copy IN
    /\ At(w, "rotate", "begin")
    /\ IF EffectiveIsActive(c) /\ ~LiveRotatedKey(c) /\ now + grace <= c.expires
       THEN worker' = [worker EXCEPT ![w].pc = "commit", ![w].until = now + grace,
                                     ![w].token = c.value]
       ELSE Done(w)
    /\ UNCHANGED <<row, tenant, app, redis, tainted, now, requests, faults>>

\* Mistake: an UPDATE by id alone.
MayRotateUnguarded(r, old) == ActiveKey(r)

\* APIKeyRepository.rotate: an UPDATE guarded by the value it was read with.
MayRotate(r, old) == ActiveKey(r) /\ r.value = old /\ ~LiveRotatedKey(r)

RotateCommit(w) ==
    /\ At(w, "rotate", "commit")
    /\ row.value < MaxValues
    /\ IF MayRotate(row, worker[w].token)
       THEN /\ row' = [row EXCEPT !.rotated = row.value, !.value = row.value + 1,
                                  !.window = worker[w].until]
            /\ Goto(w, "reread")
       ELSE UNCHANGED row /\ Done(w)
    /\ UNCHANGED <<tenant, app, redis, tainted, now, requests, faults>>

\* Another rotation may have committed since: the old value's entry is then
\* nobody's any more.
RotateReread(w) ==
    LET old == worker[w].token IN
    /\ At(w, "rotate", "reread")
    /\ IF row.expires > now THEN Entries(w, "fill", row, CacheKeyValues(row))
       ELSE ReadRow(w, "drop")
    /\ tainted' = [tainted EXCEPT ![old] = @ \/ (row.rotated # old /\ redis[old].kind = "payload")]
    /\ UNCHANGED <<row, tenant, app, redis, now, requests, faults>>

\* A zero-day window: the old value stops now.
RotateDrop(w) ==
    LET old == worker[w].token IN
    /\ At(w, "rotate", "drop")
    /\ IF LiveRotatedKey(worker[w].copy)
       THEN UNCHANGED <<redis, tainted>>
       ELSE redis' = DeleteEntry(old) /\ tainted' = [tainted EXCEPT ![old] = FALSE]
    /\ Goto(w, "recheck")
    /\ UNCHANGED <<row, tenant, app, now, requests, faults>>

\* Mistake: the entries just written are trusted.
RotateTrusts(w) ==
    /\ At(w, "rotate", "recheck")
    /\ Done(w)
    /\ UNCHANGED <<row, tenant, app, redis, tainted, now, requests, faults>>

\* A revocation or suspension that committed meanwhile wins.
RotateRecheck(w) ==
    /\ At(w, "rotate", "recheck")
    /\ IF EffectiveIsActive(row) THEN Done(w)
       ELSE Entries(w, "evict", row, HeldValues(row))
    /\ UNCHANGED <<row, tenant, app, redis, tainted, now, requests, faults>>

\* An exception of the cache update: delete what the copy holds, best effort.
RotateFails(w) ==
    /\ worker[w].op = "rotate" /\ worker[w].pc \in {"fill", "drop", "recheck"}
    /\ faults < MaxFaults
    /\ faults' = faults + 1
    /\ Entries(w, "evict", worker[w].copy, HeldValues(worker[w].copy))
    /\ LeaveBehind
    /\ UNCHANGED <<row, tenant, app, redis, now, requests>>

\* end_rotation_by_obj: the check and the guarded UPDATE, then the old entry.
MayEnd(r, old) == ActiveKey(r) /\ r.rotated = old

EndCommit(w) ==
    LET c == worker[w].copy IN
    /\ At(w, "end", "begin")
    /\ IF PreviousWorks(c) /\ MayEnd(row, c.rotated)
       THEN /\ row' = [row EXCEPT !.rotated = NoValue, !.window = 0]
            /\ Entries(w, "evict", row', <<c.rotated>>)
       ELSE UNCHANGED row /\ Done(w)
    /\ UNCHANGED <<tenant, app, redis, tainted, now, requests, faults>>

\* extend_rotation_by_obj
MayExtend(r, old, until) ==
    /\ ActiveKey(r)
    /\ r.rotated = old
    /\ r.window > now /\ r.window < until
    /\ r.expires >= until

ExtendCommit(w, until) ==
    LET c == worker[w].copy IN
    /\ At(w, "extend", "begin")
    /\ IF /\ PreviousWorks(c) /\ until > c.window /\ until <= c.expires
          /\ MayExtend(row, c.rotated, until)
       THEN row' = [row EXCEPT !.window = until] /\ Goto(w, "reread")
       ELSE UNCHANGED row /\ Done(w)
    /\ UNCHANGED <<tenant, app, redis, tainted, now, requests, faults>>

ExtendReread(w) ==
    /\ At(w, "extend", "reread")
    /\ ReadRow(w, "eligible")
    /\ UNCHANGED <<row, tenant, app, redis, tainted, now, requests, faults>>

ExtendEligible(w) ==
    LET c == worker[w].copy IN
    /\ At(w, "extend", "eligible")
    /\ IF EffectiveIsActive(c) /\ c.expires > now
       THEN Entries(w, "fill", c, CacheKeyValues(c))
       ELSE Done(w)
    /\ UNCHANGED <<row, tenant, app, redis, tainted, now, requests, faults>>

-----------------------------------------------------------------------------
(* PATCH /auth/tenants/{id}/status: commit the status, then the cascade.    *)

TenantTransitions == {<<"ACTIVE", "SUSPENDED">>, <<"ACTIVE", "DEACTIVATED">>,
                      <<"SUSPENDED", "ACTIVE">>, <<"SUSPENDED", "DEACTIVATED">>,
                      <<"DEACTIVATED", "ACTIVE">>}

SetTenantStatus(w, status) ==
    /\ worker[w] = Idle
    /\ requests < MaxRequests
    /\ requests' = requests + 1
    /\ <<tenant, status>> \in TenantTransitions
    /\ tenant' = status
    /\ worker' = [worker EXCEPT ![w].op = status, ![w].pc = "begin"]
    /\ UNCHANGED <<row, app, redis, tainted, now, faults>>

\* evict_keys_for_tenant: only keys that are still active are listed.
SuspendList(w) ==
    /\ At(w, "SUSPENDED", "begin")
    /\ IF ActiveKey(row) THEN Entries(w, "evict", row, HeldValues(row)) ELSE Done(w)
    /\ UNCHANGED <<row, tenant, app, redis, tainted, now, requests, faults>>

\* revoke_keys_for_tenant: one UPDATE ... RETURNING, committed, then the entries.
DeactivateRevoke(w) ==
    /\ At(w, "DEACTIVATED", "begin")
    /\ row' = [row EXCEPT !.active = FALSE]
    /\ IF row.active THEN Entries(w, "evict", row', HeldValues(row)) ELSE Done(w)
    /\ UNCHANGED <<tenant, app, redis, tainted, now, requests, faults>>

\* refresh_keys_cache_for_tenant: the tenant and its applications first ...
ResumeRead(w) ==
    /\ At(w, "ACTIVE", "begin")
    /\ Goto(w, IF ApplicationMayUse THEN "refresh" ELSE "clear")
    /\ UNCHANGED <<row, tenant, app, redis, tainted, now, requests, faults>>

\* ... then the keys, which are refreshed, or evicted when it may not use them.
ResumeList(w) ==
    /\ worker[w].op = "ACTIVE" /\ worker[w].pc \in {"refresh", "clear"}
    /\ IF worker[w].pc = "clear" THEN Entries(w, "evict", row, HeldValues(row))
       ELSE IF ActiveKey(row) THEN Entries(w, "fill", row, CacheKeyValues(row))
       ELSE Done(w)
    /\ UNCHANGED <<row, tenant, app, redis, tainted, now, requests, faults>>

\* update_application: no entry of the application's keys is touched.
SetApplicationStatus ==
    /\ requests < MaxRequests
    /\ requests' = requests + 1
    /\ app' = IF app = "ACTIVE" THEN "INACTIVE" ELSE "ACTIVE"
    /\ UNCHANGED <<row, tenant, redis, tainted, worker, now, faults>>

-----------------------------------------------------------------------------
(* The two loops over a key's values                                        *)

\* _refresh_redis_cache writes the values in turn.
Fill(w) ==
    LET left == worker[w].left IN
    /\ worker[w].pc = "fill"
    /\ WritePayload(w, Head(left))
    /\ IF Len(left) > 1 THEN worker' = [worker EXCEPT ![w].left = Tail(left)]
       ELSE IF worker[w].op = "rotate" THEN Goto(w, "drop")
       ELSE Done(w)
    /\ UNCHANGED <<row, tenant, app, now, requests, faults>>

\* _delete_key_caches deletes them in turn.
Evict(w) ==
    LET left == worker[w].left IN
    /\ worker[w].pc = "evict"
    /\ redis' = DeleteEntry(Head(left))
    /\ tainted' = [tainted EXCEPT ![Head(left)] = FALSE]
    /\ IF Len(left) > 1 THEN worker' = [worker EXCEPT ![w].left = Tail(left)]
       ELSE Done(w)
    /\ UNCHANGED <<row, tenant, app, now, requests, faults>>

\* The request dies, or an await raises and nothing catches it.
Abort(w) ==
    /\ worker[w] # Idle
    /\ faults < MaxFaults
    /\ faults' = faults + 1
    /\ IF worker[w].op = "validate" THEN UNCHANGED tainted ELSE LeaveBehind
    /\ Done(w)
    /\ UNCHANGED <<row, tenant, app, redis, now, requests>>

\* A day passes, and the entries that are due expire.
Tick ==
    /\ now < MaxTime
    /\ now' = now + 1
    /\ redis' = [v \in Value |-> IF redis[v].exp > now' THEN redis[v] ELSE NoEntry]
    /\ tainted' = [v \in Value |-> tainted[v] /\ redis'[v] # NoEntry]
    /\ UNCHANGED <<row, tenant, app, worker, requests, faults>>

Validate(w) ==
    \/ \E v \in Value : v <= row.value /\ ValidateMiss(w, v)
    \/ ValidateLookup(w) \/ ValidateRehydrate(w) \/ ValidateTombstone(w)

KeyRequest(w) ==
    \/ \E op \in KeyRequests : ReadKey(w, op)
    \/ RevokeCommit(w) \/ RevokeReread(w)
    \/ \E until \in {0} \cup (now + 1)..(now + Lifetime) : UpdateCommit(w, until)
    \/ UpdateEligible(w)
    \/ \E grace \in 0..Lifetime : RotateCheck(w, grace)
    \/ RotateCommit(w) \/ RotateReread(w) \/ RotateDrop(w) \/ RotateRecheck(w)
    \/ RotateFails(w)
    \/ EndCommit(w)
    \/ \E until \in (now + 1)..(now + Lifetime) : ExtendCommit(w, until)
    \/ ExtendReread(w) \/ ExtendEligible(w)

TenantRequest(w) ==
    \/ \E status \in {"ACTIVE", "SUSPENDED", "DEACTIVATED"} : SetTenantStatus(w, status)
    \/ SuspendList(w) \/ DeactivateRevoke(w) \/ ResumeRead(w) \/ ResumeList(w)

Next ==
    \/ \E w \in Worker : Validate(w) \/ KeyRequest(w) \/ TenantRequest(w)
                            \/ Fill(w) \/ Evict(w) \/ Abort(w)
    \/ SetApplicationStatus
    \/ Tick

Spec == Init /\ [][Next]_vars

-----------------------------------------------------------------------------
(* Properties                                                               *)

\* Once no administrative request is in flight, a payload in Redis stands for
\* a value the row still accepts, under an active tenant and for no longer
\* than the row allows, unless it was written from an outdated copy by a
\* request that does not re-check, or left behind by a fault.  This is what
\* the re-reads of revoke_by_obj and rotate_by_obj, and the order "commit,
\* then the entries" everywhere, are for.
EntryBacked ==
    (\A w \in Worker : worker[w].op \in {"none", "validate"})
        => \A v \in Value :
              redis[v].kind = "payload" /\ ~tainted[v]
                  => /\ Accepts(row, v)
                     /\ tenant = "ACTIVE"
                     /\ redis[v].exp <= CacheDeadline(row, v)

\* A value the row accepts stops only by time, by a revocation, by its own
\* rotation, or by a request that ended the rotation of that very value: no
\* race of rotations ends somebody else's window (rotate, end_rotation).
PreviousKeepsWorking ==
    [][\A v \in Value :
          Accepts(row, v) /\ ~Accepts(row', v)
              => \/ now' # now
                 \/ ~row'.active
                 \/ row'.rotated = v
                 \/ \E w \in Worker : /\ At(w, "end", "begin")
                                      /\ worker[w].copy.rotated = v
                                      /\ worker'[w].pc = "evict"]_vars

=============================================================================
