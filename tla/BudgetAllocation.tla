-------------------------- MODULE BudgetAllocation --------------------------
(***************************************************************************)
(* A tenant's budget, its applications' shares of it, their keys' ceilings,*)
(* and the ledger budget_usage in platform-core's database that copies each*)
(* ceiling for the billing consumer.                                       *)
(*                                                                         *)
(* A request that locks its parent row (the tenant, or the application)    *)
(* reads, checks and commits under that lock, so it is one step; its       *)
(* follow-ups on the ledger and on the exhausted flags come after the      *)
(* commit, one step each.  Deactivating an application and resizing one    *)
(* key read before any lock, so they are several steps.                    *)
(***************************************************************************)
EXTENDS AllocationRules

CONSTANTS
    App, Key,           \* identifiers, natural numbers; a higher one is newer
    Owner,              \* the application a key is created under
    Worker,             \* requests being handled at the same time
    InitialBudgets,     \* what a tenant may be created with
    TopUp,              \* the amount of a revision
    Shares,             \* percentages an application may be created with
    AppInputs, KeyInputs,   \* what a request may ask for a child
    Charge,             \* the cost of a served request
    MaxBudget,          \* MAX_TENANT_BUDGET
    MaxOps, MaxCharges, MaxFaults   \* bounds of a behaviour

ASSUME AllocationAssumption ==
    /\ App \subseteq Nat /\ Key \subseteq Nat /\ Owner \in [Key -> App]
    /\ IsFiniteSet(App) /\ IsFiniteSet(Key)
    /\ InitialBudgets \subseteq Nat \cup {Unset}
    /\ TopUp \in Nat /\ Charge \in Nat /\ MaxBudget \in Nat /\ Shares \subseteq Nat
    /\ \A input \in AppInputs \cup KeyInputs :
          input.type \in {"FIXED", "PERCENTAGE"} /\ input.value \in Nat
    /\ {MaxOps, MaxCharges, MaxFaults} \subseteq Nat

VARIABLES
    tenant,     \* tenants.allocated_budget, Unset for NULL
    app,        \* the applications: status, budget, pct
    key,        \* the keys' rows: state, amount, pct
    snap,       \* budget_usage.api_key_budget_snap, Unset for no row
    used,       \* budget_usage.api_key_budget_used
    flag,       \* keys flagged budget-exhausted; a revoked key's is not looked at
    owed,       \* keys billed beyond their ceiling whose flag is yet to be pushed
    req,        \* what each worker still has to do
    settled,    \* history: keys whose last ceiling was written through undisturbed
    slipped,    \* history: a deactivation met a change of what it released
    behind,     \* history: keys whose percentage a request left as it was
    ops, charges, faults

rows == <<tenant, app, key>>
ledger == <<snap, used, flag, owed>>
history == <<settled, slipped, behind>>
counters == <<ops, charges, faults>>
vars == <<tenant, app, key, snap, used, flag, owed, req, settled, slipped, behind,
          ops, charges, faults>>

NoApp == [status |-> "none", budget |-> Unset, pct |-> Unset]
NoKey == [state |-> "none", amount |-> 0, pct |-> 0]
Ready == [pc |-> "ready", target |-> 0, row |-> NoKey, copy |-> NoApp,
          writes |-> <<>>, seen |-> <<>>, clean |-> {}]

\* A key's row with the ceiling a request resolved.
Resized(row, c) == [row EXCEPT !.amount = c.amount, !.pct = c.pct]

ActiveApps == {a \in App : app[a].status = "ACTIVE"}
KeysOf(a) == {k \in Key : key[k].state # "none" /\ Owner[k] = a}
ActiveKeys(a) == {k \in KeysOf(a) : key[k].state = "active"}

Init ==
    /\ tenant \in InitialBudgets
    /\ app = [a \in App |-> NoApp]
    /\ key = [k \in Key |-> NoKey]
    /\ snap = [k \in Key |-> Unset]
    /\ used = [k \in Key |-> 0]
    /\ flag = {} /\ owed = {}
    /\ req = [w \in Worker |-> Ready]
    /\ settled = {} /\ behind = {} /\ slipped = FALSE
    /\ ops = 0 /\ charges = 0 /\ faults = 0

Starts(w) ==
    /\ req[w] = Ready
    /\ ops < MaxOps
    /\ ops' = ops + 1

\* fetch_budget_usage: what the ledger holds, or nothing when it is unreachable.
Usage(seen) ==
    \/ seen = used /\ UNCHANGED faults
    \/ /\ faults < MaxFaults /\ faults' = faults + 1
       /\ seen = [k \in Key |-> 0]

\* Key rows a deactivation has updated and not committed: a writer waits for
\* it or, holding the application it waits for, is the victim of a deadlock.
ZeroLocked == UNION {DOMAIN req[w].writes : w \in {u \in Worker : req[u].pc = "deactivate"}}

WriteKeys(new) ==
    /\ \A k \in Key : new[k] # key[k] => k \notin ZeroLocked
    /\ key' = new

\* The request has committed ceilings that are not written through yet.
Following(w) == req[w].pc \in {"snapshot", "seed", "flags", "done"}

\* Another change of the keys' ceilings, or spending on them, between a commit
\* and its follow-ups, or between the two halves of a revision's.
Disturb(r, keys) == [r EXCEPT !.clean = @ \ keys]

\* The commit of worker w leaves these ceilings to be written through.
FollowUp(w, writes, seen) ==
    LET keys == DOMAIN writes
        taken == UNION {DOMAIN req[u].writes : u \in {v \in Worker \ {w} : Following(v)}}
    IN  /\ settled' = settled \ keys
        /\ req' = [u \in Worker |->
              IF u # w THEN Disturb(req[u], keys)
              ELSE IF keys = {} THEN Ready
              ELSE [Ready EXCEPT !.pc = "snapshot", !.writes = writes,
                                 !.seen = [k \in keys |-> seen[k]],
                                 !.clean = {k \in keys \ taken : seen[k] = used[k]}]]

-----------------------------------------------------------------------------
(* Applications                                                             *)

\* _assert_allocation_within_cap, under the lock of the tenant's row.
WithinCap(pct) ==
    LET pcts == [a \in ActiveApps |-> OrZero(app[a].pct)]
        budgets == [a \in ActiveApps |-> OrZero(app[a].budget)]
    IN  /\ Total(pcts, ActiveApps) + pct <= Hundred
        /\ tenant # Unset =>
              Total(budgets, ActiveApps) + HalfEven(tenant * pct, Hundred) <= tenant

CreateApplication(w, a, pct) ==
    /\ Starts(w)
    /\ app[a] = NoApp
    /\ \A b \in App : b < a => app[b] # NoApp
    /\ pct # Unset => WithinCap(pct)
    /\ app' = [app EXCEPT ![a] =
          [status |-> "ACTIVE", pct |-> pct,
           budget |-> IF pct = Unset \/ tenant = Unset THEN Unset
                      ELSE HalfEven(tenant * pct, Hundred)]]
    /\ UNCHANGED <<tenant, key, ledger, req, history, charges, faults>>

Activate(w, a) ==
    /\ Starts(w)
    /\ app[a].status = "INACTIVE"
    /\ app' = [app EXCEPT ![a].status = "ACTIVE"]
    /\ UNCHANGED <<tenant, key, ledger, req, history, charges, faults>>

\* update_application reads the application without a lock.
DeactivateRead(w, a) ==
    /\ Starts(w)
    /\ app[a].status = "ACTIVE"
    /\ req' = [req EXCEPT ![w] = [Ready EXCEPT !.pc = "zero", !.target = a, !.copy = app[a]]]
    /\ UNCHANGED <<rows, ledger, history, charges, faults>>

\* zero_allocation_for_applications: one UPDATE, not yet committed.
DeactivateZero(w) ==
    /\ req[w].pc = "zero"
    /\ ActiveKeys(req[w].target) \cap ZeroLocked = {}
    /\ req' = [req EXCEPT ![w].pc = "deactivate",
                          ![w].writes = [k \in ActiveKeys(req[w].target) |-> 0]]
    /\ UNCHANGED <<rows, ledger, history, counters>>

\* A column that was NULL when it was read is not part of the UPDATE.
Released(copy, current) == IF copy = Unset THEN current ELSE Unset

DeactivateCommit(w) ==
    LET a == req[w].target
        zeroed == DOMAIN req[w].writes
        left == [status |-> "INACTIVE", budget |-> Released(req[w].copy.budget, app[a].budget),
                 pct |-> Released(req[w].copy.pct, app[a].pct)]
    IN  /\ req[w].pc = "deactivate"
        /\ app' = [app EXCEPT ![a] = left]
        /\ key' = [k \in Key |-> IF k \in zeroed THEN [key[k] EXCEPT !.amount = 0, !.pct = 0]
                                 ELSE key[k]]
        /\ FollowUp(w, req[w].writes, used)
        /\ slipped' = (slipped \/ left.budget # Unset \/ left.pct # Unset
                          \/ \E k \in ActiveKeys(a) : key'[k].amount > 0)
        /\ behind' = behind \ zeroed
        /\ UNCHANGED <<tenant, ledger, counters>>

-----------------------------------------------------------------------------
(* The three allocation endpoints                                           *)

AppChildren(seen) ==
    [a \in ActiveApps |-> [amount |-> OrZero(app[a].budget), pct |-> OrZero(app[a].pct),
                           used |-> Total(seen, KeysOf(a))]]

KeyChildren(a, seen) ==
    [k \in ActiveKeys(a) |-> [amount |-> key[k].amount, pct |-> key[k].pct, used |-> seen[k]]]

\* A row for a key must come to a ceiling above zero.
Usable(input, parent) ==
    /\ parent > 0
    /\ Convert(input, parent).amount > 0
    /\ Convert(input, parent).pct > 0

\* Mistake: an application without a row for a key is not checked.
KeysResolveListed(children, parent, request) ==
    /\ \A k \in DOMAIN request : Usable(request[k], parent)
    /\ DOMAIN request # {} => ResolveCode(parent, children, request) = "ok"

\* _resolve_and_persist_keys for the keys of one application.
KeysResolve(children, parent, request) ==
    /\ \A k \in DOMAIN request : Usable(request[k], parent)
    /\ ResolveCode(parent, children, request) = "ok"

Oldest(S) == CHOOSE k \in S : \A l \in S : k <= l
Newest(S) == CHOOSE k \in S : \A l \in S : k >= l

\* Mistake: the keys the request does not list keep their percentages.
CascadeListedOnly(children, parent, request, resized) == Resolved(parent, children, request)

\* _cascade_into_keys: listed keys as resolved, the others' percentages against
\* the new amount; keys are listed newest first.
Cascade(children, parent, request, resized) ==
    LET resolved == Resolved(parent, children, request)
        others == [k \in DOMAIN children \ DOMAIN request |-> children[k]]
        pcts == Recompute(parent, others, Oldest(Funded(others)))
    IN  [k \in DOMAIN children |->
            IF k \in DOMAIN request \/ ~resized THEN resolved[k]
            ELSE [amount |-> children[k].amount, pct |-> pcts[k]]]

\* nested lists at most one key of an application in the request.
TenantAllocate(w, request, nested) ==
    \E seen \in {used, [k \in Key |-> 0]} :
    LET kids == AppChildren(seen)
        resolved == Resolved(tenant, kids, request)
        resized == Changed(tenant, kids, request)
        rowsOf(a) == [k \in {l \in DOMAIN nested : Owner[l] = a} |-> nested[k]]
        touched == {a \in DOMAIN request : a \in resized \/ DOMAIN rowsOf(a) # {}}
        fresh == [a \in touched |->
                    Cascade(KeyChildren(a, seen), resolved[a].amount, rowsOf(a), a \in resized)]
        hit == UNION {ActiveKeys(a) : a \in touched}
        keysNow == [k \in Key |->
                      IF k \in hit THEN Resized(key[k], fresh[Owner[k]][k]) ELSE key[k]]
        writes == {k \in hit : keysNow[k].amount # key[k].amount}
    IN  /\ Starts(w)
        /\ Usage(seen)
        /\ tenant # Unset
        /\ DOMAIN request \subseteq ActiveApps
        /\ DOMAIN nested \subseteq UNION {ActiveKeys(a) : a \in DOMAIN request}
        /\ ResolveCode(tenant, kids, request) = "ok"
        /\ \A a \in touched : KeysResolve(KeyChildren(a, seen), resolved[a].amount, rowsOf(a))
        /\ app' = [a \in App |-> IF a \in resized THEN [status |-> "ACTIVE",
                                    budget |-> resolved[a].amount, pct |-> resolved[a].pct]
                                 ELSE app[a]]
        /\ WriteKeys(keysNow)
        /\ FollowUp(w, [k \in writes |-> keysNow[k].amount], seen)
        /\ behind' = (behind \ {k \in hit : key'[k] # key[k]})
                        \cup {k \in DOMAIN nested : Owner[k] \in resized /\ key'[k] = key[k]}
        /\ UNCHANGED <<tenant, ledger, slipped, charges>>

\* update_application_key_allocations: the application's own value is echoed.
ApplicationAllocate(w, a, request) ==
    \E seen \in {used, [k \in Key |-> 0]} :
    LET kids == KeyChildren(a, seen)
        writes == Changed(app[a].budget, kids, request)
        keysNow == [k \in Key |-> IF k \in writes
                                  THEN Resized(key[k], Convert(request[k], app[a].budget))
                                  ELSE key[k]]
    IN  /\ Starts(w)
        /\ Usage(seen)
        /\ app[a].budget # Unset
        /\ DOMAIN request \subseteq ActiveKeys(a)
        /\ KeysResolve(kids, app[a].budget, request)
        /\ WriteKeys(keysNow)
        /\ FollowUp(w, [k \in writes |-> keysNow[k].amount], seen)
        /\ behind' = behind \ writes
        /\ UNCHANGED <<tenant, app, ledger, slipped, charges>>

\* update_single_api_key_allocation reads the key before it locks the application.
SingleRead(w, k) ==
    /\ Starts(w)
    /\ key[k].state = "active"
    /\ req' = [req EXCEPT ![w] = [Ready EXCEPT !.pc = "single", !.target = k, !.row = key[k]]]
    /\ UNCHANGED <<rows, ledger, history, charges, faults>>

\* The session keeps the row it read: the key's old amount, percentage and
\* is_active are the copy's, and only columns that differ from it are written.
SingleCommit(w, input) ==
    \E seen \in {used, [l \in Key |-> 0]} :
    LET k == req[w].target
        copy == req[w].row
        a == Owner[k]
        kids == [l \in ActiveKeys(a) \cup {k} |->
                    IF l = k THEN [amount |-> copy.amount, pct |-> copy.pct, used |-> seen[k]]
                    ELSE KeyChildren(a, seen)[l]]
        request == [l \in {k} |-> input]
        c == Convert(input, app[a].budget)
        changed == c.amount # copy.amount
        row == [key[k] EXCEPT !.amount = c.amount,
                              !.pct = IF c.pct = copy.pct THEN key[k].pct ELSE c.pct]
        keysNow == IF changed THEN [key EXCEPT ![k] = row] ELSE key
    IN  /\ req[w].pc = "single"
        /\ Usage(seen)
        /\ app[a].budget # Unset
        /\ KeysResolve(kids, app[a].budget, request)
        /\ WriteKeys(keysNow)
        /\ FollowUp(w, [l \in (IF changed THEN {k} ELSE {}) |-> c.amount], seen)
        /\ behind' = IF key[k] # copy THEN behind \cup {k}
                     ELSE IF changed THEN behind \ {k} ELSE behind
        /\ UNCHANGED <<tenant, app, ledger, slipped, ops, charges>>

\* The request is refused, or dies, before it commits.
GiveUp(w) ==
    /\ req[w].pc \in {"single", "zero", "deactivate"}
    /\ req' = [req EXCEPT ![w] = Ready]
    /\ UNCHANGED <<rows, ledger, history, counters>>

-----------------------------------------------------------------------------
(* revise_tenant_budget, create_api_key, revocation                         *)

RevisedBudget(amount) == OrZero(tenant) + amount

\* Applications keep their amounts; their percentages follow the new total.  A
\* request without an action only moves the window, and comes here with 0; whether
\* the window's dates admit a request is left open.
ReviseBudget(w, amount) ==
    \E seen \in {used, [k \in Key |-> 0]} :
    LET new == RevisedBudget(amount)
        kids == AppChildren(seen)
        pcts == Recompute(new, kids, Newest(Funded(kids)))
    IN  /\ Starts(w)
        /\ Usage(seen)
        /\ amount > 0 => new <= MaxBudget
        /\ ResolveCode(new, kids, [a \in {} |-> 0]) = "ok"
        /\ tenant' = new
        /\ app' = [a \in App |-> IF a \in ActiveApps /\ kids[a].amount > 0
                                 THEN [app[a] EXCEPT !.pct = pcts[a]] ELSE app[a]]
        /\ req' = [req EXCEPT ![w].pc = "wallet", ![w].target = new]
        /\ UNCHANGED <<key, ledger, history, charges>>

\* _committed_total_for_application, in hundredths of a percent of a paisa.
CommittedTotal(a, seen) ==
    LET share == [k \in KeysOf(a) |->
                    IF key[k].state = "active"
                    THEN Max({key[k].pct * app[a].budget, seen[k] * Hundred})
                    ELSE seen[k] * Hundred]
    IN  Total(share, KeysOf(a))

CreateKey(w, k, input) ==
    \E seen \in {used, [l \in Key |-> 0]} :
    LET a == Owner[k]
        c == Convert(input, app[a].budget)
        ceiling == IF input.type = "FIXED" THEN input.value * Hundred
                   ELSE app[a].budget * input.value
        pcts == [l \in ActiveKeys(a) |-> key[l].pct]
    IN  /\ Starts(w)
        /\ Usage(seen)
        /\ key[k].state = "none" /\ \A l \in Key : l < k => key[l].state # "none"
        /\ input.value > 0
        /\ app[a].budget > 0
        /\ c.amount > 0 /\ c.pct > 0
        /\ Total(pcts, ActiveKeys(a)) + c.pct <= Hundred
        /\ CommittedTotal(a, seen) + ceiling <= app[a].budget * Hundred
        /\ key' = [key EXCEPT ![k] = [state |-> "active", amount |-> c.amount, pct |-> c.pct]]
        /\ req' = [req EXCEPT ![w] = [Ready EXCEPT !.pc = "seed", !.writes = [l \in {k} |-> c.amount],
                                                   !.clean = {k}]]
        /\ UNCHANGED <<tenant, app, ledger, history, charges>>

RevokeKey(w, k) ==
    /\ Starts(w)
    /\ key[k].state = "active"
    /\ WriteKeys([key EXCEPT ![k].state = "revoked"])
    /\ UNCHANGED <<tenant, app, ledger, req, history, charges, faults>>

-----------------------------------------------------------------------------
(* After the commit                                                         *)

\* Mistake: a key that already has a ledger row is left alone.
WriteSnapshotOnce(w) ==
    /\ req[w].pc \in {"snapshot", "seed"}
    /\ snap' = [k \in Key |-> IF k \in DOMAIN req[w].writes /\ snap[k] = Unset
                              THEN req[w].writes[k] ELSE snap[k]]
    /\ req' = [req EXCEPT ![w].pc = IF @ = "seed" THEN "done" ELSE "flags"]
    /\ UNCHANGED <<rows, used, flag, owed, history, counters>>

\* write_budget_snapshot upserts every ceiling, or fails and is logged.
WriteSnapshot(w) ==
    /\ req[w].pc \in {"snapshot", "seed"}
    /\ snap' = [k \in Key |-> IF k \in DOMAIN req[w].writes THEN req[w].writes[k] ELSE snap[k]]
    /\ req' = [req EXCEPT ![w].pc = IF @ = "seed" THEN "done" ELSE "flags"]
    /\ UNCHANGED <<rows, used, flag, owed, history, counters>>

SnapshotFails(w) ==
    /\ req[w].pc \in {"snapshot", "seed"}
    /\ faults < MaxFaults /\ faults' = faults + 1
    /\ req' = [req EXCEPT ![w].pc = IF @ = "seed" THEN "done" ELSE "flags", ![w].clean = {}]
    /\ UNCHANGED <<rows, ledger, history, ops, charges>>

Settle(w) ==
    /\ settled' = settled \cup req[w].clean
    /\ req' = [req EXCEPT ![w] = Ready]

\* _sync_key_exhaustion_flags: from the usage read before the commit.
SyncFlags(w) ==
    LET r == req[w]
        exhausted == {k \in DOMAIN r.writes : r.seen[k] >= r.writes[k]}
    IN  /\ r.pc = "flags"
        /\ flag' = (flag \ DOMAIN r.writes) \cup exhausted
        /\ Settle(w)
        /\ UNCHANGED <<rows, snap, used, owed, slipped, behind, counters>>

\* create_api_key goes on to the key's cache entry.
SeedDone(w) ==
    /\ req[w].pc = "done"
    /\ Settle(w)
    /\ UNCHANGED <<rows, ledger, slipped, behind, counters>>

IssuedKeys == {k \in Key : key[k].state # "none"}

\* The keys whose spending is below their own ceiling, or that have none.
Below == {k \in IssuedKeys : snap[k] = Unset \/ used[k] < snap[k]}

\* _sync_ppu_wallet_and_exhaustion reads the ledger: of the budget it was called
\* with, is anything left, and which keys may go on then?
WalletRead(w) ==
    LET busy == UNION {DOMAIN req[u].writes : u \in {v \in Worker : Following(v)}}
    IN  /\ req[w].pc = "wallet"
        /\ req' = [req EXCEPT ![w] =
              IF req[w].target <= Total(used, IssuedKeys) THEN [Ready EXCEPT !.pc = "exhaust"]
              ELSE [Ready EXCEPT !.pc = "clear", !.writes = [k \in Below |-> 0],
                                 !.clean = Below \ busy]]
        /\ UNCHANGED <<rows, ledger, history, counters>>

\* set_budget_exhausted_for_tenant
WalletExhaust(w) ==
    /\ req[w].pc = "exhaust"
    /\ flag' = flag \cup IssuedKeys
    /\ req' = [req EXCEPT ![w] = Ready]
    /\ UNCHANGED <<rows, snap, used, owed, history, counters>>

\* set_budget_exhausted_for_keys: from what was read before; a flag that came since
\* is lifted too.
WalletClear(w) ==
    LET lifted == flag \cap DOMAIN req[w].writes
    IN  /\ req[w].pc = "clear"
        /\ flag' = flag \ lifted
        /\ settled' = settled \ (lifted \ req[w].clean)
        /\ req' = [req EXCEPT ![w] = Ready]
        /\ UNCHANGED <<rows, snap, used, owed, slipped, behind, counters>>

\* The ledger or Redis cannot be reached; the revision stands.
WalletFails(w) ==
    /\ req[w].pc \in {"wallet", "exhaust", "clear"}
    /\ faults < MaxFaults /\ faults' = faults + 1
    /\ req' = [req EXCEPT ![w] = Ready]
    /\ UNCHANGED <<rows, ledger, history, ops, charges>>

-----------------------------------------------------------------------------
(* The billing consumer                                                     *)

\* A served request of the key is billed, maybe long after it was admitted.  A key
\* without a ledger row is not capped.
Bill(k) ==
    /\ charges < MaxCharges /\ charges' = charges + 1
    /\ k \in IssuedKeys
    /\ used' = [used EXCEPT ![k] = @ + Charge]
    /\ owed' = IF snap[k] # Unset /\ used'[k] >= snap[k] THEN owed \cup {k} ELSE owed
    /\ req' = [w \in Worker |-> Disturb(req[w], {k})]
    /\ UNCHANGED <<rows, snap, flag, history, ops, faults>>

\* _post_billing tells auth-service that the ceiling is reached,
PushFlag(k) ==
    /\ k \in owed /\ owed' = owed \ {k}
    /\ flag' = flag \cup {k}
    /\ UNCHANGED <<rows, snap, used, req, history, counters>>

\* or cannot, and leaves it to the next request of the key.
PushFails(k) ==
    /\ k \in owed /\ owed' = owed \ {k}
    /\ faults < MaxFaults /\ faults' = faults + 1
    /\ settled' = settled \ {k}
    /\ UNCHANGED <<rows, snap, used, flag, req, slipped, behind, ops, charges>>

Rows(S, Inputs) == UNION {[T -> Inputs] : T \in SUBSET S \ {{}}}
AtMostOne(S, Inputs) == UNION {[T -> Inputs] : T \in {U \in SUBSET S : Cardinality(U) <= 1}}

Administer(w) ==
    \/ \E a \in App :
          \/ \E pct \in Shares \cup {Unset} : CreateApplication(w, a, pct)
          \/ Activate(w, a) \/ DeactivateRead(w, a)
          \/ \E request \in Rows(ActiveKeys(a), KeyInputs) : ApplicationAllocate(w, a, request)
    \/ \E request \in Rows(ActiveApps, AppInputs) :
          \E nested \in AtMostOne(UNION {ActiveKeys(a) : a \in DOMAIN request}, KeyInputs) :
             TenantAllocate(w, request, nested)
    \/ \E k \in Key :
          \/ SingleRead(w, k) \/ RevokeKey(w, k)
          \/ \E input \in KeyInputs : CreateKey(w, k, input)
    \/ \E amount \in {0, TopUp} : ReviseBudget(w, amount)

Finish(w) ==
    \/ DeactivateZero(w) \/ DeactivateCommit(w) \/ GiveUp(w)
    \/ \E input \in KeyInputs : SingleCommit(w, input)
    \/ WriteSnapshot(w) \/ SnapshotFails(w) \/ SyncFlags(w) \/ SeedDone(w)
    \/ WalletRead(w) \/ WalletExhaust(w) \/ WalletClear(w) \/ WalletFails(w)

Next ==
    \/ \E w \in Worker : Administer(w) \/ Finish(w)
    \/ \E k \in Key : Bill(k) \/ PushFlag(k) \/ PushFails(k)

Spec == Init /\ [][Next]_vars

-----------------------------------------------------------------------------
(* Properties                                                               *)

CreatedApps == {a \in App : app[a].status # "none"}

AppsFit ==
    LET budgets == [a \in ActiveApps |-> OrZero(app[a].budget)]
    IN  tenant # Unset => Total(budgets, ActiveApps) <= tenant + Cardinality(CreatedApps)

KeysFit(a) ==
    LET amounts == [k \in ActiveKeys(a) |-> key[k].amount]
        budget == OrZero(app[a].budget)
        n == Cardinality(KeysOf(a))
    IN  Total(amounts, ActiveKeys(a)) * Hundred <= (budget + n) * Hundred + n * budget

\* No sequence of allocations, revisions, creations and deactivations gives the
\* active applications more than the tenant's budget and a paisa per application,
\* which resolve_level tolerates, or the active keys of one more than its own, a
\* paisa and a hundredth of a percent of it per key, unless a deactivation released
\* less than it meant to.  Resizing an application, resizing a key and creating a
\* key check different sums: create_api_key sums rounded percentages, which is
\* where the hundredths come from, and a percentage left behind misleads it.
ChildrenWithinParent ==
    ~slipped => AppsFit /\ \A a \in App : KeysOf(a) \cap behind = {} => KeysFit(a)

\* The amount is its percentage of the parent, to n hundredths below, one above,
\* and a paisa.  Of no parent nothing is left but the paisa per child.
Near(pct, amount, parent, n) ==
    IF parent = 0 THEN amount <= n
    ELSE /\ pct * parent <= amount * Hundred + n * parent + Hundred
         /\ amount * Hundred <= pct * parent + parent + Hundred

AppNear(a) == Near(app[a].pct, app[a].budget, tenant, Cardinality(CreatedApps))
KeyNear(k) ==
    Near(key[k].pct, key[k].amount, OrZero(app[Owner[k]].budget), Cardinality(KeysOf(Owner[k])))

\* The stored percentage of a funded child is its amount's share of the parent,
\* whichever of the two moved last: the last child of a recompute takes the rounding
\* of all its siblings, every other is off by one rounding.
PercentFollowsAmount ==
    ~slipped =>
        /\ \A a \in ActiveApps : tenant # Unset /\ OrZero(app[a].budget) > 0 => AppNear(a)
        /\ \A k \in Key \ behind : key[k].state = "active" /\ key[k].amount > 0 => KeyNear(k)

\* A ceiling whose write-through met no failure, no other change of the key and no
\* spending stands in the ledger, and from then on the key is flagged whenever it is
\* used up: no billing, no other request and no revision of the tenant's budget leaves
\* it unflagged, except that the push of the consumer may still be on its way, may
\* fail, or may be undone by a revision that read the ledger before the spending,
\* although the docstring of _sync_ppu_wallet_and_exhaustion has such a key keep its
\* flag "untouched by this path".
LedgerFollows ==
    \A k \in settled : key[k].state = "active" =>
        /\ snap[k] = key[k].amount
        /\ k \notin flag => used[k] < snap[k] \/ k \in owed
=============================================================================
