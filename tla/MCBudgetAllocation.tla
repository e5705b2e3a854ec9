------------------------- MODULE MCBudgetAllocation -------------------------
(***************************************************************************)
(* Instances for TLC of BudgetAllocation (a budget whose half is not a     *)
(* whole number of paise, two applications, two keys of the first one), of *)
(* ApiKeyLifecycle (one key) and of QuotaChanges (one quota of one tier).  *)
(* The allocations never look at a key's values, nor the values at its     *)
(* ceiling, and neither at a tier's quotas, so that they are explored side *)
(* by side: a behaviour is one of ceilings, of values or of quotas.        *)
(***************************************************************************)
EXTENDS BudgetAllocation, TLC

CONSTANTS w1, w2, MaxValues, MaxTime, MaxRequests, Lifetime,
    Tenant, Admin, Limit, NoQuota, NoNews, MaxEdits, MaxMonths

VARIABLES
    part,       \* which of the three the behaviour is of
    row, tenantStatus, appStatus, redis, tainted, worker, now, requests, keyFaults,
    month, quota, enabled, qreq, alerts, told, missed, edits, quotaFaults, since

kvars == <<row, tenantStatus, appStatus, redis, tainted, worker, now, requests, keyFaults>>
qvars == <<month, quota, enabled, qreq, alerts, told, missed, edits, quotaFaults, since>>

K == INSTANCE ApiKeyLifecycle WITH tenant <- tenantStatus, app <- appStatus, faults <- keyFaults
Q == INSTANCE QuotaChanges WITH
        MaxOps <- MaxEdits, req <- qreq, ledger <- alerts, ops <- edits, faults <- quotaFaults

MCOwner == [k \in Key |-> IF k <= 2 THEN 1 ELSE 2]
Fixed(n) == [type |-> "FIXED", value |-> n]
Percentage(n) == [type |-> "PERCENTAGE", value |-> n]
MCAppInputs == {Fixed(175)}
MCKeyInputs == {Fixed(100), Percentage(5000)}
MCBudgets == {Unset, 501}

MCInit ==
    /\ part \in {"ceilings", "values", "quotas"}
    /\ Init /\ K!Init /\ Q!Init
    /\ part # "ceilings" => tenant = Unset
    /\ part # "values" => row = K!Created
    /\ part # "quotas" => enabled = {} /\ quota.monthly = CHOOSE limit \in Limit : TRUE

MCNext ==
    \/ part = "ceilings" /\ Next /\ UNCHANGED <<part, kvars, qvars>>
    \/ part = "values" /\ K!Next /\ UNCHANGED <<part, vars, qvars>>
    \/ part = "quotas" /\ Q!Next /\ UNCHANGED <<part, vars, kvars>>

MCSpec == MCInit /\ [][MCNext]_<<part, vars, kvars, qvars>>

EntryBacked == K!EntryBacked
PreviousKeepsWorking == K!PreviousKeepsWorking
ScheduledIsTold == Q!ScheduledIsTold

Sym == Permutations(Worker)
=============================================================================
