---------------------------- MODULE QuotaChanges ----------------------------
(***************************************************************************)
(* The monthly quota of one tier and task type, and what is said about it. *)
(* An edit schedules a new quota, a cancellation withdraws it, the monthly *)
(* cron applies it (tier_service); an edit is then announced in the        *)
(* background to the tenants on the tier and, in one copy, to the platform *)
(* ADMIN (QUOTA_LIMIT_UPDATED, a STATE notification: emit_state_bulk).     *)
(* A tenant's ledger row holds the fingerprint announced last, and the     *)
(* same one again is a duplicate.                                          *)
(*                                                                         *)
(* A request reads the row without a lock and commits the columns it has   *)
(* changed in its copy.  The announcement is no part of the transaction:   *)
(* it runs on in the process, and is gone when the process is.             *)
(***************************************************************************)
EXTENDS Naturals

CONSTANTS
    Tenant,      \* tenants on the tier
    Admin,       \* the platform's administrators, who share one copy
    Limit,       \* quotas
    NoQuota, NoNews,
    Worker,      \* requests in progress, with the announcements they start
    MaxOps,      \* bound: requests
    MaxMonths,   \* bound: months that begin
    MaxFaults    \* bound: failed calls and processes that die

VARIABLES
    month,
    quota,       \* tier_quotas: monthly_quota and pending_monthly_quota
    enabled,     \* who is to hear of it: subscribed tenants, ADMIN by recipient_roles
    req,
    ledger,      \* ledger_notification_alert: the fingerprint of each tenant's row
    told,        \* what each was told last
    missed,      \* news with a failure row, or lost with a process, for each
    ops, faults,
    since        \* history: when the pending quota was announced, and whether undisturbed

vars == <<month, quota, enabled, req, ledger, told, missed, ops, faults, since>>

Audience == Tenant \union {Admin}

News(from, to, effective) == [from |-> from, to |-> to, effective |-> effective]

\* Mistake: the date is no part of the state.
FingerprintUndated(news) == [news EXCEPT !.effective = 0]

\* state_hash of new_state.
Fingerprint(news) == news

Idle == [pc |-> "idle", copy |-> NoQuota, limit |-> NoQuota, cancels |-> FALSE,
         news |-> NoNews, won |-> {}]

Init ==
    /\ month = 0
    /\ quota \in [monthly : Limit, pending : {NoQuota}]
    /\ enabled \in SUBSET Audience
    /\ req = [w \in Worker |-> Idle]
    /\ ledger = [n \in Tenant |-> NoNews]
    /\ told = [a \in Audience |-> NoNews]
    /\ missed = [a \in Audience |-> {}]
    /\ ops = 0 /\ faults = 0
    /\ since = [effective |-> 0, sound |-> TRUE]

At(w, pc) == req[w].pc = pc
Announcing(w) == req[w].pc \in {"lookup", "claim", "recipients", "deliver"}

-----------------------------------------------------------------------------
(* The quota *)

Begin(w, pc, limit, cancels) ==
    /\ At(w, "idle") /\ ops < MaxOps
    /\ ops' = ops + 1
    /\ req' = [req EXCEPT ![w] = [Idle EXCEPT !.pc = pc, !.copy = quota, !.limit = limit,
                                              !.cancels = cancels]]
    /\ UNCHANGED <<month, quota, enabled, ledger, told, missed, faults, since>>

\* update_tier, with a limit for the type, with its cancellation, or with both; and
\* apply_pending_quotas, which finds a pending quota or has nothing to do.
EditRead(w) == \E limit \in Limit, cancels \in BOOLEAN : Begin(w, "edit", limit, cancels)
CancelRead(w) == Begin(w, "cancel", NoQuota, TRUE)
CronRead(w) == quota.pending # NoQuota /\ Begin(w, "cron", NoQuota, FALSE)

Scheduled(q) == IF q.pending # NoQuota THEN q.pending ELSE q.monthly

\* _upsert_quotas: worth announcing when neither the scheduled nor the present quota.
Changes(q, limit) == limit # Scheduled(q) /\ limit # q.monthly

\* The pending quota that the commit leaves.  A column equal to the copy is not written;
\* with a limit as well, the cancellation follows the flush of the limit.
Pending(w) ==
    IF req[w].pc = "edit" /\ ~req[w].cancels
    THEN IF req[w].limit = req[w].copy.pending THEN quota.pending ELSE req[w].limit
    ELSE IF req[w].pc = "cancel" /\ req[w].copy.pending = NoQuota THEN quota.pending ELSE NoQuota

Stale(w) == req[w].copy # quota

\* What the ledger holds was told, or is accounted for.
Agreed ==
    \A n \in enabled \intersect Tenant, a \in enabled :
        \/ ledger[n] = NoNews
        \/ \E news \in ({told[a]} \union missed[a]) \ {NoNews} : ledger[n] = Fingerprint(news)

EditCommit(w) ==
    LET copy == req[w].copy
        news == News(copy.monthly, req[w].limit, month + 1)
    IN /\ At(w, "edit")
       /\ quota' = [quota EXCEPT !.pending = Pending(w)]
       /\ IF Changes(copy, req[w].limit)
          THEN /\ req' = [req EXCEPT ![w] = [Idle EXCEPT !.pc = "lookup", !.news = news]]
               /\ since' = [effective |-> month + 1,
                            sound |-> /\ ~Stale(w) /\ Agreed
                                      /\ \A v \in Worker \ {w} : ~Announcing(v)]
          ELSE /\ req' = [req EXCEPT ![w] = Idle]
               /\ since' = [since EXCEPT !.sound = @ /\ ~Stale(w)]
       /\ UNCHANGED <<month, enabled, ledger, told, missed, ops, faults>>

CancelCommit(w) ==
    /\ At(w, "cancel")
    /\ quota' = [quota EXCEPT !.pending = Pending(w)]
    /\ req' = [req EXCEPT ![w] = Idle]
    /\ since' = [since EXCEPT !.sound = @ /\ ~Stale(w)]
    /\ UNCHANGED <<month, enabled, ledger, told, missed, ops, faults>>

\* The month's quota becomes what was pending when the cron looked.
CronCommit(w) ==
    /\ At(w, "cron")
    /\ quota' = [monthly |-> IF req[w].copy.pending = req[w].copy.monthly
                             THEN quota.monthly ELSE req[w].copy.pending,
                 pending |-> Pending(w)]
    /\ req' = [req EXCEPT ![w] = Idle]
    /\ since' = [since EXCEPT !.sound = @ /\ ~Stale(w)]
    /\ UNCHANGED <<month, enabled, ledger, told, missed, ops, faults>>

\* A month begins; an announcement on its way to its date will name the next one.
Tick ==
    /\ month < MaxMonths
    /\ month' = month + 1
    /\ since' = [since EXCEPT !.sound = @ /\ \A w \in Worker : ~At(w, "lookup")]
    /\ UNCHANGED <<quota, enabled, req, ledger, told, missed, ops, faults>>

-----------------------------------------------------------------------------
(* The announcement *)

\* Tenants of the tier, settings and subscriptions are read, and the date is set.
Lookup(w) ==
    /\ At(w, "lookup")
    /\ req' = [req EXCEPT ![w] =
                 IF enabled \intersect Tenant = {} THEN Idle
                 ELSE [@ EXCEPT !.pc = "claim", !.news.effective = month + 1]]
    /\ UNCHANGED <<month, quota, enabled, ledger, told, missed, ops, faults, since>>

Won(w) == {n \in enabled \intersect Tenant : ledger[n] # Fingerprint(req[w].news)}
Claimed(w) == [n \in Tenant |-> IF n \in Won(w) THEN Fingerprint(req[w].news) ELSE ledger[n]]

\* One statement for all tenants, which returns those whose row it has changed.
Claim(w) ==
    /\ At(w, "claim")
    /\ ledger' = Claimed(w)
    /\ req' = [req EXCEPT ![w] = IF Won(w) = {} THEN Idle
                                 ELSE [@ EXCEPT !.pc = "recipients", !.won = Won(w)]]
    /\ UNCHANGED <<month, quota, enabled, told, missed, ops, faults, since>>

Recipients(w) ==
    /\ At(w, "recipients")
    /\ req' = [req EXCEPT ![w].pc = "deliver"]
    /\ UNCHANGED <<month, quota, enabled, ledger, told, missed, ops, faults, since>>

\* Whose copy is next: the tenants', then the consolidated one of ADMIN, if there are any.
Due(w) == IF req[w].won # {} THEN req[w].won ELSE enabled \intersect {Admin}

Served(w, a) ==
    IF Due(w) = {a} /\ (a = Admin \/ Admin \notin enabled) THEN Idle
    ELSE [req[w] EXCEPT !.won = @ \ {a}]

Deliver(w) ==
    /\ At(w, "deliver")
    /\ \E a \in Due(w) :
          /\ told' = [told EXCEPT ![a] = req[w].news]
          /\ req' = [req EXCEPT ![w] = Served(w, a)]
    /\ UNCHANGED <<month, quota, enabled, ledger, missed, ops, faults, since>>

-----------------------------------------------------------------------------
(* Failures *)

Fault == faults < MaxFaults /\ faults' = faults + 1

Miss(w, S) == [a \in Audience |-> IF a \in S THEN missed[a] \union {req[w].news} ELSE missed[a]]

\* The audience an announcement has not reached yet.
Waiting(w) ==
    IF req[w].pc \in {"recipients", "deliver"}
    THEN Due(w) \union req[w].won \union (enabled \intersect {Admin}) ELSE enabled

\* TENANT_LOOKUP_FAILED, SETTINGS_UNAVAILABLE, SUBSCRIPTION_UNAVAILABLE,
\* RECIPIENTS_LOOKUP_FAILED: one failure row for the fan-out, or one for each claim.
\* A process that dies leaves none.
Fails(w) ==
    /\ Announcing(w) /\ Fault
    /\ missed' = Miss(w, Waiting(w))
    /\ req' = [req EXCEPT ![w] = Idle]
    /\ UNCHANGED <<month, quota, enabled, ledger, told, ops, since>>

\* LEDGER_WRITE_FAILED, although the commit may have been applied.
ClaimFails(w) ==
    /\ At(w, "claim") /\ Fault
    /\ ledger' = Claimed(w)
    /\ missed' = Miss(w, enabled)
    /\ req' = [req EXCEPT ![w] = Idle]
    /\ UNCHANGED <<month, quota, enabled, told, ops, since>>

\* NO_RECIPIENTS or KAFKA_SEND_FAILED for one copy; the others follow.
DeliverFails(w) ==
    /\ At(w, "deliver") /\ Fault
    /\ \E a \in Due(w) :
          /\ missed' = Miss(w, {a})
          /\ req' = [req EXCEPT ![w] = Served(w, a)]
    /\ UNCHANGED <<month, quota, enabled, ledger, told, ops, since>>

Next ==
    \/ \E w \in Worker :
          \/ EditRead(w) \/ CancelRead(w) \/ CronRead(w)
          \/ EditCommit(w) \/ CancelCommit(w) \/ CronCommit(w)
          \/ Lookup(w) \/ Claim(w) \/ Recipients(w) \/ Deliver(w)
          \/ Fails(w) \/ ClaimFails(w) \/ DeliverFails(w)
    \/ Tick

Spec == Init /\ [][Next]_vars

-----------------------------------------------------------------------------
(* Properties *)

\* Once no announcement is on its way, whoever is to hear of a scheduled quota was last
\* told that very change with its date, or a failure row or a process that died accounts
\* for it: neither a change taken back and made again, nor one of an earlier month, is
\* dropped as a duplicate of something else.  Excepted are a change committed on an
\* outdated row, two announcements at a time, and one that the month overtakes.
ScheduledIsTold ==
    LET news == News(quota.monthly, quota.pending, since.effective)
    IN /\ quota.pending \notin {NoQuota, quota.monthly} /\ since.sound
       /\ enabled \intersect Tenant # {}
       /\ \A w \in Worker : ~Announcing(w)
       => \A a \in enabled : told[a] = news \/ news \in missed[a]
=============================================================================
