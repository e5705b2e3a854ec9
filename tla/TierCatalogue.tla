--------------------------- MODULE TierCatalogue ---------------------------
(***************************************************************************)
(* Tiers: the row in platform-core's database, who is on a tier (tenants   *)
(* in auth-service's database, services in mm_services), and the copy of   *)
(* its status and rate limit in Redis that every request is judged by.     *)
(*                                                                         *)
(* Nothing locks a tier.  A change of status reads the row, asks the other *)
(* database for tenants, its own for services, and commits; the copy is    *)
(* written after the commit, from the row as it is then.                   *)
(***************************************************************************)
EXTENDS Naturals, FiniteSets

CONSTANTS
    Tier, Tenant,
    Worker,             \* requests handled at the same time
    NoTier, NoCopy,
    Limits,             \* rate limits, one of them standing for "no limit"
    MaxOps, MaxFaults   \* bounds of a behaviour

ASSUME TierAssumption == NoTier \notin Tier

VARIABLES
    status, limit,  \* the row of a tier; "none" before it is created
    tierOf,         \* tenants.tier_id
    mapped,         \* the tiers some service lists in tier_ids
    copy,           \* core:tier:<id>
    locked,         \* rows of tenants locked FOR UPDATE
    req,            \* what each worker is doing
    ops, faults

rows == <<status, limit>>
uses == <<tierOf, mapped, locked>>
vars == <<status, limit, tierOf, mapped, copy, locked, req, ops, faults>>

Row(t) == [status |-> status[t], limit |-> limit[t]]
Exists(t) == status[t] \notin {"none", "DELETED"}
Idle == [pc |-> "idle"]

Init ==
    /\ status = [t \in Tier |-> "none"]
    /\ limit \in [Tier -> Limits]
    /\ tierOf = [n \in Tenant |-> NoTier] /\ mapped = {}
    /\ copy = [t \in Tier |-> NoCopy]
    /\ locked = {} /\ req = [w \in Worker |-> Idle]
    /\ ops = 0 /\ faults = 0

Starts(w) ==
    /\ req[w] = Idle /\ ops < MaxOps
    /\ ops' = ops + 1

Goto(w, q) == req' = [req EXCEPT ![w] = q]

Fault == faults < MaxFaults /\ faults' = faults + 1

-----------------------------------------------------------------------------
(* platform-core: the row                                                   *)

\* create_tier
Create(w, t) ==
    /\ Starts(w)
    /\ status[t] = "none"
    /\ status' = [status EXCEPT ![t] = "INACTIVE"]
    /\ Goto(w, [pc |-> "refresh", tier |-> t])
    /\ UNCHANGED <<limit, uses, copy, faults>>

\* update_tier: an unchanged column is not part of the UPDATE.
UpdateRead(w, t) ==
    /\ Starts(w)
    /\ Exists(t)
    /\ \E l \in Limits : Goto(w, [pc |-> "update", tier |-> t, seen |-> limit[t], new |-> l])
    /\ UNCHANGED <<rows, uses, copy, faults>>

UpdateCommit(w) ==
    /\ req[w].pc = "update"
    /\ LET q == req[w]
       IN  /\ limit' = IF q.new = q.seen THEN limit ELSE [limit EXCEPT ![q.tier] = q.new]
           /\ Goto(w, [pc |-> "refresh", tier |-> q.tier])
    /\ UNCHANGED <<status, uses, copy, ops, faults>>

ALLOWED_TIER_STATUS_TRANSITIONS ==
    {<<"INACTIVE", "ACTIVE">>, <<"ACTIVE", "DEACTIVATED">>,
     <<"DEACTIVATED", "ACTIVE">>, <<"DEACTIVATED", "DELETED">>}

\* update_tier_status: the row is read and the transition checked.
StatusRead(w, t) ==
    /\ Starts(w)
    /\ Exists(t)
    /\ \E to \in {"ACTIVE", "DEACTIVATED", "DELETED"} :
          /\ <<status[t], to>> \in ALLOWED_TIER_STATUS_TRANSITIONS
          /\ Goto(w, [pc |-> IF to = "ACTIVE" THEN "status" ELSE "tenants", tier |-> t, to |-> to])
    /\ UNCHANGED <<rows, uses, copy, faults>>

\* Refused while a tenant or a service is on the tier: one query in each database.
AskTenants(w) ==
    /\ req[w].pc = "tenants"
    /\ Goto(w, IF \E n \in Tenant : tierOf[n] = req[w].tier THEN Idle
               ELSE [req[w] EXCEPT !.pc = "services"])
    /\ UNCHANGED <<rows, uses, copy, ops, faults>>

AskServices(w) ==
    /\ req[w].pc = "services"
    /\ Goto(w, IF req[w].tier \in mapped THEN Idle ELSE [req[w] EXCEPT !.pc = "status"])
    /\ UNCHANGED <<rows, uses, copy, ops, faults>>

StatusCommit(w) ==
    /\ req[w].pc = "status"
    /\ status' = [status EXCEPT ![req[w].tier] = req[w].to]
    /\ Goto(w, [pc |-> "refresh", tier |-> req[w].tier])
    /\ UNCHANGED <<limit, uses, copy, ops, faults>>

-----------------------------------------------------------------------------
(* platform-core: the copy                                                  *)

\* Mistake: the key is written without an EXPIRE.
KeyOfForGood(row) == [row |-> row, ttl |-> FALSE]

\* _queue_write
KeyOf(row) == [row |-> row, ttl |-> TRUE]

\* session.refresh(tier)
Refresh(w) ==
    /\ req[w].pc = "refresh"
    /\ Goto(w, [pc |-> "write", tier |-> req[w].tier, row |-> Row(req[w].tier)])
    /\ UNCHANGED <<rows, uses, copy, ops, faults>>

\* A deleted tier has no key.
TierKey(row) == IF row.status = "DELETED" THEN NoCopy ELSE KeyOf(row)

\* write_tier
WriteTier(w) ==
    /\ req[w].pc = "write"
    /\ copy' = [copy EXCEPT ![req[w].tier] = TierKey(req[w].row)]
    /\ Goto(w, Idle)
    /\ UNCHANGED <<rows, uses, ops, faults>>

\* A failed write is logged; a process that dies here leaves it undone as well.
WriteTierFails(w) ==
    /\ req[w].pc \in {"refresh", "write", "back"}
    /\ Fault
    /\ Goto(w, Idle)
    /\ UNCHANGED <<rows, uses, copy, ops>>

\* rebuild_all, at startup: the live rows, then a scan for the keys of others,
\* then one pipeline.
RebuildRead(w) ==
    /\ Starts(w)
    /\ Goto(w, [pc |-> "scan", live |-> [t \in {u \in Tier : Exists(u)} |-> Row(t)]])
    /\ UNCHANGED <<rows, uses, copy, faults>>

RebuildScan(w) ==
    /\ req[w].pc = "scan"
    /\ LET live == req[w].live
       IN  Goto(w, [pc |-> "rebuild", live |-> live,
                    stale |-> {t \in Tier : copy[t] # NoCopy} \ DOMAIN live])
    /\ UNCHANGED <<rows, uses, copy, ops, faults>>

RebuildWrite(w) ==
    /\ req[w].pc = "rebuild"
    /\ LET q == req[w]
       IN  copy' = [t \in Tier |-> IF t \in DOMAIN q.live THEN KeyOf(q.live[t])
                                   ELSE IF t \in q.stale THEN NoCopy ELSE copy[t]]
    /\ Goto(w, Idle)
    /\ UNCHANGED <<rows, uses, ops, faults>>

\* The TTL of ten minutes, or an eviction.
Expire(t) ==
    /\ copy[t] # NoCopy /\ copy[t].ttl
    /\ copy' = [copy EXCEPT ![t] = NoCopy]
    /\ UNCHANGED <<rows, uses, req, ops, faults>>

-----------------------------------------------------------------------------
(* auth-service: the copy repaired by /auth/validate                        *)

\* tier_lookup.get_tier on a miss: the row of a tier that is not DELETED, and
\* nothing when there is none or the query fails (the request passes).
LookupMiss(w, t) ==
    /\ Starts(w)
    /\ copy[t] = NoCopy
    /\ Goto(w, IF Exists(t) THEN [pc |-> "back", tier |-> t, row |-> Row(t)] ELSE Idle)
    /\ UNCHANGED <<rows, uses, copy, faults>>

\* set_tier_cache: a script that writes only when the key is absent.
WriteBack(w) ==
    /\ req[w].pc = "back"
    /\ copy' = IF copy[req[w].tier] # NoCopy THEN copy
               ELSE [copy EXCEPT ![req[w].tier] = KeyOf(req[w].row)]
    /\ Goto(w, Idle)
    /\ UNCHANGED <<rows, uses, ops, faults>>

-----------------------------------------------------------------------------
(* Who is on a tier                                                         *)

\* assign_tenant_tier and unassign_tenant_tier lock the tenant.
LockTenant(w, n, t) ==
    /\ Starts(w)
    /\ n \notin locked
    /\ locked' = locked \cup {n}
    /\ Goto(w, [pc |-> IF t = NoTier THEN "assign" ELSE "lookup", tenant |-> n, tier |-> t])
    /\ UNCHANGED <<rows, tierOf, mapped, copy, faults>>

\* Mistake: the tier only has to exist.
AssignableIfExists(t) == Exists(t)

\* The tier must be ACTIVE when it is looked up.
Assignable(t) == status[t] = "ACTIVE"

LookupTier(w) ==
    /\ req[w].pc = "lookup"
    /\ LET q == req[w]
       IN  IF Assignable(q.tier) /\ tierOf[q.tenant] # q.tier
           THEN Goto(w, [q EXCEPT !.pc = "assign"]) /\ UNCHANGED locked
           ELSE Goto(w, Idle) /\ locked' = locked \ {q.tenant}
    /\ UNCHANGED <<rows, tierOf, mapped, copy, ops, faults>>

AssignCommit(w) ==
    /\ req[w].pc = "assign"
    /\ tierOf' = [tierOf EXCEPT ![req[w].tenant] = req[w].tier]
    /\ locked' = locked \ {req[w].tenant}
    /\ Goto(w, Idle)
    /\ UNCHANGED <<rows, mapped, copy, ops, faults>>

\* _validate_tier_ids_exist, when a service's tier_ids change
MapRead(w, ts) ==
    /\ Starts(w)
    /\ ts = mapped \/ \A t \in ts : status[t] = "ACTIVE"
    /\ Goto(w, [pc |-> "map", tiers |-> ts])
    /\ UNCHANGED <<rows, uses, copy, faults>>

MapCommit(w) ==
    /\ req[w].pc = "map"
    /\ mapped' = req[w].tiers
    /\ Goto(w, Idle)
    /\ UNCHANGED <<rows, tierOf, locked, copy, ops, faults>>

-----------------------------------------------------------------------------
Progress(w) ==
    \/ UpdateCommit(w) \/ AskTenants(w) \/ AskServices(w) \/ StatusCommit(w)
    \/ Refresh(w) \/ WriteTier(w) \/ RebuildScan(w) \/ RebuildWrite(w) \/ WriteBack(w)
    \/ LookupTier(w) \/ AssignCommit(w) \/ MapCommit(w)

Next ==
    \/ \E w \in Worker :
          \/ \E t \in Tier :
                \/ Create(w, t) \/ UpdateRead(w, t) \/ StatusRead(w, t) \/ LookupMiss(w, t)
                \/ \E n \in Tenant : LockTenant(w, n, t)
          \/ \E n \in Tenant : LockTenant(w, n, NoTier)
          \/ \E ts \in SUBSET Tier : MapRead(w, ts)
          \/ RebuildRead(w)
          \/ Progress(w)
          \/ WriteTierFails(w)
    \/ \E t \in Tier : Expire(t)

\* Requests end, and keys expire.
Fairness ==
    /\ \A w \in Worker : WF_vars(Progress(w))
    /\ \A t \in Tier : WF_vars(Expire(t))

Spec == Init /\ [][Next]_vars /\ Fairness

-----------------------------------------------------------------------------

\* No tenant and no service is ever on a tier that was not published: the lookup and
\* the commit of an assignment are apart, but no edit takes a tier back to INACTIVE.
NeverOnDraft ==
    \A t \in Tier : t \in mapped \/ (\E n \in Tenant : tierOf[n] = t)
                       => status[t] \notin {"none", "INACTIVE"}

\* Whatever is written late, out of order or not at all, once the edits end the copy
\* shows the row or is not there: no request is judged by an old status for good.
CopiesConverge ==
    \A t \in Tier : <>[](copy[t] # NoCopy => copy[t].row = Row(t))
=============================================================================
