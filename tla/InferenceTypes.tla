--------------------------- MODULE InferenceTypes ---------------------------
(***************************************************************************)
(* The catalogue of billable inference types: the table, its copies in     *)
(* Redis (one hash per name and one of all rows) written by platform-core  *)
(* alone, the tier quotas that point at a type, and the snapshot a client  *)
(* process (auth-service, inference-service) reads through the copies.     *)
(***************************************************************************)
EXTENDS Naturals, FiniteSets

CONSTANTS
    Name,
    Worker,         \* requests handled at the same time
    None, NoKey,
    MaxTypes, MaxOps, MaxFaults     \* bounds of a behaviour

VARIABLES
    types,      \* the table: name -> row or None
    created,    \* ids handed out
    quotas,     \* rows of tier_quotas and quota_usage: the id and the name they hold
    allKey,     \* core:inference_type:all
    nameKey,    \* core:inference_type:<name>
    snapshot, fresh,    \* a client's snapshot, and whether it is within its TTL
    req, ops, faults

table == <<types, created, quotas>>
keys == <<allKey, nameKey>>
client == <<snapshot, fresh>>
vars == <<types, created, quotas, allKey, nameKey, snapshot, fresh, req, ops, faults>>

Idle == [pc |-> "idle"]
Nothing == [n \in Name |-> None]
Named(rs) == {n \in Name : rs[n] # None}

Init ==
    /\ types = Nothing /\ created = 0 /\ quotas = {}
    /\ allKey = NoKey /\ nameKey = [n \in Name |-> NoKey]
    /\ snapshot = Nothing /\ fresh = FALSE
    /\ req = [w \in Worker |-> Idle]
    /\ ops = 0 /\ faults = 0

Starts(w) ==
    /\ req[w] = Idle /\ ops < MaxOps
    /\ ops' = ops + 1

Goto(w, q) == req' = [req EXCEPT ![w] = q]

Rebuild(sweep) == [pc |-> "fetch", sweep |-> sweep]

-----------------------------------------------------------------------------
(* The table                                                                *)

\* create_inference_type: the name is unique.
Create(w, n) ==
    /\ Starts(w)
    /\ types[n] = None /\ created < MaxTypes
    /\ types' = [types EXCEPT ![n] = [id |-> created + 1, unit |-> 0]]
    /\ created' = created + 1
    /\ Goto(w, Rebuild(TRUE))
    /\ UNCHANGED <<quotas, keys, client, faults>>

\* _referencing_tables: by id, or by a name stored in the row
References(id, n) == {q \in quotas : q.id = id \/ q.name = n}

\* update_inference_type and delete_inference_type read the row first; an update of
\* the unit needs no more, a rename or a delete looks for references.
EditRead(w, n, op, to) ==
    /\ Starts(w)
    /\ types[n] # None
    /\ Goto(w, [pc |-> IF op = "edit" THEN "commit" ELSE "refs",
                op |-> op, id |-> types[n].id, name |-> n, to |-> to])
    /\ UNCHANGED <<table, keys, client, faults>>

EditReferences(w) ==
    /\ req[w].pc = "refs"
    /\ Goto(w, IF References(req[w].id, req[w].name) # {} THEN Idle
               ELSE [req[w] EXCEPT !.pc = "commit"])
    /\ UNCHANGED <<table, keys, client, ops, faults>>

\* Mistake: the quota's column is no foreign key.
DeletableAnyway(id) == TRUE

\* tier_quotas.inference_type_id is a foreign key.
Deletable(id) == \A q \in quotas : q.id # id

NameOf(id) == CHOOSE n \in Name : types[n] # None /\ types[n].id = id

\* The row is found by its id: when it is gone, an UPDATE raises and a DELETE does
\* nothing.  A taken name and a foreign key raise.
EditCommit(w) ==
    /\ req[w].pc = "commit"
    /\ LET q == req[w]
           there == \E n \in Name : types[n] # None /\ types[n].id = q.id
           n == NameOf(q.id)
           accepted == \/ q.op = "delete" /\ Deletable(q.id)
                       \/ q.op = "edit" /\ there
                       \/ q.op = "rename" /\ there /\ (q.to = n \/ types[q.to] = None)
       IN  /\ types' = IF ~(there /\ accepted) THEN types
                       ELSE CASE q.op = "delete" -> [types EXCEPT ![n] = None]
                              [] q.op = "edit" -> [types EXCEPT ![n].unit = 1 - @]
                              [] q.op = "rename" -> [types EXCEPT ![n] = None, ![q.to] = types[n]]
           /\ Goto(w, IF accepted THEN Rebuild(TRUE) ELSE Idle)
    /\ UNCHANGED <<created, quotas, keys, client, ops, faults>>

-----------------------------------------------------------------------------
(* The keys                                                                 *)

\* rebuild: the whole table,
RebuildFetch(w) ==
    /\ req[w].pc = "fetch"
    /\ Goto(w, [pc |-> IF req[w].sweep THEN "hkeys" ELSE "pipe", rows |-> types, stale |-> {}])
    /\ UNCHANGED <<table, keys, client, ops, faults>>

\* for a sweep the names in :all that are not in it,
RebuildSweep(w) ==
    /\ req[w].pc = "hkeys"
    /\ Goto(w, [req[w] EXCEPT !.pc = "pipe",
                    !.stale = IF allKey = NoKey THEN {} ELSE Named(allKey) \ Named(req[w].rows)])
    /\ UNCHANGED <<table, keys, client, ops, faults>>

\* and one pipeline that rewrites every key.
RebuildWrite(w) ==
    /\ req[w].pc = "pipe"
    /\ LET rows == req[w].rows
       IN  /\ allKey' = IF Named(rows) = {} THEN NoKey ELSE rows
           /\ nameKey' = [n \in Name |-> IF rows[n] # None THEN rows[n]
                                         ELSE IF n \in req[w].stale THEN NoKey ELSE nameKey[n]]
    /\ Goto(w, Idle)
    /\ UNCHANGED <<table, client, ops, faults>>

\* A failed write is logged, and so is one the process did not live to make.
WriteFails(w) ==
    /\ req[w].pc \in {"hkeys", "pipe", "warm"}
    /\ faults < MaxFaults /\ faults' = faults + 1
    /\ Goto(w, Idle)
    /\ UNCHANGED <<table, keys, client, ops>>

\* get_all without :all rebuilds and does not sweep.
GetAll(w) ==
    /\ Starts(w)
    /\ allKey = NoKey
    /\ Goto(w, Rebuild(FALSE))
    /\ UNCHANGED <<table, keys, client, faults>>

\* get_by_name without a key reads the row and warms the key.
GetByName(w, n) ==
    /\ Starts(w)
    /\ nameKey[n] = NoKey /\ types[n] # None
    /\ Goto(w, [pc |-> "warm", name |-> n, row |-> types[n]])
    /\ UNCHANGED <<table, keys, client, faults>>

GetByNameWarm(w) ==
    /\ req[w].pc = "warm"
    /\ nameKey' = [nameKey EXCEPT ![req[w].name] = req[w].row]
    /\ Goto(w, Idle)
    /\ UNCHANGED <<table, allKey, client, ops, faults>>

\* The TTL of a day, or an eviction.
ExpireAll ==
    /\ allKey # NoKey
    /\ allKey' = NoKey
    /\ UNCHANGED <<table, nameKey, client, req, ops, faults>>

ExpireName(n) ==
    /\ nameKey[n] # NoKey
    /\ nameKey' = [nameKey EXCEPT ![n] = NoKey]
    /\ UNCHANGED <<table, allKey, client, req, ops, faults>>

-----------------------------------------------------------------------------
(* The users of the catalogue                                               *)

\* create_tier: the id of the name as the key has it, or the table without a key.
QuotaRead(w, n) ==
    /\ Starts(w)
    /\ LET row == IF nameKey[n] # NoKey THEN nameKey[n] ELSE types[n]
       IN  row # None /\ Goto(w, [pc |-> "quota", id |-> row.id, name |-> n])
    /\ UNCHANGED <<table, keys, client, faults>>

\* The foreign key refuses an id that is gone.
QuotaCommit(w) ==
    /\ req[w].pc = "quota"
    /\ quotas' = IF \E n \in Name : types[n] # None /\ types[n].id = req[w].id
                 THEN quotas \cup {[id |-> req[w].id, name |-> req[w].name]} ELSE quotas
    /\ Goto(w, Idle)
    /\ UNCHANGED <<types, created, keys, client, ops, faults>>

\* deduct_balance_and_update_quota: a row of quota_usage for a quota, with the name the
\* type has now.
RecordUsage ==
    /\ \E q \in quotas, n \in Named(types) :
          types[n].id = q.id /\ quotas' = quotas \cup {[id |-> q.id, name |-> n]}
    /\ UNCHANGED <<types, created, keys, client, req, ops, faults>>

\* What the providers return, in their order; an empty answer is passed over.
Offered == IF allKey # NoKey THEN allKey ELSE types

Adopt(rows) ==
    /\ Named(rows) # {}
    /\ snapshot' = rows
    /\ fresh' = TRUE

\* InferenceTypeCatalogue.refresh
ClientRefresh ==
    /\ ~fresh
    /\ Adopt(Offered)
    /\ UNCHANGED <<table, keys, req, ops, faults>>

\* Redis fails: the next provider reads the table.
ClientRefreshFallback ==
    /\ ~fresh
    /\ faults < MaxFaults /\ faults' = faults + 1
    /\ Adopt(types)
    /\ UNCHANGED <<table, keys, req, ops>>

\* Mistake: the snapshot stays until the process restarts.
ClientNeverExpires ==
    /\ fresh /\ snapshot = Nothing
    /\ fresh' = FALSE
    /\ UNCHANGED <<table, keys, snapshot, req, ops, faults>>

\* ttl_seconds have passed.
ClientExpires ==
    /\ fresh
    /\ fresh' = FALSE
    /\ UNCHANGED <<table, keys, snapshot, req, ops, faults>>

-----------------------------------------------------------------------------
Progress(w) ==
    \/ EditReferences(w) \/ EditCommit(w) \/ QuotaCommit(w)
    \/ RebuildFetch(w) \/ RebuildSweep(w) \/ RebuildWrite(w) \/ GetByNameWarm(w)

Next ==
    \/ \E w \in Worker :
          \/ \E n \in Name :
                \/ Create(w, n) \/ GetByName(w, n) \/ QuotaRead(w, n)
                \/ EditRead(w, n, "edit", n) \/ EditRead(w, n, "delete", n)
                \/ \E to \in Name \ {n} : EditRead(w, n, "rename", to)
          \/ GetAll(w)
          \/ Progress(w)
          \/ WriteFails(w)
    \/ RecordUsage
    \/ ExpireAll \/ (\E n \in Name : ExpireName(n))
    \/ ClientRefresh \/ ClientRefreshFallback \/ ClientExpires

\* Requests end, keys and snapshots expire, and a client asks again.
Fairness ==
    /\ \A w \in Worker : WF_vars(Progress(w))
    /\ WF_vars(ExpireAll) /\ \A n \in Name : WF_vars(ExpireName(n))
    /\ WF_vars(ClientRefresh) /\ WF_vars(ClientExpires)

Spec == Init /\ [][Next]_vars /\ Fairness

-----------------------------------------------------------------------------
Ids == {types[n].id : n \in Named(types)}

\* A quota points at a type that exists, although the id came from a key that may be a
\* day old and the type's last reference was looked for before its deletion commits.
QuotaHasType == \A q \in quotas : q.id \in Ids

\* Rebuilds that overtake each other, warm-ups of rows that changed meanwhile and writes
\* that fail leave no key wrong for good, and so no client: it ends up with the table,
\* whatever it read on the way.  Only an emptied table never reaches a client (refresh
\* passes an empty answer over).
CatalogueConverges ==
    <>[](/\ allKey # NoKey => allKey = types
         /\ \A n \in Name : nameKey[n] # NoKey => nameKey[n] = types[n]
         /\ snapshot = types \/ Named(types) = {})
=============================================================================
