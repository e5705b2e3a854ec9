--------------------------- MODULE ModelRegistry ---------------------------
(***************************************************************************)
(* Model management in platform-core: the versions of a model, the         *)
(* services deployed on them, and what is remembered about both elsewhere: *)
(* the versions in Redis, the services in the memory of each process, and  *)
(* the price of a service in a key of the billing consumer.                *)
(*                                                                         *)
(* A request reads, probes the endpoint (seconds) and commits: nothing is  *)
(* locked in between, and an unchanged column is not part of the UPDATE.   *)
(***************************************************************************)
EXTENDS Naturals, FiniteSets

CONSTANTS
    Model,              \* the versions of one model name
    Service, Task, Price,
    Process, Worker,
    NoCopy,
    MaxActive,          \* settings.max_active_versions_per_model
    AllowDeprecatedChanges,     \* settings.allow_deprecated_model_changes
    MaxOps, MaxFaults   \* bounds: requests, and requests that die after their commit

VARIABLES
    version,    \* version_status of a row of mm_models, "none" without a row
    service,    \* the row of mm_services, or NoCopy
    modelKey,   \* core:model:<id>:<version> and core:model:<id>
    memory,     \* CacheService._service_store of each process
    priceKey,   \* ppu:svc:<id>
    overtaken,  \* history: services whose price key was filled from a row that had changed
                \* since, or was left by a request that died before it could delete it
    req, ops, faults

rows == <<version, service>>
prices == <<priceKey, overtaken>>
caches == <<modelKey, memory, priceKey, overtaken>>
vars == <<version, service, modelKey, memory, priceKey, overtaken, req, ops, faults>>

Idle == [pc |-> "idle"]
Keys == Model \X {"version", "latest"}

Defaults(s, t) ==
    {o \in Service \ {s} : service[o] # NoCopy /\ service[o].task = t /\ service[o].default}

\* A registry before its first model,
Fresh ==
    /\ version = [m \in Model |-> "none"]
    /\ service = [s \in Service |-> NoCopy]

\* or in use: every service deployed, some of them the default of their task.
InUse ==
    /\ version = [m \in Model |-> "ACTIVE"]
    /\ service \in [Service -> [model : Model, published : {FALSE}, deleted : {FALSE},
                                task : Task, default : BOOLEAN, price : {CHOOSE c \in Price : TRUE}]]

Init ==
    /\ Fresh \/ InUse
    /\ modelKey = [k \in Keys |-> NoCopy]
    /\ memory = [p \in Process |-> [s \in Service |-> NoCopy]]
    /\ priceKey = [s \in Service |-> NoCopy] /\ overtaken = {}
    /\ req = [w \in Worker |-> Idle]
    /\ ops = 0 /\ faults = 0

Starts(w) ==
    /\ req[w] = Idle /\ ops < MaxOps
    /\ ops' = ops + 1

Goto(w, q) == req' = [req EXCEPT ![w] = q]

\* get_by_service_id
Live(s) == service[s] # NoCopy /\ ~service[s].deleted

\* list_published_for_model_version
Published(m) == {s \in Service : Live(s) /\ service[s].model = m /\ service[s].published}

\* list_unpublished_for_model_version
Unpublished(m) == {s \in Service : Live(s) /\ service[s].model = m /\ ~service[s].published}

\* count_active_versions
ActiveBut(m) == {n \in Model \ {m} : version[n] = "ACTIVE"}

-----------------------------------------------------------------------------
(* Versions of a model                                                      *)

CreateModel(w, m, st) ==
    /\ Starts(w)
    /\ version[m] = "none"
    /\ st = "ACTIVE" => Cardinality(ActiveBut(m)) < MaxActive
    /\ Goto(w, [pc |-> "insert", model |-> m, status |-> st])
    /\ UNCHANGED <<rows, caches, faults>>

\* (name, version) is unique.
CreateModelCommit(w) ==
    /\ req[w].pc = "insert"
    /\ LET q == req[w]
       IN  IF version[q.model] # "none" THEN Goto(w, Idle) /\ UNCHANGED version
           ELSE /\ version' = [version EXCEPT ![q.model] = q.status]
                /\ Goto(w, [pc |-> "set", model |-> q.model, status |-> q.status,
                            latest |-> q.status = "ACTIVE"])
    /\ UNCHANGED <<service, caches, ops, faults>>

\* update_model: refused while a service on the version is published, for a
\* deprecated version unless the settings allow it, and beyond the cap.
UpdateModel(w, m, st) ==
    /\ Starts(w)
    /\ version[m] # "none" /\ Published(m) = {}
    /\ version[m] = "DEPRECATED" => AllowDeprecatedChanges
    /\ st = "ACTIVE" /\ version[m] # "ACTIVE" => Cardinality(ActiveBut(m)) < MaxActive
    /\ Goto(w, [pc |-> "model", model |-> m, seen |-> version[m], status |-> st])
    /\ UNCHANGED <<rows, caches, faults>>

\* The UPDATE of a row that is gone raises.
UpdateModelCommit(w) ==
    /\ req[w].pc = "model"
    /\ LET q == req[w]
       IN  IF version[q.model] = "none" THEN Goto(w, Idle) /\ UNCHANGED version
           ELSE /\ version' = IF q.status = q.seen THEN version
                              ELSE [version EXCEPT ![q.model] = q.status]
                /\ Goto(w, [pc |-> "wipe", model |-> q.model])
    /\ UNCHANGED <<service, caches, ops, faults>>

\* invalidate_all_versions; an update then writes the row as it was refreshed.
Wipe(w) ==
    /\ req[w].pc \in {"wipe", "gone"}
    /\ LET m == req[w].model
       IN  /\ modelKey' = [k \in Keys |-> IF k[1] = m THEN NoCopy ELSE modelKey[k]]
           /\ Goto(w, IF req[w].pc = "gone" \/ version[m] = "none" THEN Idle
                      ELSE [pc |-> "set", model |-> m, status |-> version[m],
                            latest |-> version[m] = "ACTIVE"])
    /\ UNCHANGED <<rows, memory, prices, ops, faults>>

\* set_model, with is_default_version under the bare id as well
SetModel(w) ==
    /\ req[w].pc = "set"
    /\ LET q == req[w]
       IN  modelKey' = [k \in Keys |->
                           IF k[1] = q.model /\ (k[2] = "version" \/ q.latest)
                           THEN q.status ELSE modelKey[k]]
    /\ Goto(w, Idle)
    /\ UNCHANGED <<rows, memory, prices, ops, faults>>

\* get_model: a miss fills the key of the version, and the bare one when that was the
\* one asked for and the version is active.
GetModel(w, k) ==
    /\ Starts(w)
    /\ version[k[1]] # "none" /\ modelKey[k] = NoCopy
    /\ Goto(w, [pc |-> "set", model |-> k[1], status |-> version[k[1]],
                latest |-> k[2] = "latest" /\ version[k[1]] = "ACTIVE"])
    /\ UNCHANGED <<rows, caches, faults>>

\* delete_model: the unpublished services leave the memory of this process at once.
DeleteModel(w, p, m) ==
    /\ Starts(w)
    /\ version[m] # "none" /\ Published(m) = {}
    /\ memory' = [memory EXCEPT ![p] = [s \in Service |->
                     IF s \in Unpublished(m) THEN NoCopy ELSE memory[p][s]]]
    /\ Goto(w, [pc |-> "delete", model |-> m])
    /\ UNCHANGED <<rows, modelKey, prices, faults>>

\* fk_mm_services_model_id: a row that was deleted softly still holds its model.
Deletable(m) == \A s \in Service : service[s] = NoCopy \/ service[s].model # m

\* The services are deleted softly and the model for good, or neither.
DeleteModelCommit(w) ==
    /\ req[w].pc = "delete"
    /\ LET m == req[w].model
       IN  IF ~Deletable(m) THEN Goto(w, Idle) /\ UNCHANGED rows
           ELSE /\ version' = [version EXCEPT ![m] = "none"]
                /\ service' = [s \in Service |-> IF s \in Unpublished(m)
                                 THEN [service[s] EXCEPT !.deleted = TRUE] ELSE service[s]]
                /\ Goto(w, [pc |-> "gone", model |-> m])
    /\ UNCHANGED <<caches, ops, faults>>

-----------------------------------------------------------------------------
(* Services                                                                 *)

CreateService(w, p, s, m, t) ==
    /\ Starts(w)
    /\ version[m] # "none" /\ service[s] = NoCopy
    /\ \E c \in Price :
          Goto(w, [pc |-> "deploy", proc |-> p, service |-> s,
                   row |-> [model |-> m, published |-> FALSE, deleted |-> FALSE,
                            task |-> t, default |-> FALSE, price |-> c]])
    /\ UNCHANGED <<rows, caches, faults>>

\* The foreign key and the unique columns decide; the process remembers its copy.
CreateServiceCommit(w) ==
    /\ req[w].pc = "deploy"
    /\ LET q == req[w]
       IN  IF service[q.service] # NoCopy \/ version[q.row.model] = "none"
           THEN Goto(w, Idle) /\ UNCHANGED service
           ELSE /\ service' = [service EXCEPT ![q.service] = q.row]
                /\ Goto(w, [pc |-> "remember", proc |-> q.proc, service |-> q.service, row |-> q.row])
    /\ UNCHANGED <<version, caches, ops, faults>>

\* _require_billing_fields_on_substantive_edit: the publish toggle alone, or an edit
\* that carries the task and the prices.
Requests ==
    {[published |-> b] : b \in BOOLEAN} \cup {[default |-> b] : b \in BOOLEAN}
    \cup {[task |-> t, price |-> c] : t \in Task, c \in Price}
    \cup {[task |-> t, price |-> c, default |-> TRUE] : t \in Task, c \in Price}

Patched(row, changes) ==
    [f \in DOMAIN row |-> IF f \in DOMAIN changes THEN changes[f] ELSE row[f]]

UpdateService(w, p, s, patch) ==
    /\ Starts(w)
    /\ Live(s)
    /\ Goto(w, [pc |-> "probe", proc |-> p, service |-> s, seen |-> service[s], patch |-> patch])
    /\ UNCHANGED <<rows, caches, faults>>

\* The rows another transaction has written and not committed.
Locked(w) == UNION {req[v].cleared : v \in {u \in Worker \ {w} : req[u].pc = "update"}}

\* clear_try_it_default, by the task as it was read; the rows stay locked.
ClearDefaults(w) ==
    /\ req[w].pc = "probe"
    /\ LET q == req[w]
           cleared == IF "default" \in DOMAIN q.patch /\ q.patch.default
                      THEN Defaults(q.service, q.seen.task) ELSE {}
       IN  /\ cleared \cap Locked(w) = {}
           /\ Goto(w, [pc |-> "update", proc |-> q.proc, service |-> q.service,
                       seen |-> q.seen, patch |-> q.patch, cleared |-> cleared])
    /\ UNCHANGED <<rows, caches, ops, faults>>

\* apply_updates: the UPDATE holds the columns that differ from what was read.
ApplyUpdates(row, seen, patch) ==
    [f \in DOMAIN row |-> IF f \in DOMAIN patch /\ patch[f] # seen[f] THEN patch[f] ELSE row[f]]

UpdateServiceCommit(w) ==
    /\ req[w].pc = "update"
    /\ LET q == req[w]
       IN  /\ q.service \notin Locked(w)
           /\ service' = [s \in Service |->
                 IF s = q.service THEN ApplyUpdates(service[s], q.seen, q.patch)
                 ELSE IF s \in q.cleared THEN [service[s] EXCEPT !.default = FALSE]
                 ELSE service[s]]
           /\ Goto(w, [pc |-> "forget", proc |-> q.proc, service |-> q.service,
                       row |-> Patched(q.seen, q.patch), priced |-> "price" \in DOMAIN q.patch])
    /\ UNCHANGED <<version, caches, ops, faults>>

\* Two requests that hold each other's row: the database ends one of them.
UpdateServiceVictim(w) ==
    /\ req[w].pc = "update" /\ req[w].service \in Locked(w)
    /\ \E v \in Worker \ {w} : req[v].pc = "update" /\ req[v].service \in req[w].cleared
    /\ Goto(w, Idle)
    /\ UNCHANGED <<rows, caches, ops, faults>>

\* invalidate_pricing, when a pricing field was part of the request
InvalidatePricing(q) == IF q.priced THEN [priceKey EXCEPT ![q.service] = NoCopy] ELSE priceKey

\* Mistake: the model and the tiers are read first, and one of the reads raises.
ForgetAfterLookups(w) ==
    /\ req[w].pc = "forget"
    /\ memory' = [memory EXCEPT ![req[w].proc][req[w].service] = NoCopy]
    /\ Goto(w, Idle)
    /\ UNCHANGED <<rows, modelKey, prices, ops, faults>>

\* invalidate_service, then the price
Forget(w) ==
    /\ req[w].pc = "forget"
    /\ LET q == req[w]
       IN  /\ memory' = [memory EXCEPT ![q.proc][q.service] = NoCopy]
           /\ priceKey' = InvalidatePricing(q)
           /\ overtaken' = IF q.priced THEN overtaken \ {q.service} ELSE overtaken
           /\ Goto(w, [pc |-> "remember", proc |-> q.proc, service |-> q.service, row |-> q.row])
    /\ UNCHANGED <<rows, modelKey, ops, faults>>

\* delete_service: published as it was read
DeleteService(w, p, s) ==
    /\ Starts(w)
    /\ Live(s) /\ ~service[s].published
    /\ Goto(w, [pc |-> "remove", proc |-> p, service |-> s])
    /\ UNCHANGED <<rows, caches, faults>>

DeleteServiceCommit(w) ==
    /\ req[w].pc = "remove"
    /\ LET q == req[w]
       IN  /\ q.service \notin Locked(w)
           /\ service' = [service EXCEPT ![q.service].deleted = TRUE]
           /\ memory' = [memory EXCEPT ![q.proc][q.service] = NoCopy]
    /\ Goto(w, Idle)
    /\ UNCHANGED <<version, modelKey, prices, ops, faults>>

\* get_service_detail
GetServiceDetail(w, p, s) ==
    /\ Starts(w)
    /\ memory[p][s] = NoCopy /\ Live(s)
    /\ Goto(w, [pc |-> "remember", proc |-> p, service |-> s, row |-> service[s]])
    /\ UNCHANGED <<rows, caches, faults>>

\* set_service
Remember(w) ==
    /\ req[w].pc = "remember"
    /\ LET q == req[w] IN memory' = [memory EXCEPT ![q.proc][q.service] = q.row]
    /\ Goto(w, Idle)
    /\ UNCHANGED <<rows, modelKey, prices, ops, faults>>

-----------------------------------------------------------------------------
(* The consumer's price, and time                                           *)

\* What a row charges by
Priced(row) == [task |-> row.task, price |-> row.price]

\* get_service_pricing
ReadPrice(w, s) ==
    /\ Starts(w)
    /\ priceKey[s] = NoCopy /\ Live(s)
    /\ Goto(w, [pc |-> "price", service |-> s, row |-> service[s]])
    /\ UNCHANGED <<rows, caches, faults>>

WritePrice(w) ==
    /\ req[w].pc = "price"
    /\ LET q == req[w]
       IN  priceKey' = [priceKey EXCEPT ![q.service] = Priced(q.row)]
    /\ overtaken' = IF Priced(req[w].row) # Priced(service[req[w].service])
                    THEN overtaken \cup {req[w].service} ELSE overtaken \ {req[w].service}
    /\ Goto(w, Idle)
    /\ UNCHANGED <<rows, modelKey, memory, ops, faults>>

\* A process dies between its commit and what should follow it, or Redis fails.
Abandon(w) ==
    /\ req[w].pc \in {"wipe", "gone", "set", "forget", "remember", "price"}
    /\ faults < MaxFaults /\ faults' = faults + 1
    /\ overtaken' = IF req[w].pc = "forget" /\ req[w].priced THEN overtaken \cup {req[w].service} ELSE overtaken
    /\ Goto(w, Idle)
    /\ UNCHANGED <<rows, modelKey, memory, priceKey, ops>>

\* An hour in memory,
ExpireMemory(p, s) ==
    /\ memory[p][s] # NoCopy
    /\ memory' = [memory EXCEPT ![p][s] = NoCopy]
    /\ UNCHANGED <<rows, modelKey, prices, req, ops, faults>>

\* and an hour in Redis.
ExpireModel(k) ==
    /\ modelKey[k] # NoCopy
    /\ modelKey' = [modelKey EXCEPT ![k] = NoCopy]
    /\ UNCHANGED <<rows, memory, prices, req, ops, faults>>

ExpirePrice(s) ==
    /\ priceKey[s] # NoCopy
    /\ priceKey' = [priceKey EXCEPT ![s] = NoCopy]
    /\ overtaken' = overtaken \ {s}
    /\ UNCHANGED <<rows, modelKey, memory, req, ops, faults>>

-----------------------------------------------------------------------------
Progress(w) ==
    \/ CreateModelCommit(w) \/ UpdateModelCommit(w) \/ Wipe(w) \/ SetModel(w)
    \/ DeleteModelCommit(w) \/ CreateServiceCommit(w)
    \/ ClearDefaults(w) \/ UpdateServiceCommit(w) \/ UpdateServiceVictim(w) \/ Forget(w)
    \/ DeleteServiceCommit(w) \/ Remember(w) \/ WritePrice(w)

Next ==
    \/ \E w \in Worker :
          \/ \E m \in Model :
                \/ \E st \in {"ACTIVE", "DEPRECATED"} : CreateModel(w, m, st) \/ UpdateModel(w, m, st)
                \/ \E p \in Process : DeleteModel(w, p, m)
          \/ \E s \in Service, p \in Process :
                \/ \E m \in Model, t \in Task : CreateService(w, p, s, m, t)
                \/ \E patch \in Requests : UpdateService(w, p, s, patch)
                \/ DeleteService(w, p, s) \/ GetServiceDetail(w, p, s)
          \/ \E s \in Service : ReadPrice(w, s)
          \/ \E k \in Keys : GetModel(w, k)
          \/ Progress(w)
          \/ Abandon(w)
    \/ \E s \in Service, p \in Process : ExpireMemory(p, s)
    \/ \E k \in Keys : ExpireModel(k)
    \/ \E s \in Service : ExpirePrice(s)

Spec == Init /\ [][Next]_vars

-----------------------------------------------------------------------------

\* A request that has changed the prices of s and not yet deleted the key
Due(s) == {w \in Worker : req[w].pc = "forget" /\ req[w].priced /\ req[w].service = s}

Outdated(s) == priceKey[s] # NoCopy /\ priceKey[s] # Priced(service[s])

\* Of the price the consumer charges by (ppu:svc:<id>): when it is not the row's, either
\* the request that changed the row has still to delete the key, or the key is the work of
\* a read the change overtook or of a request that died.  No order of edits by two
\* requests, of reads and of expiries leaves an old price that is nobody's.
OldPriceIsKnown == \A s \in Service : Outdated(s) => Due(s) # {} \/ s \in overtaken

\* cache_service.invalidate_pricing: 'so the price change takes effect on the very next
\* billing event instead of waiting out the 1-hour TTL', once update_service is through.
NextEventPaysNewPrice == \A s \in Service : Outdated(s) => Due(s) # {}

\* service_repository.clear_try_it_default: 'keeping the "at most one default per
\* task_type" invariant'.
OneDefaultPerTask ==
    \A s \in Service : Live(s) /\ service[s].default
        => {o \in Defaults(s, service[s].task) : Live(o)} = {}
=============================================================================
