-------------------------- MODULE CatalogueProofs --------------------------
(***************************************************************************)
(* Proofs about TierCatalogue, InferenceTypes and ModelRegistry: that      *)
(* nobody is on a tier that was never published, that a quota points at an *)
(* inference type that exists, and that an old price is always somebody's, *)
(* for any number of rows, processes and requests at a time.  MCCatalogue  *)
(* names the inference types T, the registry M, and the properties.        *)
(***************************************************************************)
EXTENDS MCCatalogue, TLAPS

-----------------------------------------------------------------------------
(* Tiers                                                                    *)

Published(t) == status[t] \notin {"none", "INACTIVE"}

\* A change of status on its way, and an assignment on its way.
Changing == [pc : {"tenants", "services", "status"}, tier : Tier,
             to : {"ACTIVE", "DEACTIVATED", "DELETED"}]
Assigning == [pc : {"lookup", "assign"}, tenant : Tenant, tier : Tier \cup {NoTier}]

Statuses == {"none", "INACTIVE", "ACTIVE", "DEACTIVATED", "DELETED"}

Shapes ==
    /\ status \in [Tier -> Statuses] /\ tierOf \in [Tenant -> Tier \cup {NoTier}]
    /\ req = [w \in Worker |-> req[w]] /\ mapped \subseteq Tier

\* What a request is about to give to a tenant or a service is published as well.
Fit(q) ==
    /\ q.pc \in {"tenants", "services", "status"} => q \in Changing
    /\ q.pc \in {"lookup", "assign"} => q \in Assigning
    /\ q.pc = "assign" => q.tier = NoTier \/ Published(q.tier)
    /\ q.pc = "map" => q.tiers \subseteq {t \in Tier : Published(t)}

OnTheWay == \A w \in Worker : Fit(req[w])

TierInv == Shapes /\ OnTheWay /\ NeverOnDraft

\* Requests that are elsewhere are of no interest to the invariant.
Elsewhere == {"idle", "refresh", "update", "write", "back", "scan", "rebuild"}

\* A request that moves does so alone; whatever is published stays so.
Moves(w, q) == Goto(w, q) /\ (q.pc \in Elsewhere \/ Fit(q)')
Publishes == \A t \in Tier : Published(t) => Published(t)'

\* The other requests stay where they are, and stay fit.
LEMMA OneMoves ==
    ASSUME TierInv, NEW w \in Worker, NEW q, Moves(w, q), Publishes
    PROVE  (req = [v \in Worker |-> req[v]])' /\ OnTheWay'
  <1>1. req' = [v \in Worker |-> req'[v]] /\ req'[w] = q /\ \A v \in Worker \ {w} : req'[v] = req[v]
    BY DEF Moves, Goto, TierInv, Shapes
  <1>2. ASSUME NEW v \in Worker PROVE Fit(req[v])'
    <2>1. CASE v = w
      BY <1>1, <2>1 DEF Moves, Elsewhere, Fit, Published
    <2>2. CASE v # w
      <3>1. Fit(req[v]) /\ req'[v] = req[v]
        BY <1>1, <2>2 DEF TierInv, OnTheWay
      <3>2. req[v].pc = "assign" => req[v].tier \in Tier \cup {NoTier}
        BY <3>1 DEF Fit, Assigning
      <3> QED BY <3>1, <3>2 DEF Fit, Publishes
    <2> QED BY <2>1, <2>2
  <1> QED BY <1>1, <1>2 DEF OnTheWay

\* A step that changes no row, no tenant and no service.
LEMMA MovesOnly ==
    ASSUME TierInv, NEW w \in Worker, NEW q, Moves(w, q), UNCHANGED <<status, tierOf, mapped>>
    PROVE  TierInv'
  <1>1. Publishes
    BY DEF Publishes, Published
  <1> QED BY <1>1, OneMoves DEF TierInv, Shapes, NeverOnDraft

\* Every step keeps the invariant: the rows and who changes them, ...
LEMMA RowStep ==
    ASSUME TierInv, NEW w \in Worker,
           \/ \E t \in Tier : Create(w, t) \/ UpdateRead(w, t) \/ StatusRead(w, t)
           \/ UpdateCommit(w) \/ AskTenants(w) \/ AskServices(w) \/ StatusCommit(w)
    PROVE  TierInv'
  <1> USE DEF rows, uses
  <1>1. ASSUME NEW t \in Tier, Create(w, t) PROVE TierInv'
    <2>1. Publishes /\ status' \in [Tier -> Statuses]
      BY <1>1 DEF Create, Publishes, Published, TierInv, Shapes, Statuses
    <2>2. Moves(w, [pc |-> "refresh", tier |-> t])
      BY <1>1 DEF Create, Moves, Elsewhere
    <2> QED BY <1>1, <2>1, <2>2, OneMoves DEF Create, TierInv, Shapes, NeverOnDraft, Publishes, Published
  <1>2. ASSUME NEW t \in Tier, UpdateRead(w, t) PROVE TierInv'
    <2>1. PICK l \in Limits : Goto(w, [pc |-> "update", tier |-> t, seen |-> limit[t], new |-> l])
      BY <1>2 DEF UpdateRead
    <2>2. Moves(w, [pc |-> "update", tier |-> t, seen |-> limit[t], new |-> l])
      BY <2>1 DEF Moves, Elsewhere
    <2> QED BY <1>2, <2>2, MovesOnly DEF UpdateRead
  <1>3. ASSUME NEW t \in Tier, StatusRead(w, t) PROVE TierInv'
    <2>1. PICK to \in {"ACTIVE", "DEACTIVATED", "DELETED"} :
            Goto(w, [pc |-> IF to = "ACTIVE" THEN "status" ELSE "tenants", tier |-> t, to |-> to])
      BY <1>3 DEF StatusRead
    <2> DEFINE q == [pc |-> IF to = "ACTIVE" THEN "status" ELSE "tenants", tier |-> t, to |-> to]
    <2>2. q \in Changing /\ q.pc \in {"status", "tenants"}
      BY DEF Changing
    <2>3. Moves(w, q)
      BY <2>1, <2>2 DEF Moves, Fit
    <2> HIDE DEF q
    <2> QED BY <1>3, <2>3, MovesOnly DEF StatusRead
  <1>4. CASE UpdateCommit(w)
    BY <1>4, MovesOnly DEF UpdateCommit, Moves, Elsewhere
  <1>5. CASE AskTenants(w) \/ AskServices(w)
    <2>1. req[w] \in Changing
      BY <1>5 DEF AskTenants, AskServices, TierInv, OnTheWay, Fit
    <2>2. \A p \in {"services", "status"} :
             [req[w] EXCEPT !.pc = p] \in Changing /\ [req[w] EXCEPT !.pc = p].pc = p
      BY <2>1 DEF Changing
    <2>3. \/ Goto(w, Idle)
          \/ \E p \in {"services", "status"} : Goto(w, [req[w] EXCEPT !.pc = p])
      BY <1>5 DEF AskTenants, AskServices
    <2>4. \E q : Moves(w, q)
      BY <2>2, <2>3 DEF Moves, Elsewhere, Fit, Idle
    <2> QED BY <1>5, <2>4, MovesOnly DEF AskTenants, AskServices
  <1>6. CASE StatusCommit(w)
    <2>1. req[w] \in Changing
      BY <1>6 DEF StatusCommit, TierInv, OnTheWay, Fit
    <2>2. req[w].tier \in Tier /\ req[w].to \in {"ACTIVE", "DEACTIVATED", "DELETED"}
      BY <2>1 DEF Changing
    <2>3. Publishes /\ status' \in [Tier -> Statuses]
      BY <1>6, <2>2 DEF StatusCommit, Publishes, Published, TierInv, Shapes, Statuses
    <2>4. Moves(w, [pc |-> "refresh", tier |-> req[w].tier])
      BY <1>6 DEF StatusCommit, Moves, Elsewhere
    <2>5. (req = [v \in Worker |-> req[v]])' /\ OnTheWay'
      BY <2>3, <2>4, OneMoves
    <2> QED BY <1>6, <2>3, <2>5 DEF StatusCommit, TierInv, Shapes, NeverOnDraft, Publishes, Published
  <1> QED BY <1>1, <1>2, <1>3, <1>4, <1>5, <1>6

\* ... the copies in Redis, ...
LEMMA CopyStep ==
    ASSUME TierInv, NEW w \in Worker,
           \/ \E t \in Tier : LookupMiss(w, t)
           \/ RebuildRead(w) \/ RebuildScan(w) \/ RebuildWrite(w)
           \/ Refresh(w) \/ WriteTier(w) \/ WriteTierFails(w) \/ WriteBack(w)
    PROVE  TierInv'
  <1> USE DEF rows, uses
  <1>1. UNCHANGED <<status, tierOf, mapped>>
    BY DEF LookupMiss, RebuildRead, RebuildScan, RebuildWrite, Refresh, WriteTier,
           WriteTierFails, WriteBack
  <1>2. \E q : Moves(w, q)
    <2> USE DEF Moves, Elsewhere, Idle
    <2>1. ASSUME NEW t \in Tier, LookupMiss(w, t) PROVE \E q : Moves(w, q)
      <3>1. Goto(w, [pc |-> "back", tier |-> t, row |-> Row(t)]) \/ Goto(w, Idle)
        BY <2>1 DEF LookupMiss
      <3> QED BY <3>1
    <2>2. CASE RebuildRead(w)
      BY <2>2 DEF RebuildRead
    <2>3. CASE RebuildScan(w)
      BY <2>3 DEF RebuildScan
    <2>4. CASE Refresh(w)
      BY <2>4 DEF Refresh
    <2>5. CASE RebuildWrite(w) \/ WriteTier(w) \/ WriteTierFails(w) \/ WriteBack(w)
      BY <2>5 DEF RebuildWrite, WriteTier, WriteTierFails, WriteBack
    <2> QED BY <2>1, <2>2, <2>3, <2>4, <2>5
  <1> QED BY <1>1, <1>2, MovesOnly

\* ... and the tenants and services on a tier.
LEMMA UseStep ==
    ASSUME TierInv, NEW w \in Worker,
           \/ \E n \in Tenant, t \in Tier \cup {NoTier} : LockTenant(w, n, t)
           \/ \E ts \in SUBSET Tier : MapRead(w, ts)
           \/ LookupTier(w) \/ AssignCommit(w) \/ MapCommit(w)
    PROVE  TierInv'
  <1> USE DEF rows, uses
  <1>1. ASSUME NEW n \in Tenant, NEW t \in Tier \cup {NoTier}, LockTenant(w, n, t) PROVE TierInv'
    <2> DEFINE q == [pc |-> IF t = NoTier THEN "assign" ELSE "lookup", tenant |-> n, tier |-> t]
    <2>1. q \in Assigning /\ q.pc \in {"assign", "lookup"} /\ (q.pc = "assign" => q.tier = NoTier)
      BY DEF Assigning
    <2>2. Goto(w, q)
      BY <1>1 DEF LockTenant
    <2> HIDE DEF q
    <2>3. Moves(w, q)
      BY <2>1, <2>2 DEF Moves, Fit
    <2> QED BY <1>1, <2>3, MovesOnly DEF LockTenant
  <1>2. ASSUME NEW ts \in SUBSET Tier, MapRead(w, ts) PROVE TierInv'
    <2>1. \A t \in ts : Published(t)
      BY <1>2 DEF MapRead, Published, TierInv, NeverOnDraft
    <2>2. Moves(w, [pc |-> "map", tiers |-> ts])
      BY <1>2, <2>1 DEF MapRead, Moves, Fit, Published
    <2> QED BY <1>2, <2>2, MovesOnly DEF MapRead
  <1>3. CASE LookupTier(w)
    <2>1. req[w] \in Assigning /\ UNCHANGED <<status, tierOf, mapped>>
      BY <1>3 DEF LookupTier, TierInv, OnTheWay, Fit
    <2>2. CASE Goto(w, Idle)
      BY <2>1, <2>2, MovesOnly DEF Moves, Elsewhere, Idle
    <2>3. CASE Assignable(req[w].tier) /\ Goto(w, [req[w] EXCEPT !.pc = "assign"])
      <3>1. PICK q : q = [req[w] EXCEPT !.pc = "assign"]
        OBVIOUS
      <3>2. q \in Assigning /\ q.pc = "assign" /\ q.tier = req[w].tier
        BY <2>1, <3>1 DEF Assigning
      <3>3. status'[q.tier] = "ACTIVE"
        BY <2>1, <2>3, <3>2 DEF Assignable
      <3>4. Moves(w, q)
        BY <2>3, <3>1, <3>2, <3>3 DEF Moves, Fit, Published
      <3> QED BY <2>1, <3>4, MovesOnly
    <2> QED BY <1>3, <2>2, <2>3 DEF LookupTier
  <1>4. CASE AssignCommit(w)
    <2>1. /\ req[w] \in Assigning
          /\ req[w].tier = NoTier \/ Published(req[w].tier)
      BY <1>4 DEF AssignCommit, TierInv, OnTheWay, Fit
    <2>2. req[w].tenant \in Tenant /\ req[w].tier \in Tier \cup {NoTier}
      BY <2>1 DEF Assigning
    <2>3. Publishes /\ Moves(w, Idle) /\ UNCHANGED <<status, mapped>>
      BY <1>4 DEF AssignCommit, Publishes, Published, Moves, Elsewhere, Idle
    <2>4. (req = [v \in Worker |-> req[v]])' /\ OnTheWay'
      BY <2>3, OneMoves
    <2>5. Shapes'
      BY <1>4, <2>2, <2>3, <2>4 DEF AssignCommit, TierInv, Shapes
    <2>6. NeverOnDraft'
      BY <1>4, <2>1, <2>2, <2>3, TierAssumption
      DEF AssignCommit, TierInv, Shapes, NeverOnDraft, Published
    <2> QED BY <2>4, <2>5, <2>6 DEF TierInv
  <1>5. CASE MapCommit(w)
    <2>1. req[w].tiers \subseteq {t \in Tier : Published(t)}
      BY <1>5 DEF MapCommit, TierInv, OnTheWay, Fit
    <2>2. Publishes /\ Moves(w, Idle) /\ UNCHANGED <<status, tierOf>> /\ mapped' = req[w].tiers
      BY <1>5 DEF MapCommit, Publishes, Published, Moves, Elsewhere, Idle
    <2>3. (req = [v \in Worker |-> req[v]])' /\ OnTheWay'
      BY <2>2, OneMoves
    <2> QED BY <2>1, <2>2, <2>3 DEF TierInv, Shapes, NeverOnDraft, Published
  <1> QED BY <1>1, <1>2, <1>3, <1>4, <1>5

\* No tenant and no service is ever on a tier that was not published, whatever
\* changes of status, assignments and service updates overlap (update_tier_status,
\* assign_tenant_tier, _validate_tier_ids_exist).
THEOREM NeverOnDraftAlways == Spec => []NeverOnDraft
  <1>1. Init => TierInv
    BY TierAssumption DEF Init, TierInv, Shapes, OnTheWay, Fit, NeverOnDraft, Idle, Statuses
  <1>2. ASSUME TierInv, [Next]_vars PROVE TierInv'
    <2>1. ASSUME NEW w \in Worker, NEW t \in Tier,
                 \/ Create(w, t) \/ UpdateRead(w, t) \/ StatusRead(w, t) \/ LookupMiss(w, t)
                 \/ \E n \in Tenant : LockTenant(w, n, t)
          PROVE  TierInv'
      BY <1>2, <2>1, RowStep, CopyStep, UseStep
    <2>2. ASSUME NEW w \in Worker,
                 \/ \E n \in Tenant : LockTenant(w, n, NoTier)
                 \/ \E ts \in SUBSET Tier : MapRead(w, ts)
          PROVE  TierInv'
      BY <1>2, <2>2, UseStep
    <2>3. ASSUME NEW w \in Worker, RebuildRead(w) \/ Progress(w) \/ WriteTierFails(w)
          PROVE  TierInv'
      BY <1>2, <2>3, RowStep, CopyStep, UseStep DEF Progress
    <2>4. ASSUME NEW t \in Tier, Expire(t) PROVE TierInv'
      BY <1>2, <2>4 DEF Expire, rows, uses, TierInv, Shapes, OnTheWay, Fit, NeverOnDraft, Published
    <2>5. CASE UNCHANGED vars
      BY <1>2, <2>5 DEF vars, TierInv, Shapes, OnTheWay, Fit, NeverOnDraft, Published
    <2> QED BY <1>2, <2>1, <2>2, <2>3, <2>4, <2>5, Zenon DEF Next
  <1>3. TierInv => NeverOnDraft
    BY DEF TierInv
  <1> QED BY <1>1, <1>2, <1>3, PTL DEF Spec

-----------------------------------------------------------------------------
(* Inference types                                                          *)

TypeRow == [id : Nat, unit : {0, 1}]
Quota == [id : Nat, name : Name]
Editing == [pc : {"refs", "commit"}, op : {"edit", "delete", "rename"}, id : Nat,
            name : Name, to : Name]

Rebuilding == [pc : {"hkeys", "pipe"}, rows : [Name -> TypeRow \cup {None}], stale : SUBSET Name]

\* The absence of a row is not a row, the absence of a key is no value of one.
Absences == None \notin TypeRow /\ NoKey \notin TypeRow /\ NoKey # None

Present(n) == types[n] # None

TableShapes ==
    /\ types \in [Name -> TypeRow \cup {None}] /\ created \in Nat /\ quotas \subseteq Quota

KeyShapes == nameKey \in [Name -> TypeRow \cup {NoKey}]

TypeFit(q) ==
    /\ q.pc \in {"refs", "commit"} => q \in Editing
    /\ q.pc = "quota" => q.id \in Nat /\ q.name \in Name
    /\ q.pc = "warm" => q.name \in Name /\ q.row \in TypeRow
    /\ q.pc \in {"hkeys", "pipe"} => q \in Rebuilding

RequestShapes == treq = [w \in Worker |-> treq[w]] /\ \A w \in Worker : TypeFit(treq[w])

\* An id is the id of one row, and was handed out.
IdsUnique ==
    \A n \in Name : Present(n) =>
        /\ types[n].id <= created
        /\ \A m \in Name : Present(m) /\ types[m].id = types[n].id => m = n

TableInv == TableShapes /\ IdsUnique /\ T!QuotaHasType

TypesInv == TableInv /\ KeyShapes /\ RequestShapes

\* A quota's type is a row of the table.
LEMMA QuotaTypes ==
    T!QuotaHasType <=> \A q \in quotas : \E n \in Name : Present(n) /\ types[n].id = q.id
BY DEF T!QuotaHasType, T!Ids, T!Named, Present

\* A request that moves does so alone.
LEMMA TypeMoves ==
    ASSUME RequestShapes, NEW w \in Worker, NEW q, T!Goto(w, q), TypeFit(q)
    PROVE  RequestShapes'
  <1>1. /\ treq' = [v \in Worker |-> treq'[v]] /\ treq'[w] = q
        /\ \A v \in Worker \ {w} : treq'[v] = treq[v]
    BY DEF T!Goto, RequestShapes
  <1>2. \A v \in Worker : TypeFit(treq[v])'
    BY <1>1 DEF RequestShapes, TypeFit
  <1> QED BY <1>1, <1>2 DEF RequestShapes

\* Requests end fit, and so does one that goes on to a rebuild.
LEMMA FitRequests ==
    /\ TypeFit(T!Idle) /\ \A b \in BOOLEAN : TypeFit(T!Rebuild(b))
BY DEF TypeFit, T!Idle, T!Rebuild

\* A new type takes an id that no row and no quota has.
LEMMA CreateTable ==
    ASSUME TypesInv, Absences, NEW w \in Worker, NEW n \in Name, T!Create(w, n)
    PROVE  TableInv'
  <1> DEFINE row == [id |-> created + 1, unit |-> 0]
  <1>1. row \in TypeRow /\ row # None /\ row.id = created + 1
    BY DEF TypesInv, TableInv, TableShapes, TypeRow, Absences
  <1>2. /\ types' = [types EXCEPT ![n] = row] /\ created' = created + 1 /\ quotas' = quotas
        /\ ~Present(n)
    BY DEF T!Create, Present
  <1> HIDE DEF row
  <1>3. /\ types' \in [Name -> TypeRow \cup {None}] /\ types'[n] = row
        /\ \A m \in Name \ {n} : types'[m] = types[m]
    BY <1>1, <1>2 DEF TypesInv, TableInv, TableShapes
  <1>4. TableShapes'
    BY <1>2, <1>3 DEF TypesInv, TableInv, TableShapes
  <1>5. \A m \in Name : Present(m) => types[m].id \in Nat
    BY DEF TypesInv, TableInv, TableShapes, TypeRow, Present
  <1>6. IdsUnique'
    <2>1. \A m \in Name \ {n} : Present(m)' => Present(m) /\ types'[m].id = types[m].id /\ types[m].id <= created
      BY <1>3 DEF TypesInv, TableInv, IdsUnique, Present
    <2> QED BY <1>1, <1>2, <1>3, <1>5, <2>1 DEF TypesInv, TableInv, TableShapes, IdsUnique, Present
  <1>7. T!QuotaHasType'
    <2>1. \A q \in quotas : \E m \in Name : Present(m) /\ types[m].id = q.id
      BY QuotaTypes DEF TypesInv, TableInv
    <2>2. \A q \in quotas' : \E m \in Name : Present(m)' /\ types'[m].id = q.id
      BY <1>2, <1>3, <2>1 DEF Present
    <2> QED BY <2>2 DEF T!QuotaHasType, T!Ids, T!Named, Present
  <1> QED BY <1>4, <1>6, <1>7 DEF TableInv

\* What an accepted edit does to the table, the row being found by its id.
Edits(op, id, n, to) ==
    \/ op = "delete" /\ T!Deletable(id) /\ types' = [types EXCEPT ![n] = None]
    \/ op = "edit" /\ types' = [types EXCEPT ![n].unit = 1 - @]
    \/ /\ op = "rename" /\ (to = n \/ ~Present(to))
       /\ types' = [types EXCEPT ![n] = None, ![to] = types[n]]

\* Deleting, editing and renaming keep ids unique and quotas pointed at a type: a
\* deletion is of a row no quota points at, the others keep the id.
LEMMA EditTable ==
    ASSUME TypesInv, Absences, UNCHANGED <<created, quotas>>,
           NEW op, NEW id, NEW n \in Name, NEW to \in Name, Present(n), types[n].id = id,
           Edits(op, id, n, to)
    PROVE  TableInv'
  <1>1. types \in [Name -> TypeRow \cup {None}] /\ types[n] \in TypeRow
    BY DEF TypesInv, TableInv, TableShapes, Present
  <1>2. \A q \in quotas : \E m \in Name : Present(m) /\ types[m].id = q.id
    BY QuotaTypes DEF TypesInv, TableInv
  <1>3. ASSUME types' \in [Name -> TypeRow \cup {None}],
               \A m \in Name : Present(m)' => \E k \in Name : Present(k) /\ types'[m].id = types[k].id,
               \A m, k \in Name : Present(m)' /\ Present(k)' /\ types'[m].id = types'[k].id => m = k,
               \A q \in quotas : \E m \in Name : Present(m)' /\ types'[m].id = q.id
        PROVE  TableInv'
    <2>1. TableShapes'
      BY <1>3 DEF TypesInv, TableInv, TableShapes
    <2>2. IdsUnique'
      BY <1>3 DEF TypesInv, TableInv, IdsUnique
    <2>3. T!QuotaHasType'
      BY <1>3 DEF T!QuotaHasType, T!Ids, T!Named, Present
    <2> QED BY <2>1, <2>2, <2>3 DEF TableInv
  <1>4. CASE T!Deletable(id) /\ types' = [types EXCEPT ![n] = None]
    <2>1. /\ types' \in [Name -> TypeRow \cup {None}] /\ ~Present(n)'
          /\ \A m \in Name \ {n} : types'[m] = types[m]
      BY <1>1, <1>4 DEF Present
    <2>2. \A q \in quotas : q.id # id
      BY <1>4 DEF T!Deletable
    <2>3. \A q \in quotas : \E m \in Name : Present(m)' /\ types'[m].id = q.id
      BY <1>2, <2>1, <2>2 DEF Present
    <2>4. \A m, k \in Name : Present(m)' /\ Present(k)' /\ types'[m].id = types'[k].id => m = k
      BY <2>1 DEF TypesInv, TableInv, IdsUnique, Present
    <2> QED BY <1>3, <2>1, <2>3, <2>4 DEF Present
  <1>5. CASE types' = [types EXCEPT ![n].unit = 1 - @]
    <2>1. PICK row : row = [types[n] EXCEPT !.unit = 1 - @]
      OBVIOUS
    <2>2. row \in TypeRow /\ row.id = id
      BY <1>1, <2>1 DEF TypeRow
    <2>3. /\ types' \in [Name -> TypeRow \cup {None}] /\ types'[n] = row /\ row # None
          /\ \A m \in Name \ {n} : types'[m] = types[m]
      BY <1>1, <1>5, <2>1, <2>2 DEF Absences
    <2>4. \A m \in Name : Present(m)' <=> Present(m)
      BY <2>3 DEF Present
    <2>5. \A m \in Name : types'[m].id = types[m].id
      BY <2>2, <2>3
    <2>6. \A m, k \in Name : Present(m)' /\ Present(k)' /\ types'[m].id = types'[k].id => m = k
      BY <2>4, <2>5 DEF TypesInv, TableInv, IdsUnique
    <2> QED BY <1>2, <1>3, <2>3, <2>4, <2>5, <2>6
  <1>6. CASE types' = [types EXCEPT ![n] = None, ![to] = types[n]] /\ (to = n \/ ~Present(to))
    <2>1. /\ types' \in [Name -> TypeRow \cup {None}] /\ types'[to] = types[n]
          /\ \A m \in Name \ {n, to} : types'[m] = types[m]
          /\ to # n => types'[n] = None
      BY <1>1, <1>6
    <2>2. \A m \in Name \ {to} : Present(m)' => Present(m) /\ types'[m] = types[m] /\ m # n
      BY <2>1 DEF Present
    <2>3. \A m, k \in Name : Present(m)' /\ Present(k)' /\ types'[m].id = types'[k].id => m = k
      BY <1>6, <2>1, <2>2 DEF TypesInv, TableInv, IdsUnique, Present
    <2>4. \A m \in Name : Present(m) => \E k \in Name : Present(k)' /\ types'[k].id = types[m].id
      BY <1>6, <2>1 DEF Present
    <2> QED BY <1>2, <1>3, <2>1, <2>2, <2>3, <2>4
  <1> QED BY <1>4, <1>5, <1>6 DEF Edits

\* The commit of an edit.
LEMMA EditCommitTable ==
    ASSUME TypesInv, Absences, NEW w \in Worker, T!EditCommit(w)
    PROVE  TableInv'
  <1> DEFINE q == treq[w]
             there == \E n \in Name : types[n] # None /\ types[n].id = q.id
             n == T!NameOf(q.id)
  <1>1. q \in Editing
    BY DEF T!EditCommit, TypesInv, RequestShapes, TypeFit
  <1>2. q.to \in Name /\ q.op \in {"edit", "delete", "rename"}
    BY <1>1 DEF Editing
  <1>3. UNCHANGED <<created, quotas>>
    BY DEF T!EditCommit
  <1>4. CASE types' = types
    BY <1>3, <1>4 DEF TypesInv, TableInv, TableShapes, IdsUnique, T!QuotaHasType, T!Ids, T!Named, Present
  <1>5. CASE types' # types
    <2>1. there /\ Edits(q.op, q.id, n, q.to)
      <3>1. there
        BY <1>5 DEF T!EditCommit
      <3>2. CASE q.op = "delete"
        BY <1>5, <3>2 DEF T!EditCommit, Edits
      <3>3. CASE q.op = "edit"
        BY <1>5, <3>3 DEF T!EditCommit, Edits
      <3>4. CASE q.op = "rename"
        BY <1>5, <3>4 DEF T!EditCommit, Edits, Present
      <3> QED BY <1>2, <3>1, <3>2, <3>3, <3>4
    <2>2. n \in Name /\ Present(n) /\ types[n].id = q.id
      BY <2>1 DEF T!NameOf, Present
    <2> HIDE DEF n, q
    <2> QED BY <1>2, <1>3, <2>1, <2>2, EditTable
  <1> QED BY <1>4, <1>5

\* A quota is committed only while its type is there.
LEMMA QuotaCommitTable ==
    ASSUME TypesInv, NEW w \in Worker, T!QuotaCommit(w)
    PROVE  TableInv'
  <1>1. treq[w].id \in Nat /\ treq[w].name \in Name
    BY DEF T!QuotaCommit, TypesInv, RequestShapes, TypeFit
  <1>2. [id |-> treq[w].id, name |-> treq[w].name] \in Quota
    BY <1>1 DEF Quota
  <1>3. UNCHANGED <<types, created>>
    BY DEF T!QuotaCommit
  <1>4. TableShapes' /\ IdsUnique'
    BY <1>2, <1>3 DEF T!QuotaCommit, TypesInv, TableInv, TableShapes, IdsUnique, Present
  <1>5. \A q \in quotas' : \E n \in Name : Present(n) /\ types[n].id = q.id
    BY QuotaTypes DEF T!QuotaCommit, TypesInv, TableInv, Present
  <1>6. T!QuotaHasType'
    BY <1>3, <1>5 DEF T!QuotaHasType, T!Ids, T!Named, Present
  <1> QED BY <1>4, <1>6 DEF TableInv

\* A row of quota_usage points where the quota does that it was copied from.
LEMMA RecordUsageTable ==
    ASSUME TypesInv, T!RecordUsage
    PROVE  TableInv'
  <1>1. PICK q \in quotas, n \in Name :
           types[n] # None /\ types[n].id = q.id /\ quotas' = quotas \cup {[id |-> q.id, name |-> n]}
    BY DEF T!RecordUsage, T!Named
  <1>2. [id |-> q.id, name |-> n] \in Quota
    BY DEF Quota, TypesInv, TableInv, TableShapes
  <1>3. UNCHANGED <<types, created>>
    BY DEF T!RecordUsage
  <1>4. TableShapes' /\ IdsUnique'
    BY <1>1, <1>2, <1>3 DEF TypesInv, TableInv, TableShapes, IdsUnique, Present
  <1>5. \A u \in quotas' : \E m \in Name : Present(m) /\ types[m].id = u.id
    BY <1>1, QuotaTypes DEF TypesInv, TableInv, Present
  <1>6. T!QuotaHasType'
    BY <1>3, <1>5 DEF T!QuotaHasType, T!Ids, T!Named, Present
  <1> QED BY <1>4, <1>6 DEF TableInv

\* Every other step leaves the table and the quotas alone.
LEMMA TableStep ==
    ASSUME TypesInv, Absences, T!Next \/ UNCHANGED T!vars
    PROVE  TableInv'
  <1>1. ASSUME UNCHANGED <<types, created, quotas>>
        PROVE  TableInv'
    BY <1>1 DEF TypesInv, TableInv, TableShapes, IdsUnique, T!QuotaHasType, T!Ids, T!Named, Present
  <1>2. ASSUME NEW w \in Worker, NEW n \in Name, T!Create(w, n) PROVE TableInv'
    BY <1>2, CreateTable
  <1>3. ASSUME NEW w \in Worker, NEW n \in Name,
               \/ T!GetByName(w, n) \/ T!QuotaRead(w, n)
               \/ \E op, to \in Name \cup {"edit", "delete", "rename"} : T!EditRead(w, n, op, to)
        PROVE  TableInv'
    BY <1>1, <1>3 DEF T!GetByName, T!QuotaRead, T!EditRead, T!table
  <1>4. ASSUME NEW w \in Worker, T!Progress(w) PROVE TableInv'
    BY <1>1, <1>4, EditCommitTable, QuotaCommitTable
    DEF T!Progress, T!EditReferences, T!RebuildFetch, T!RebuildSweep, T!RebuildWrite,
        T!GetByNameWarm, T!table
  <1>5. ASSUME NEW w \in Worker, T!GetAll(w) \/ T!WriteFails(w) PROVE TableInv'
    BY <1>1, <1>5 DEF T!GetAll, T!WriteFails, T!table
  <1>6. CASE \/ T!ExpireAll \/ (\E n \in Name : T!ExpireName(n))
             \/ T!ClientRefresh \/ T!ClientRefreshFallback \/ T!ClientExpires
    BY <1>1, <1>6 DEF T!ExpireAll, T!ExpireName, T!ClientRefresh, T!ClientRefreshFallback,
                      T!ClientExpires, T!table
  <1>7. CASE UNCHANGED T!vars
    BY <1>1, <1>7 DEF T!vars
  <1>8. CASE T!RecordUsage
    BY <1>8, RecordUsageTable
  <1> QED BY <1>2, <1>3, <1>4, <1>5, <1>6, <1>7, <1>8, Zenon DEF T!Next

\* Keys and requests carry rows.
LEMMA KeysAndRequests ==
    ASSUME TypesInv, Absences, T!Next \/ UNCHANGED T!vars
    PROVE  KeyShapes' /\ RequestShapes'
  <1> USE DEF TypesInv, TableInv, TableShapes, KeyShapes
  <1>1. ASSUME UNCHANGED nameKey, NEW w \in Worker, NEW q, T!Goto(w, q), TypeFit(q)
        PROVE  KeyShapes' /\ RequestShapes'
    BY <1>1, TypeMoves
  <1>2. ASSUME UNCHANGED treq, nameKey' \in [Name -> TypeRow \cup {NoKey}]
        PROVE  KeyShapes' /\ RequestShapes'
    BY <1>2 DEF RequestShapes, TypeFit
  <1>3. ASSUME NEW w \in Worker, NEW n \in Name, T!Create(w, n) PROVE KeyShapes' /\ RequestShapes'
    BY <1>1, <1>3, FitRequests DEF T!Create, T!keys
  <1>4. ASSUME NEW w \in Worker, NEW n \in Name, T!GetByName(w, n) PROVE KeyShapes' /\ RequestShapes'
    BY <1>1, <1>4 DEF T!GetByName, T!keys, TypeFit
  <1>5. ASSUME NEW w \in Worker, NEW n \in Name, T!QuotaRead(w, n) PROVE KeyShapes' /\ RequestShapes'
    <2>1. PICK row : row # None /\ row = (IF nameKey[n] # NoKey THEN nameKey[n] ELSE types[n])
                     /\ T!Goto(w, [pc |-> "quota", id |-> row.id, name |-> n])
      BY <1>5 DEF T!QuotaRead
    <2>2. row.id \in Nat
      BY <2>1 DEF TypeRow
    <2> QED BY <1>1, <1>5, <2>1, <2>2 DEF T!QuotaRead, T!keys, TypeFit
  <1>6. ASSUME NEW w \in Worker, NEW n \in Name, NEW to \in Name,
               NEW op \in {"edit", "delete", "rename"}, T!EditRead(w, n, op, to)
        PROVE  KeyShapes' /\ RequestShapes'
    <2>1. PICK q : q = [pc |-> IF op = "edit" THEN "commit" ELSE "refs",
                        op |-> op, id |-> types[n].id, name |-> n, to |-> to]
      OBVIOUS
    <2>2. types[n].id \in Nat
      BY <1>6 DEF T!EditRead, TypeRow
    <2>3. q \in Editing /\ q.pc \in {"refs", "commit"}
      BY <2>1, <2>2 DEF Editing
    <2> QED BY <1>1, <1>6, <2>1, <2>3 DEF T!EditRead, T!keys, TypeFit
  <1>7. ASSUME NEW w \in Worker, T!EditReferences(w) PROVE KeyShapes' /\ RequestShapes'
    <2>1. treq[w] \in Editing
      BY <1>7 DEF T!EditReferences, RequestShapes, TypeFit
    <2>2. PICK q : q = [treq[w] EXCEPT !.pc = "commit"]
      OBVIOUS
    <2>3. q \in Editing /\ q.pc = "commit"
      BY <2>1, <2>2 DEF Editing
    <2>4. TypeFit(q) /\ (T!Goto(w, q) \/ T!Goto(w, T!Idle))
      BY <1>7, <2>2, <2>3 DEF T!EditReferences, TypeFit
    <2> QED BY <1>1, <1>7, <2>4, FitRequests DEF T!EditReferences, T!keys
  <1>8. ASSUME NEW w \in Worker, T!EditCommit(w) PROVE KeyShapes' /\ RequestShapes'
    <2>1. T!Goto(w, T!Rebuild(TRUE)) \/ T!Goto(w, T!Idle)
      BY <1>8 DEF T!EditCommit
    <2>2. UNCHANGED nameKey
      BY <1>8 DEF T!EditCommit, T!keys
    <2> QED BY <1>1, <2>1, <2>2, FitRequests
  <1>9. ASSUME NEW w \in Worker, T!QuotaCommit(w) \/ T!WriteFails(w) PROVE KeyShapes' /\ RequestShapes'
    BY <1>1, <1>9, FitRequests DEF T!QuotaCommit, T!WriteFails, T!keys
  <1>10. ASSUME NEW w \in Worker, T!RebuildFetch(w) PROVE KeyShapes' /\ RequestShapes'
    <2>1. PICK q : q = [pc |-> IF treq[w].sweep THEN "hkeys" ELSE "pipe", rows |-> types, stale |-> {}]
      OBVIOUS
    <2>2. q \in Rebuilding /\ q.pc \in {"hkeys", "pipe"}
      BY <2>1 DEF Rebuilding
    <2>3. TypeFit(q)
      BY <2>2 DEF TypeFit
    <2> QED BY <1>1, <1>10, <2>1, <2>3 DEF T!RebuildFetch, T!keys
  <1>11. ASSUME NEW w \in Worker, T!RebuildSweep(w) PROVE KeyShapes' /\ RequestShapes'
    <2>1. treq[w] \in Rebuilding
      BY <1>11 DEF T!RebuildSweep, RequestShapes, TypeFit
    <2>2. PICK stale \in SUBSET Name :
             T!Goto(w, [treq[w] EXCEPT !.pc = "pipe", !.stale = stale])
      BY <1>11 DEF T!RebuildSweep, T!Named
    <2>3. PICK q : q = [treq[w] EXCEPT !.pc = "pipe", !.stale = stale]
      OBVIOUS
    <2>4. q \in Rebuilding /\ q.pc = "pipe"
      BY <2>1, <2>3 DEF Rebuilding
    <2>5. TypeFit(q)
      BY <2>4 DEF TypeFit
    <2> QED BY <1>1, <1>11, <2>2, <2>3, <2>5 DEF T!RebuildSweep, T!keys
  <1>12. ASSUME NEW w \in Worker, T!RebuildWrite(w) PROVE KeyShapes' /\ RequestShapes'
    <2>1. treq[w].rows \in [Name -> TypeRow \cup {None}]
      BY <1>12 DEF T!RebuildWrite, RequestShapes, TypeFit, Rebuilding
    <2>2. KeyShapes'
      BY <1>12, <2>1 DEF T!RebuildWrite
    <2>3. T!Goto(w, T!Idle)
      BY <1>12 DEF T!RebuildWrite
    <2> QED BY <2>2, <2>3, TypeMoves, FitRequests
  <1>13. ASSUME NEW w \in Worker, T!GetByNameWarm(w) PROVE KeyShapes' /\ RequestShapes'
    <2>1. treq[w].name \in Name /\ treq[w].row \in TypeRow
      BY <1>13 DEF T!GetByNameWarm, RequestShapes, TypeFit
    <2>2. KeyShapes'
      BY <1>13, <2>1 DEF T!GetByNameWarm
    <2>3. T!Goto(w, T!Idle)
      BY <1>13 DEF T!GetByNameWarm
    <2> QED BY <2>2, <2>3, TypeMoves, FitRequests
  <1>14. ASSUME NEW w \in Worker, T!GetAll(w) PROVE KeyShapes' /\ RequestShapes'
    BY <1>1, <1>14, FitRequests DEF T!GetAll, T!keys
  <1>15. ASSUME NEW n \in Name, T!ExpireName(n) PROVE KeyShapes' /\ RequestShapes'
    BY <1>2, <1>15 DEF T!ExpireName
  <1>16. CASE \/ T!ExpireAll \/ T!ClientRefresh \/ T!ClientRefreshFallback \/ T!ClientExpires
              \/ T!RecordUsage \/ UNCHANGED T!vars
    BY <1>2, <1>16 DEF T!ExpireAll, T!RecordUsage, T!ClientRefresh, T!ClientRefreshFallback, T!ClientExpires,
                       T!keys, T!vars
  <1>17. ASSUME NEW w \in Worker, T!Progress(w) PROVE KeyShapes' /\ RequestShapes'
    BY <1>7, <1>8, <1>9, <1>10, <1>11, <1>12, <1>13, <1>17, Zenon DEF T!Progress
  <1>18. ASSUME NEW w \in Worker, NEW n \in Name,
                \/ T!EditRead(w, n, "edit", n) \/ T!EditRead(w, n, "delete", n)
                \/ \E to \in Name \ {n} : T!EditRead(w, n, "rename", to)
         PROVE  KeyShapes' /\ RequestShapes'
    BY <1>6, <1>18
  <1> QED BY <1>3, <1>4, <1>5, <1>9, <1>14, <1>15, <1>16, <1>17, <1>18, Zenon DEF T!Next

\* A quota points at a type that exists, whatever stale id it was created from and
\* however a deletion overtakes it (create_tier, delete_inference_type and the foreign
\* key between them); with it, that ids are unique.
THEOREM QuotaHasTypeAlways ==
    ASSUME Absences
    PROVE  T!Spec => []QuotaHasType
  <1>1. T!Init => TypesInv
    <2> SUFFICES ASSUME T!Init PROVE TypesInv
      OBVIOUS
    <2>1. TableInv
      BY DEF T!Init, T!Nothing, TableInv, TableShapes, IdsUnique, T!QuotaHasType, Present
    <2>2. KeyShapes /\ RequestShapes
      BY DEF T!Init, KeyShapes, RequestShapes, TypeFit, T!Idle
    <2> QED BY <2>1, <2>2 DEF TypesInv
  <1>2. ASSUME TypesInv, [T!Next]_(T!vars) PROVE TypesInv'
    BY <1>2, TableStep, KeysAndRequests DEF TypesInv
  <1>3. TypesInv => QuotaHasType
    BY DEF TypesInv, TableInv, QuotaHasType
  <1> QED BY <1>1, <1>2, <1>3, PTL DEF T!Spec

-----------------------------------------------------------------------------
(* The price of a service                                                   *)

Columns == {"model", "published", "deleted", "task", "default", "price"}

RowLike(r) == DOMAIN r = Columns /\ r = [f \in Columns |-> r[f]]

\* The row of s exists.
Has(s) == s \in Service /\ RowLike(service[s])

\* The absence of a row is not a row.
NoRow == ~RowLike(NoCopy)

RegFit(q) ==
    /\ q.pc = "deploy" => q.service \in Service /\ RowLike(q.row)
    /\ q.pc \in {"probe", "update", "remove", "price", "forget"} => Has(q.service)
    /\ q.pc \in {"probe", "update"} => q.patch \in M!Requests
    /\ q.pc = "update" => \A o \in q.cleared : Has(o)

RegShapes ==
    /\ mreq = [w \in Worker |-> mreq[w]] /\ service = [s \in Service |-> service[s]]
    /\ priceKey = [s \in Service |-> priceKey[s]]
    /\ \A s \in Service : service[s] = NoCopy \/ RowLike(service[s])
    /\ \A s \in Service : priceKey[s] # NoCopy => Has(s)
    /\ \A w \in Worker : RegFit(mreq[w])

RegInv == RegShapes /\ M!OldPriceIsKnown

\* A body that carries a task carries a price.
LEMMA BodiesPrice ==
    ASSUME NEW b \in M!Requests
    PROVE  "task" \in DOMAIN b => "price" \in DOMAIN b
BY DEF M!Requests

\* Rows are made and changed, never removed: what is known of requests and rows stays
\* known when one worker moves to a fitting place.
LEMMA RegMoves ==
    ASSUME RegShapes, NEW w \in Worker, NEW q, M!Goto(w, q), RegFit(q)',
           service' = [s \in Service |-> service'[s]],
           \A s \in Service : service'[s] = service[s] \/ RowLike(service'[s]),
           priceKey' = [s \in Service |-> priceKey'[s]],
           \A s \in Service : priceKey'[s] # NoCopy => priceKey[s] # NoCopy \/ Has(s)'
    PROVE  RegShapes'
  <1>1. /\ mreq' = [v \in Worker |-> mreq'[v]] /\ mreq'[w] = q
        /\ \A v \in Worker \ {w} : mreq'[v] = mreq[v]
    BY DEF M!Goto, RegShapes
  <1>2. \A s : Has(s) => Has(s)'
    <2>1. ASSUME NEW s, Has(s) PROVE Has(s)'
      <3>1. service'[s] = service[s] \/ RowLike(service'[s])
        BY <2>1 DEF Has
      <3> QED BY <2>1, <3>1 DEF Has, RowLike
    <2> QED BY <2>1
  <1>3. ASSUME NEW v \in Worker PROVE RegFit(mreq[v])'
    <2>1. CASE v = w
      BY <2>1, <1>1
    <2>2. CASE v # w
      <3>1. mreq'[v] = mreq[v] /\ RegFit(mreq[v])
        BY <1>1, <2>2 DEF RegShapes
      <3> QED BY <1>2, <3>1 DEF RegFit
    <2> QED BY <2>1, <2>2
  <1>4. \A s \in Service : service'[s] = NoCopy \/ RowLike(service'[s])
    BY DEF RegShapes, RowLike
  <1>5. \A s \in Service : priceKey'[s] # NoCopy => Has(s)'
    BY <1>2 DEF RegShapes
  <1> QED BY <1>1, <1>3, <1>4, <1>5 DEF RegShapes, RowLike

\* A price that was known stays so while its row charges the same, its key is not
\* touched and nobody who has still to delete it moves on.
LEMMA KnownStays ==
    ASSUME M!OldPriceIsKnown, NEW s \in Service,
           priceKey'[s] = priceKey[s] \/ priceKey'[s] = NoCopy,
           priceKey[s] # NoCopy => M!Priced(service'[s]) = M!Priced(service[s]),
           s \in overtaken => s \in overtaken' \/ priceKey'[s] = NoCopy,
           \A v \in M!Due(s) : mreq'[v] = mreq[v] \/ s \in overtaken' \/ priceKey'[s] = NoCopy
    PROVE  M!Outdated(s)' => M!Due(s)' # {} \/ s \in overtaken'
  <1>1. SUFFICES ASSUME priceKey'[s] # NoCopy, priceKey'[s] # M!Priced(service'[s]), s \notin overtaken'
                 PROVE  M!Due(s)' # {}
    BY DEF M!Outdated, M!Priced
  <1>2. M!Outdated(s) /\ s \notin overtaken
    BY <1>1 DEF M!Outdated
  <1>3. PICK v : v \in M!Due(s)
    BY <1>2 DEF M!OldPriceIsKnown
  <1>4. mreq'[v] = mreq[v]
    BY <1>1, <1>3
  <1> QED BY <1>3, <1>4 DEF M!Due


\* Requests that read, and what happens before a commit, touch neither rows nor prices.
LEMMA QuietStep ==
    ASSUME RegInv, NEW w \in Worker, NEW q, M!Goto(w, q), RegFit(q), mreq[w].pc # "forget",
           UNCHANGED <<service, priceKey, overtaken>>
    PROVE  RegInv'
  <1>1. RegShapes'
    <2>1. RegFit(q)'
      BY DEF RegFit, Has
    <2> QED BY <2>1, RegMoves DEF RegInv, RegShapes
  <1>2. ASSUME NEW s \in Service PROVE M!Outdated(s)' => M!Due(s)' # {} \/ s \in overtaken'
    <2>1. \A v \in M!Due(s) : mreq'[v] = mreq[v]
      BY DEF M!Due, M!Goto, RegInv, RegShapes
    <2> QED BY <2>1, KnownStays DEF RegInv
  <1> QED BY <1>1, <1>2 DEF RegInv, M!OldPriceIsKnown

\* The places at which nothing is asked of a request
LEMMA IdlePlaces ==
    ASSUME NEW q,
           q.pc \in {"idle", "insert", "set", "model", "wipe", "delete", "gone", "remember"}
    PROVE  RegFit(q)
BY DEF RegFit

\* A commit that writes rows and leaves what they charge alone, or writes one that nobody
\* has a price of.
LEMMA CommitStep ==
    ASSUME RegInv, NEW w \in Worker, NEW q, M!Goto(w, q), mreq[w].pc # "forget",
           q.pc \in {"idle", "gone", "remember"}, UNCHANGED <<priceKey, overtaken>>,
           service' = [s \in Service |-> service'[s]],
           \A s \in Service : service'[s] = service[s] \/ RowLike(service'[s]),
           \A s \in Service : Has(s) => M!Priced(service'[s]) = M!Priced(service[s])
    PROVE  RegInv'
  <1>1. RegShapes'
    <2>1. RegFit(q)'
      BY DEF RegFit
    <2> QED BY <2>1, RegMoves DEF RegInv, RegShapes
  <1>2. ASSUME NEW s \in Service PROVE M!Outdated(s)' => M!Due(s)' # {} \/ s \in overtaken'
    <2>1. \A v \in M!Due(s) : mreq'[v] = mreq[v]
      BY DEF M!Due, M!Goto, RegInv, RegShapes
    <2>2. priceKey[s] # NoCopy => M!Priced(service'[s]) = M!Priced(service[s])
      BY DEF RegInv, RegShapes
    <2> QED BY <2>1, <2>2, KnownStays DEF RegInv
  <1> QED BY <1>1, <1>2 DEF RegInv, M!OldPriceIsKnown

\* Versions: requests and commits
LEMMA VersionStep ==
    ASSUME RegInv, NoRow, NEW w \in Worker,
           \/ \E m \in Model, st \in {"ACTIVE", "DEPRECATED"} : M!CreateModel(w, m, st) \/ M!UpdateModel(w, m, st)
           \/ \E m \in Model, p \in Process : M!DeleteModel(w, p, m)
           \/ \E k \in M!Keys : M!GetModel(w, k)
           \/ M!CreateModelCommit(w) \/ M!UpdateModelCommit(w) \/ M!Wipe(w) \/ M!SetModel(w)
           \/ M!DeleteModelCommit(w)
    PROVE  RegInv'
  <1>1. ASSUME NEW q, M!Goto(w, q), mreq[w].pc # "forget", UNCHANGED <<service, priceKey, overtaken>>,
               q.pc \in {"idle", "insert", "set", "model", "wipe", "delete", "gone", "remember"}
        PROVE  RegInv'
    BY <1>1, QuietStep, IdlePlaces
  <1>2. ASSUME NEW m, NEW st, M!CreateModel(w, m, st) PROVE RegInv'
    <2>1. PICK q : q = [pc |-> "insert", model |-> m, status |-> st]
      OBVIOUS
    <2> QED BY <1>1, <1>2, <2>1 DEF M!CreateModel, M!Starts, M!Idle, M!rows, M!caches
  <1>3. ASSUME NEW m, NEW st, M!UpdateModel(w, m, st) PROVE RegInv'
    <2>1. PICK q : q = [pc |-> "model", model |-> m, seen |-> version[m], status |-> st]
      OBVIOUS
    <2> QED BY <1>1, <1>3, <2>1 DEF M!UpdateModel, M!Starts, M!Idle, M!rows, M!caches
  <1>4. ASSUME NEW m, NEW p, M!DeleteModel(w, p, m) PROVE RegInv'
    <2>1. PICK q : q = [pc |-> "delete", model |-> m]
      OBVIOUS
    <2> QED BY <1>1, <1>4, <2>1 DEF M!DeleteModel, M!Starts, M!Idle, M!rows, M!prices
  <1>5. ASSUME NEW k, M!GetModel(w, k) PROVE RegInv'
    <2>1. PICK q : q = [pc |-> "set", model |-> k[1], status |-> version[k[1]],
                        latest |-> k[2] = "latest" /\ version[k[1]] = "ACTIVE"]
      OBVIOUS
    <2> QED BY <1>1, <1>5, <2>1 DEF M!GetModel, M!Starts, M!Idle, M!rows, M!caches
  <1>6. CASE M!CreateModelCommit(w)
    <2>1. PICK q : M!Goto(w, q) /\ q.pc \in {"idle", "set"}
      BY <1>6 DEF M!CreateModelCommit, M!Idle
    <2> QED BY <1>1, <1>6, <2>1 DEF M!CreateModelCommit, M!caches
  <1>7. CASE M!UpdateModelCommit(w)
    <2>1. PICK q : M!Goto(w, q) /\ q.pc \in {"idle", "wipe"}
      BY <1>7 DEF M!UpdateModelCommit, M!Idle
    <2> QED BY <1>1, <1>7, <2>1 DEF M!UpdateModelCommit, M!caches
  <1>8. CASE M!Wipe(w)
    <2>1. PICK q : M!Goto(w, q) /\ q.pc \in {"idle", "set"}
      BY <1>8 DEF M!Wipe, M!Idle
    <2> QED BY <1>1, <1>8, <2>1 DEF M!Wipe, M!rows, M!prices
  <1>9. CASE M!SetModel(w)
    <2>1. PICK q : M!Goto(w, q) /\ q.pc = "idle"
      BY <1>9 DEF M!SetModel, M!Idle
    <2> QED BY <1>1, <1>9, <2>1 DEF M!SetModel, M!rows, M!prices
  <1>10. CASE M!DeleteModelCommit(w)
    <2> DEFINE m == mreq[w].model
               swept == [s \in Service |-> IF s \in M!Unpublished(m)
                            THEN [service[s] EXCEPT !.deleted = TRUE] ELSE service[s]]
    <2>1. PICK q : M!Goto(w, q) /\ q.pc \in {"idle", "gone"}
      BY <1>10 DEF M!DeleteModelCommit, M!Idle
    <2>2. UNCHANGED <<priceKey, overtaken>> /\ mreq[w].pc = "delete" /\ (service' = service \/ service' = swept)
      BY <1>10 DEF M!DeleteModelCommit, M!caches, M!rows
    <2>3. ASSUME NEW s \in Service, s \in M!Unpublished(m) PROVE Has(s)
      BY <2>3 DEF M!Unpublished, M!Live, Has, RegInv, RegShapes
    <2>4. ASSUME NEW s \in Service, Has(s)
          PROVE  LET r == [service[s] EXCEPT !.deleted = TRUE]
                 IN  RowLike(r) /\ M!Priced(r) = M!Priced(service[s])
      BY <2>4 DEF Has, RowLike, Columns, M!Priced
    <2>5. CASE service' = service
      BY <2>1, <2>2, <2>5, CommitStep DEF RegInv, RegShapes
    <2>6. CASE service' = swept
      <3>1. service' = [s \in Service |-> service'[s]]
        BY <2>6
      <3>2. ASSUME NEW s \in Service
            PROVE  /\ service'[s] = service[s] \/ RowLike(service'[s])
                   /\ Has(s) => M!Priced(service'[s]) = M!Priced(service[s])
        BY <2>3, <2>4, <2>6
      <3> QED BY <2>1, <2>2, <3>1, <3>2, CommitStep
    <2> QED BY <2>2, <2>5, <2>6
  <1> QED BY <1>2, <1>3, <1>4, <1>5, <1>6, <1>7, <1>8, <1>9, <1>10


\* Services: everything up to the commit of a change
LEMMA ServiceRequestStep ==
    ASSUME RegInv, NEW w \in Worker,
           \/ \E p \in Process, s \in Service, m \in Model, t \in Task : M!CreateService(w, p, s, m, t)
           \/ \E p \in Process, s \in Service, b \in M!Requests : M!UpdateService(w, p, s, b)
           \/ \E p \in Process, s \in Service : M!DeleteService(w, p, s) \/ M!GetServiceDetail(w, p, s)
           \/ \E s \in Service : M!ReadPrice(w, s)
           \/ M!ClearDefaults(w) \/ M!UpdateServiceVictim(w) \/ M!Remember(w)
    PROVE  RegInv'
  <1>0. \A s \in Service : service[s] # NoCopy => Has(s)
    BY DEF RegInv, RegShapes, Has
  <1>1. ASSUME NEW p, NEW s \in Service, NEW m, NEW t, M!CreateService(w, p, s, m, t) PROVE RegInv'
    <2>1. PICK c : M!Goto(w, [pc |-> "deploy", proc |-> p, service |-> s,
                              row |-> [model |-> m, published |-> FALSE, deleted |-> FALSE,
                                       task |-> t, default |-> FALSE, price |-> c]])
      BY <1>1 DEF M!CreateService
    <2>2. PICK q : q = [pc |-> "deploy", proc |-> p, service |-> s,
                        row |-> [model |-> m, published |-> FALSE, deleted |-> FALSE,
                                 task |-> t, default |-> FALSE, price |-> c]]
      OBVIOUS
    <2>3. RegFit(q)
      BY <2>2 DEF RegFit, RowLike, Columns
    <2> QED BY <1>1, <2>1, <2>2, <2>3, QuietStep DEF M!CreateService, M!Starts, M!Idle, M!rows, M!caches
  <1>2. ASSUME NEW p, NEW s \in Service, NEW b \in M!Requests, M!UpdateService(w, p, s, b) PROVE RegInv'
    <2>1. PICK q : q = [pc |-> "probe", proc |-> p, service |-> s, seen |-> service[s], patch |-> b]
      OBVIOUS
    <2>2. RegFit(q)
      BY <1>0, <1>2, <2>1 DEF RegFit, M!UpdateService, M!Live
    <2> QED BY <1>2, <2>1, <2>2, QuietStep DEF M!UpdateService, M!Starts, M!Idle, M!rows, M!caches
  <1>3. ASSUME NEW p, NEW s \in Service, M!DeleteService(w, p, s) PROVE RegInv'
    <2>1. PICK q : q = [pc |-> "remove", proc |-> p, service |-> s]
      OBVIOUS
    <2>2. RegFit(q)
      BY <1>0, <1>3, <2>1 DEF RegFit, M!DeleteService, M!Live
    <2> QED BY <1>3, <2>1, <2>2, QuietStep DEF M!DeleteService, M!Starts, M!Idle, M!rows, M!caches
  <1>4. ASSUME NEW p, NEW s \in Service, M!GetServiceDetail(w, p, s) PROVE RegInv'
    <2>1. PICK q : q = [pc |-> "remember", proc |-> p, service |-> s, row |-> service[s]]
      OBVIOUS
    <2>2. RegFit(q)
      BY <2>1, IdlePlaces
    <2> QED BY <1>4, <2>1, <2>2, QuietStep DEF M!GetServiceDetail, M!Starts, M!Idle, M!rows, M!caches
  <1>5. ASSUME NEW s \in Service, M!ReadPrice(w, s) PROVE RegInv'
    <2>1. PICK q : q = [pc |-> "price", service |-> s, row |-> service[s]]
      OBVIOUS
    <2>2. RegFit(q)
      BY <1>0, <1>5, <2>1 DEF RegFit, M!ReadPrice, M!Live
    <2> QED BY <1>5, <2>1, <2>2, QuietStep DEF M!ReadPrice, M!Starts, M!Idle, M!rows, M!caches
  <1>6. CASE M!ClearDefaults(w)
    <2>1. Has(mreq[w].service) /\ mreq[w].patch \in M!Requests
      BY <1>6 DEF M!ClearDefaults, RegInv, RegShapes, RegFit
    <2>2. PICK cleared \in SUBSET Service :
             /\ \A o \in cleared : service[o] # NoCopy
             /\ M!Goto(w, [pc |-> "update", proc |-> mreq[w].proc, service |-> mreq[w].service,
                           seen |-> mreq[w].seen, patch |-> mreq[w].patch, cleared |-> cleared])
      BY <1>6 DEF M!ClearDefaults, M!Defaults
    <2>3. PICK q : q = [pc |-> "update", proc |-> mreq[w].proc, service |-> mreq[w].service,
                        seen |-> mreq[w].seen, patch |-> mreq[w].patch, cleared |-> cleared]
      OBVIOUS
    <2>4. RegFit(q)
      BY <1>0, <2>1, <2>2, <2>3 DEF RegFit
    <2> QED BY <1>6, <2>2, <2>3, <2>4, QuietStep DEF M!ClearDefaults, M!rows, M!caches
  <1>7. CASE M!UpdateServiceVictim(w) \/ M!Remember(w)
    <2>1. PICK q : q = M!Idle
      OBVIOUS
    <2>2. RegFit(q)
      BY <2>1, IdlePlaces DEF M!Idle
    <2> QED BY <1>7, <2>1, <2>2, QuietStep DEF M!UpdateServiceVictim, M!Remember, M!rows, M!caches, M!prices
  <1> QED BY <1>1, <1>2, <1>3, <1>4, <1>5, <1>6, <1>7

\* The commits of a new service and of a deletion
LEMMA ServiceCommitStep ==
    ASSUME RegInv, NoRow, NEW w \in Worker, M!CreateServiceCommit(w) \/ M!DeleteServiceCommit(w)
    PROVE  RegInv'
  <1>1. CASE M!CreateServiceCommit(w)
    <2>1. UNCHANGED <<priceKey, overtaken>> /\ mreq[w].pc = "deploy"
      BY <1>1 DEF M!CreateServiceCommit, M!caches
    <2>2. mreq[w].service \in Service /\ RowLike(mreq[w].row)
      BY <2>1 DEF RegInv, RegShapes, RegFit
    <2>3. CASE service' = service /\ M!Goto(w, M!Idle)
      <3>1. PICK q : q = M!Idle
        OBVIOUS
      <3> QED BY <2>1, <2>3, <3>1, CommitStep DEF M!Idle, RegInv, RegShapes
    <2>4. CASE /\ service[mreq[w].service] = NoCopy
               /\ service' = [service EXCEPT ![mreq[w].service] = mreq[w].row]
               /\ M!Goto(w, [pc |-> "remember", proc |-> mreq[w].proc,
                             service |-> mreq[w].service, row |-> mreq[w].row])
      <3>1. PICK q : q = [pc |-> "remember", proc |-> mreq[w].proc,
                          service |-> mreq[w].service, row |-> mreq[w].row]
        OBVIOUS
      <3>2. /\ service' = [s \in Service |-> service'[s]]
            /\ service'[mreq[w].service] = mreq[w].row
            /\ \A s \in Service \ {mreq[w].service} : service'[s] = service[s]
        BY <2>2, <2>4 DEF RegInv, RegShapes
      <3>3. ASSUME NEW s \in Service, Has(s) PROVE s # mreq[w].service
        BY <2>4, <3>3 DEF Has, NoRow
      <3>4. \A s \in Service : Has(s) => M!Priced(service'[s]) = M!Priced(service[s])
        BY <3>2, <3>3
      <3>5. \A s \in Service : service'[s] = service[s] \/ RowLike(service'[s])
        BY <2>2, <3>2
      <3> QED BY <2>1, <2>4, <3>1, <3>2, <3>4, <3>5, CommitStep
    <2> QED BY <1>1, <2>3, <2>4 DEF M!CreateServiceCommit
  <1>2. CASE M!DeleteServiceCommit(w)
    <2>1. /\ UNCHANGED <<priceKey, overtaken>> /\ mreq[w].pc = "remove" /\ M!Goto(w, M!Idle)
          /\ service' = [service EXCEPT ![mreq[w].service].deleted = TRUE]
      BY <1>2 DEF M!DeleteServiceCommit, M!prices
    <2>2. Has(mreq[w].service)
      BY <2>1 DEF RegInv, RegShapes, RegFit
    <2>3. PICK q : q = M!Idle
      OBVIOUS
    <2>4. LET r == [service[mreq[w].service] EXCEPT !.deleted = TRUE]
          IN  RowLike(r) /\ M!Priced(r) = M!Priced(service[mreq[w].service])
      BY <2>2 DEF Has, RowLike, Columns, M!Priced
    <2>5. /\ service' = [s \in Service |-> service'[s]]
          /\ service'[mreq[w].service] = [service[mreq[w].service] EXCEPT !.deleted = TRUE]
          /\ \A s \in Service \ {mreq[w].service} : service'[s] = service[s]
      BY <2>1, <2>2 DEF RegInv, RegShapes, Has
    <2>6. /\ \A s \in Service : service'[s] = service[s] \/ RowLike(service'[s])
          /\ \A s \in Service : M!Priced(service'[s]) = M!Priced(service[s])
      BY <2>4, <2>5
    <2> QED BY <2>1, <2>3, <2>5, <2>6, CommitStep DEF M!Idle
  <1> QED BY <1>1, <1>2

\* What a row charges changes with a body that carries a price, and then its key is due.
LEMMA UpdateServiceStep ==
    ASSUME RegInv, NEW w \in Worker, M!UpdateServiceCommit(w)
    PROVE  RegInv'
  <1>0. PICK x, b : x = mreq[w].service /\ b = mreq[w].patch
    OBVIOUS
  <1> DEFINE row(s) == IF s = x THEN M!ApplyUpdates(service[s], mreq[w].seen, b)
                       ELSE IF s \in mreq[w].cleared THEN [service[s] EXCEPT !.default = FALSE]
                       ELSE service[s]
  <1>1. /\ mreq[w].pc = "update" /\ UNCHANGED <<priceKey, overtaken>>
        /\ service' = [s \in Service |-> row(s)]
        /\ M!Goto(w, [pc |-> "forget", proc |-> mreq[w].proc, service |-> x,
                      row |-> M!Patched(mreq[w].seen, b), priced |-> "price" \in DOMAIN b])
    BY <1>0 DEF M!UpdateServiceCommit, M!caches
  <1>2. /\ Has(x) /\ x \in Service /\ ("task" \in DOMAIN b => "price" \in DOMAIN b)
        /\ \A o \in mreq[w].cleared : Has(o)
    BY <1>0, <1>1, BodiesPrice DEF RegInv, RegShapes, RegFit, Has
  <1>3. PICK q : q = [pc |-> "forget", proc |-> mreq[w].proc, service |-> x,
                      row |-> M!Patched(mreq[w].seen, b), priced |-> "price" \in DOMAIN b]
    OBVIOUS
  <1>4. ASSUME NEW s \in Service
        PROVE  /\ service'[s] = row(s)
               /\ row(s) = service[s] \/ RowLike(row(s))
               /\ Has(s) => M!Priced(row(s)) = M!Priced(service[s]) \/ (s = x /\ "price" \in DOMAIN b)
    <2>1. service'[s] = row(s)
      BY <1>1
    <2>2. CASE s = x
      <3>1. row(s) = M!ApplyUpdates(service[s], mreq[w].seen, b) /\ RowLike(service[s])
        BY <1>2, <2>2 DEF Has
      <3>2. RowLike(row(s))
        BY <3>1 DEF RowLike, M!ApplyUpdates
      <3>3. "price" \notin DOMAIN b => row(s).task = service[s].task /\ row(s).price = service[s].price
        BY <1>2, <3>1 DEF RowLike, Columns, M!ApplyUpdates
      <3> QED BY <2>1, <2>2, <3>2, <3>3 DEF M!Priced
    <2>3. CASE s # x /\ s \in mreq[w].cleared
      <3>1. row(s) = [service[s] EXCEPT !.default = FALSE] /\ RowLike(service[s])
        BY <1>2, <2>3 DEF Has
      <3> QED BY <2>1, <3>1 DEF RowLike, Columns, M!Priced
    <2>4. CASE s # x /\ s \notin mreq[w].cleared
      BY <2>1, <2>4
    <2> QED BY <2>2, <2>3, <2>4
  <1>5. service' = [s \in Service |-> service'[s]]
    BY <1>1
  <1> HIDE DEF row
  <1>6. Has(x)'
    <2>1. RowLike(service'[x])
      BY <1>2, <1>4 DEF Has
    <2> QED BY <1>2, <2>1 DEF Has, RowLike
  <1>7. RegShapes'
    <2>1. RegFit(q)'
      BY <1>3, <1>6 DEF RegFit
    <2>2. M!Goto(w, q)
      BY <1>1, <1>3
    <2>3. \A s \in Service : service'[s] = service[s] \/ RowLike(service'[s])
      BY <1>4
    <2> QED BY <1>1, <1>5, <2>1, <2>2, <2>3, RegMoves DEF RegInv, RegShapes
  <1>8. mreq'[w] = q /\ \A v \in Worker \ {w} : mreq'[v] = mreq[v]
    BY <1>1, <1>3 DEF M!Goto, RegInv, RegShapes
  <1>9. ASSUME NEW s \in Service PROVE M!Outdated(s)' => M!Due(s)' # {} \/ s \in overtaken'
    <2>1. CASE s = x /\ "price" \in DOMAIN b
      <3>1. q.pc = "forget" /\ q.service = s
        BY <1>3, <2>1
      <3>2. q.priced = ("price" \in DOMAIN b)
        BY <1>3, Zenon
      <3>3. w \in M!Due(s)'
        BY <1>8, <2>1, <3>1, <3>2, Zenon DEF M!Due
      <3> QED BY <3>3
    <2>2. CASE ~(s = x /\ "price" \in DOMAIN b)
      <3>1. priceKey[s] # NoCopy => M!Priced(service'[s]) = M!Priced(service[s])
        BY <1>4, <2>2 DEF RegInv, RegShapes
      <3>2. \A v \in M!Due(s) : mreq'[v] = mreq[v]
        BY <1>1, <1>8 DEF M!Due
      <3> QED BY <1>1, <3>1, <3>2, KnownStays DEF RegInv
    <2> QED BY <2>1, <2>2
  <1> QED BY <1>7, <1>9 DEF RegInv, M!OldPriceIsKnown


\* The price key: its deletion, its writing, the death of who had to delete it.
LEMMA PriceStep ==
    ASSUME RegInv, NEW w \in Worker, M!Forget(w) \/ M!WritePrice(w) \/ M!Abandon(w)
    PROVE  RegInv'
  <1>1. UNCHANGED service
    BY DEF M!Forget, M!WritePrice, M!Abandon, M!rows
  <1>2. PICK q : M!Goto(w, q) /\ q.pc \in {"idle", "remember"}
    BY DEF M!Forget, M!WritePrice, M!Abandon, M!Idle
  <1>3. \A v \in Worker \ {w} : mreq'[v] = mreq[v]
    BY <1>2 DEF M!Goto, RegInv, RegShapes
  <1>4. ASSUME priceKey' = [s \in Service |-> priceKey'[s]],
               \A s \in Service : priceKey'[s] # NoCopy => priceKey[s] # NoCopy \/ Has(s)
        PROVE  RegShapes'
    <2>1. RegFit(q)'
      BY <1>2 DEF RegFit
    <2>2. \A s \in Service : priceKey'[s] # NoCopy => priceKey[s] # NoCopy \/ Has(s)'
      BY <1>1, <1>4 DEF Has, RowLike
    <2> QED BY <1>1, <1>2, <1>4, <2>1, <2>2, RegMoves DEF RegInv, RegShapes
  <1>5. CASE M!Forget(w)
    <2> DEFINE x == mreq[w].service
    <2>1. /\ mreq[w].pc = "forget" /\ priceKey' = M!InvalidatePricing(mreq[w])
          /\ overtaken' = IF mreq[w].priced THEN overtaken \ {x} ELSE overtaken
      BY <1>5 DEF M!Forget
    <2>2. x \in Service
      BY <2>1 DEF RegInv, RegShapes, RegFit, Has
    <2>3. /\ priceKey' = [s \in Service |-> priceKey'[s]]
          /\ \A s \in Service : priceKey'[s] = IF mreq[w].priced /\ s = x THEN NoCopy ELSE priceKey[s]
      BY <2>1, <2>2 DEF M!InvalidatePricing, RegInv, RegShapes
    <2>4. RegShapes'
      BY <1>4, <2>3
    <2>5. ASSUME NEW s \in Service PROVE M!Outdated(s)' => M!Due(s)' # {} \/ s \in overtaken'
      <3>1. priceKey'[s] = priceKey[s] \/ priceKey'[s] = NoCopy
        BY <2>3
      <3>2. s \in overtaken => s \in overtaken' \/ priceKey'[s] = NoCopy
        BY <2>1, <2>3
      <3>3. \A v \in M!Due(s) : mreq'[v] = mreq[v] \/ s \in overtaken' \/ priceKey'[s] = NoCopy
        BY <1>3, <2>3 DEF M!Due
      <3> QED BY <1>1, <3>1, <3>2, <3>3, KnownStays DEF RegInv
    <2> QED BY <2>4, <2>5 DEF RegInv, M!OldPriceIsKnown
  <1>6. CASE M!WritePrice(w)
    <2>0. PICK x : x = mreq[w].service
      OBVIOUS
    <2>1. /\ mreq[w].pc = "price" /\ priceKey' = [priceKey EXCEPT ![x] = M!Priced(mreq[w].row)]
          /\ overtaken' = IF M!Priced(mreq[w].row) # M!Priced(service[x])
                          THEN overtaken \cup {x} ELSE overtaken \ {x}
      BY <1>6, <2>0 DEF M!WritePrice
    <2>2. Has(x) /\ x \in Service
      BY <2>0, <2>1 DEF RegInv, RegShapes, RegFit, Has
    <2>3. /\ priceKey' = [s \in Service |-> priceKey'[s]] /\ priceKey'[x] = M!Priced(mreq[w].row)
          /\ \A s \in Service \ {x} : priceKey'[s] = priceKey[s]
      BY <2>1, <2>2 DEF RegInv, RegShapes
    <2>4. RegShapes'
      BY <1>4, <2>2, <2>3
    <2>5. ASSUME NEW s \in Service PROVE M!Outdated(s)' => M!Due(s)' # {} \/ s \in overtaken'
      <3>1. CASE s = x
        <4>1. M!Priced(service[x])' = M!Priced(service[x])
          BY <1>1 DEF M!Priced
        <4> QED BY <1>1, <2>1, <2>3, <3>1, <4>1 DEF M!Outdated
      <3>2. CASE s # x
        <4>1. priceKey'[s] = priceKey[s] /\ (s \in overtaken => s \in overtaken')
          BY <2>1, <2>3, <3>2
        <4>2. \A v \in M!Due(s) : mreq'[v] = mreq[v]
          BY <1>3, <2>1 DEF M!Due
        <4> QED BY <1>1, <4>1, <4>2, KnownStays DEF RegInv
      <3> QED BY <3>1, <3>2
    <2> QED BY <2>4, <2>5 DEF RegInv, M!OldPriceIsKnown
  <1>7. CASE M!Abandon(w)
    <2>1. /\ UNCHANGED priceKey
          /\ overtaken' = IF mreq[w].pc = "forget" /\ mreq[w].priced
                          THEN overtaken \cup {mreq[w].service} ELSE overtaken
      BY <1>7 DEF M!Abandon
    <2>2. RegShapes'
      BY <1>4, <2>1 DEF RegInv, RegShapes
    <2>3. ASSUME NEW s \in Service PROVE M!Outdated(s)' => M!Due(s)' # {} \/ s \in overtaken'
      <3>1. \A v \in M!Due(s) : mreq'[v] = mreq[v] \/ s \in overtaken'
        BY <1>3, <2>1 DEF M!Due
      <3>2. s \in overtaken => s \in overtaken'
        BY <2>1
      <3> QED BY <1>1, <2>1, <3>1, <3>2, KnownStays DEF RegInv
    <2> QED BY <2>2, <2>3 DEF RegInv, M!OldPriceIsKnown
  <1> QED BY <1>5, <1>6, <1>7

\* Time, and steps that are none
LEMMA ExpiryStep ==
    ASSUME RegInv,
           \/ \E p \in Process, s \in Service : M!ExpireMemory(p, s)
           \/ \E k \in M!Keys : M!ExpireModel(k)
           \/ \E s \in Service : M!ExpirePrice(s)
           \/ UNCHANGED M!vars
    PROVE  RegInv'
  <1>1. UNCHANGED <<service, mreq>>
    BY DEF M!ExpireMemory, M!ExpireModel, M!ExpirePrice, M!vars, M!rows
  <1>2. \/ UNCHANGED <<priceKey, overtaken>>
        \/ \E s \in Service : priceKey' = [priceKey EXCEPT ![s] = NoCopy] /\ overtaken' = overtaken \ {s}
    BY DEF M!ExpireMemory, M!ExpireModel, M!ExpirePrice, M!vars, M!prices
  <1>3. /\ priceKey' = [s \in Service |-> priceKey'[s]]
        /\ \A s \in Service : \/ priceKey'[s] = priceKey[s] /\ (s \in overtaken => s \in overtaken')
                              \/ priceKey'[s] = NoCopy
    BY <1>2 DEF RegInv, RegShapes
  <1>4. RegShapes'
    BY <1>1, <1>3 DEF RegInv, RegShapes, RegFit, Has, RowLike
  <1>5. ASSUME NEW s \in Service PROVE M!Outdated(s)' => M!Due(s)' # {} \/ s \in overtaken'
    BY <1>1, <1>3, KnownStays DEF RegInv
  <1> QED BY <1>4, <1>5 DEF RegInv, M!OldPriceIsKnown

\* An old price in the consumer's key is always somebody's: a request between its commit
\* and the deletion of the key, a read that the change overtook, a request that died
\* (update_service, invalidate_pricing, get_service_pricing), for any number of services,
\* processes and requests at a time.
THEOREM OldPriceIsKnownAlways ==
    ASSUME NoRow
    PROVE  M!Spec => []OldPriceIsKnown
  <1>1. M!Init => RegInv
    <2> SUFFICES ASSUME M!Init PROVE RegInv
      OBVIOUS
    <2>1. /\ priceKey = [s \in Service |-> NoCopy] /\ mreq = [w \in Worker |-> M!Idle]
          /\ M!Fresh \/ M!InUse
      BY DEF M!Init
    <2>2. /\ service = [s \in Service |-> service[s]]
          /\ \A s \in Service : service[s] = NoCopy \/ RowLike(service[s])
      BY <2>1 DEF M!Fresh, M!InUse, RowLike, Columns
    <2>3. \A w \in Worker : RegFit(mreq[w])
      BY <2>1, IdlePlaces DEF M!Idle
    <2> QED BY <2>1, <2>2, <2>3 DEF RegInv, RegShapes, M!OldPriceIsKnown, M!Outdated
  <1>2. ASSUME RegInv, [M!Next]_(M!vars) PROVE RegInv'
    <2>1. ASSUME NEW w \in Worker, M!Progress(w) PROVE RegInv'
      BY <1>2, <2>1, VersionStep, ServiceRequestStep, ServiceCommitStep, UpdateServiceStep, PriceStep, Zenon
      DEF M!Progress
    <2> QED BY <1>2, <2>1, VersionStep, ServiceRequestStep, PriceStep, ExpiryStep, Zenon DEF M!Next
  <1>3. RegInv => OldPriceIsKnown
    BY DEF RegInv, OldPriceIsKnown
  <1> QED BY <1>1, <1>2, <1>3, PTL DEF M!Spec
=============================================================================
