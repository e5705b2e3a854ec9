---------------------------- MODULE MCCatalogue ----------------------------
(***************************************************************************)
(* Instances for TLC of TierCatalogue, InferenceTypes and ModelRegistry,   *)
(* the three catalogues of platform-core.  They share nothing, so that     *)
(* they are explored side by side: a behaviour is one of tiers, of         *)
(* inference types or of models.                                           *)
(***************************************************************************)
EXTENDS TierCatalogue, TLC

CONSTANTS
    Parts,              \* the catalogues explored
    Name, None, NoKey, MaxTypes,
    Model, Service, Task, Price, Process, MaxActive, AllowDeprecatedChanges,
    MaxCatalogueOps     \* requests of a behaviour of types or of models

VARIABLES
    part,
    types, created, quotas, allKey, nameKey, snapshot, fresh, treq, tops, tfaults,
    version, service, modelKey, memory, priceKey, overtaken, mreq, mops, mfaults

tvars == <<types, created, quotas, allKey, nameKey, snapshot, fresh, treq, tops, tfaults>>
mvars == <<version, service, modelKey, memory, priceKey, overtaken, mreq, mops, mfaults>>
all == <<part, vars, tvars, mvars>>

T == INSTANCE InferenceTypes WITH
        MaxOps <- MaxCatalogueOps, req <- treq, ops <- tops, faults <- tfaults
M == INSTANCE ModelRegistry WITH
        MaxOps <- MaxCatalogueOps, req <- mreq, ops <- mops, faults <- mfaults

MCInit ==
    /\ part \in Parts
    /\ Init /\ T!Init /\ M!Init
    /\ part # "tiers" => limit = [t \in Tier |-> CHOOSE l \in Limits : TRUE]
    /\ part # "models" => M!Fresh

MCNext ==
    \/ part = "tiers" /\ Next /\ UNCHANGED <<part, tvars, mvars>>
    \/ part = "types" /\ T!Next /\ UNCHANGED <<part, vars, mvars>>
    \/ part = "models" /\ M!Next /\ UNCHANGED <<part, vars, tvars>>

\* The fairness of tiers and types, each while it is explored.
MCFairness ==
    /\ \A w \in Worker :
          /\ WF_vars(part = "tiers" /\ Progress(w))
          /\ WF_tvars(part = "types" /\ T!Progress(w))
    /\ \A t \in Tier : WF_vars(part = "tiers" /\ Expire(t))
    /\ WF_tvars(part = "types" /\ T!ExpireAll)
    /\ \A n \in Name : WF_tvars(part = "types" /\ T!ExpireName(n))
    /\ WF_tvars(part = "types" /\ T!ClientRefresh)
    /\ WF_tvars(part = "types" /\ T!ClientExpires)

\* A registry whose defaults are in order
TidyInit == MCInit /\ M!OneDefaultPerTask

MCSpec == MCInit /\ [][MCNext]_all /\ MCFairness
RegistrySpec == MCInit /\ [][MCNext]_all
TidySpec == TidyInit /\ [][MCNext]_all

QuotaHasType == T!QuotaHasType
CatalogueConverges == T!CatalogueConverges
OldPriceIsKnown == M!OldPriceIsKnown
NextEventPaysNewPrice == M!NextEventPaysNewPrice
OneDefaultPerTask == M!OneDefaultPerTask
=============================================================================
