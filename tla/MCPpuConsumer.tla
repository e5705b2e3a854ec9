---------------------------- MODULE MCPpuConsumer ----------------------------
(***************************************************************************)
(* Instances of PpuConsumer for TLC.  The log holds a metered NMT span, a  *)
(* request span, a span of the same key that exhausts its budget and that  *)
(* is delivered twice by the producer, and spans nobody bills.             *)
(***************************************************************************)
EXTENDS PpuConsumer, TLC

CONSTANTS r1, r2

MCReplicas == {r1, r2}

Metered(id, key, tier) ==
  [kind |-> "inference", id |-> id, auth |-> "api_key", key |-> key, tenant |-> "t1",
   tier |-> tier, service |-> "nmt", input |-> 1, cached |-> 0, output |-> 1,
   row |-> id, counted |-> FALSE]

Request == [Metered("req", "k1", "gold") EXCEPT !.kind = "request", !.counted = TRUE]

MCPricing ==
  "nmt" :> [task_type |-> "nmt", unit_rate |-> 1, cost_per_unit |-> NoPrice, unit_size |-> 0,
            cached_input_cost_per_unit |-> NoPrice, output_cost_per_unit |-> NoPrice]
  @@ "free" :> [task_type |-> "", unit_rate |-> NoPrice, cost_per_unit |-> NoPrice, unit_size |-> 0,
                cached_input_cost_per_unit |-> NoPrice, output_cost_per_unit |-> NoPrice]

MCCatalogue == {"nmt"}
MCBudgetSnap == "k1" :> 2 @@ "k2" :> Unlimited
MCTierQuota == <<"gold", "nmt">> :> 3

\* Two charges of k1 reach its ceiling of 2.
LogBudget == <<Metered("a", "k1", "gold"), Request, Metered("b", "k1", "gold")>>

\* The same span twice, around a span without a tier.
LogDuplicate == <<Metered("a", "k1", "gold"), Metered("b", "k2", NoTier), Metered("a", "k1", "gold")>>

\* What the filters of the handler drop, and a request, between two charges that use a
\* budget up;
\* the last one carries no authType.
LogFiltered ==
  <<Metered("a", "k1", "gold"),
    [Metered("j", "k1", "gold") EXCEPT !.auth = "jwt"],
    [Metered("f", "k1", "gold") EXCEPT !.service = "free"],
    [Metered(NoId, "k1", "gold") EXCEPT !.row = "n"],
    [Request EXCEPT !.auth = "jwt"],
    Request,
    [Metered("b", "k1", "gold") EXCEPT !.auth = ""]>>

NoFaults == [f \in FaultKinds |-> 0]

\* Everything that may be retried, redelivered, rebalanced or charged again.
FaultsDelivery == [f \in FaultKinds |->
    IF f \in {"db", "revoke"} THEN 2 ELSE IF f \in {"notify", "row"} THEN 0 ELSE 1]

\* Deaths, losses and failed calls, notices and rows among them, for the liveness properties.
FaultsLiveness ==
  [NoFaults EXCEPT !["crash"] = 1, !["lost"] = 1, !["db"] = 1, !["notify"] = 1, !["row"] = 1]

\* One kind of trouble only, for a documented claim the code does not keep.
OneSlowChunk == [NoFaults EXCEPT !["slow"] = 1]

MCSymmetry == Permutations(MCReplicas)
===============================================================================
