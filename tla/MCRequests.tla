----------------------------- MODULE MCRequests -----------------------------
(***************************************************************************)
(* What decides over a request and what it costs, in three parts explored  *)
(* side by side: "flags", the billing fields of the caller's key that      *)
(* /auth/validate answers from (ApiKeyFlags); "routes", the services the   *)
(* request is sent to and the spans it leaves (InferenceRouting); and      *)
(* "prices", the cost of a growing request under every small pricing row   *)
(* (PpuPricing; tokens are added one at a time, in the category the        *)
(* provider reports them in).                                              *)
(***************************************************************************)
EXTENDS ApiKeyFlags, PpuPricing, Sequences

CONSTANTS
  push, w1, w2,
  MaxTokens, MaxPrice,
  Service, Requested, MaxGroups, MaxFallbacks

VARIABLES
  part,
  p, input, cached, output,
  kind, groups, empty, info, chain, at, calls, unit, answered, todo, named, spans, charged,
  report, status

pvars == <<p, input, cached, output>>

R == INSTANCE InferenceRouting

rvars == <<kind, groups, empty, info, chain, at, calls, unit, answered, todo, named, spans,
           charged, report, status>>
all == <<part, vars, pvars, rvars>>

SmallPrices == (0..MaxPrice) \union {NoPrice}

PricingRows ==
  [task_type: {"llm", "nmt"}, unit_rate: SmallPrices, cost_per_unit: SmallPrices,
   unit_size: {0, 2}, cached_input_cost_per_unit: SmallPrices,
   output_cost_per_unit: SmallPrices]
SomeRow == CHOOSE row \in PricingRows : TRUE

\* A request for a service that everybody may use, for the parts without routes.
Unrouted ==
  /\ R!Fresh
  /\ kind = "chat" /\ groups = 1 /\ empty = {}
  /\ info = [s \in Service |-> "open"] /\ chain = <<>>

MCInit ==
  /\ input = 0 /\ cached = 0 /\ output = 0
  /\ \/ part = "flags" /\ Init /\ Unrouted /\ p = SomeRow
     \/ part = "routes" /\ Init /\ data = NoData /\ R!Init /\ p = SomeRow
     \/ part = "prices" /\ Init /\ data = NoData /\ Unrouted /\ p \in PricingRows

AddInput == input < MaxTokens /\ input' = input + 1 /\ UNCHANGED <<p, cached, output>>
AddOutput == output < MaxTokens /\ output' = output + 1 /\ UNCHANGED <<p, input, cached>>

\* One more token is reported as served from the prefix cache; the report may
\* exceed the input.
AddCached == cached < MaxTokens /\ cached' = cached + 1 /\ UNCHANGED <<p, input, output>>

PricesNext == AddInput \/ AddOutput \/ AddCached

MCNext ==
  \/ part = "flags" /\ Next /\ UNCHANGED <<part, pvars, rvars>>
  \/ part = "routes" /\ R!Next /\ UNCHANGED <<part, vars, pvars>>
  \/ part = "prices" /\ PricesNext /\ UNCHANGED <<part, vars, rvars>>

MCFairness ==
  /\ WF_vars(part = "flags" /\ PushStart(Consumer))
  /\ \A w \in Worker : WF_vars(part = "flags" /\ Continue(w))

MCSpec == MCInit /\ [][MCNext]_all /\ MCFairness

Charge == SpanCost(input, cached, output, p)

\* _usage_event: the row's three costs add up to what was charged, and its cached and
\* output units are parts of its total.
RowAccounts ==
  LET row == UsageRow(input, cached, output, p)
  IN /\ row.cost[1] + row.cost[2] + row.cost[3] = Charge
     /\ row.cached + row.output <= row.total

\* What one more token does to the charge, whatever prices are missing or zero: the
\* usage row goes on accounting for it, use never makes a request cheaper (_bill_usage
\* treats a zero cost as nothing to bill), and a cache hit never makes it dearer when
\* cached input is priced at most as input, since each prompt token is priced in one
\* category only.
ChargeFollowsUsage ==
  [][part = "prices" =>
     /\ RowAccounts'
     /\ cached' = cached => Charge' >= Charge
     /\ input' = input /\ output' = output /\ p.cached_input_cost_per_unit <= InputRate(p)
          => Charge' <= Charge]_pvars

\* The routing properties, stated in InferenceRouting.
BilledByOne == part = "routes" => R!BilledByOne
SuccessIsBilled == part = "routes" => R!SuccessIsBilled
ChainRespected == part = "routes" => R!ChainRespected
===============================================================================
