------------------------------ MODULE PpuPricing ------------------------------
(***************************************************************************)
(* What one inference span costs: calculate_cost and calculate_llm_cost of *)
(* consumers/payperuse_consumer/_billing.py, and the split of that charge  *)
(* that handler._usage_event writes on the usage_events row.               *)
(*                                                                         *)
(* The code computes in Decimal rupees and divides a price quoted per      *)
(* unit_size tokens by unit_size.  Every amount here is multiplied by      *)
(* UnitScale(p) instead of divided, so that the arithmetic is exact in the *)
(* naturals: a "scaled" cost c stands for c / UnitScale(p) rupees, and two *)
(* scaled costs under the same pricing compare as the rupees do.           *)
(***************************************************************************)
EXTENDS Integers

\* A price column that is NULL (Optional[Decimal] = None).  0 is a real price.
NoPrice == -1

Prices == Nat \union {NoPrice}

\* ServicePricing: unit_rate is per token, the three *_cost_per_unit are per
\* unit_size tokens; unit_size 0 stands for a NULL or zero unit_size.
Pricings(TaskTypes) ==
  [task_type: TaskTypes, unit_rate: Prices, cost_per_unit: Prices, unit_size: Nat,
   cached_input_cost_per_unit: Prices, output_cost_per_unit: Prices]

UnitScale(p) == IF p.unit_size = 0 THEN 1 ELSE p.unit_size

\* _per_unit_rate, scaled: price / unit_size is price itself after scaling.
PerUnitRate(price, p) == IF price = NoPrice \/ p.unit_size = 0 THEN NoPrice ELSE price

\* unit_rate or _per_unit_rate(cost_per_unit) or Decimal(0): Python's "or" passes
\* over None and over 0 alike.
InputRate(p) ==
  IF p.unit_rate > 0 THEN p.unit_rate * UnitScale(p)
  ELSE IF PerUnitRate(p.cost_per_unit, p) > 0 THEN p.cost_per_unit
  ELSE 0

\* Mistake: the provider's count is taken as it is.
UnclampedCached(cached, input) == cached

\* min(max(cached, 0), input): the provider's count is never trusted above input.
ClampCached(cached, input) ==
  IF cached < 0 THEN 0 ELSE IF cached > input THEN input ELSE cached

OrInputRate(rate, p) == IF rate = NoPrice THEN InputRate(p) ELSE rate

\* Mistake: cached tokens are priced as input and as cached input.
LlmCostTwice(input, cached, output, p) ==
  [input_cost  |-> input * InputRate(p),
   cached_cost |-> ClampCached(cached, input) * OrInputRate(PerUnitRate(p.cached_input_cost_per_unit, p), p),
   output_cost |-> output * OrInputRate(PerUnitRate(p.output_cost_per_unit, p), p)]

\* calculate_llm_cost: each token in exactly one category, each at its own rate.
LlmCost(input, cached, output, p) ==
  LET hit == ClampCached(cached, input)
  IN [input_cost  |-> (input - hit) * InputRate(p),
      cached_cost |-> hit * OrInputRate(PerUnitRate(p.cached_input_cost_per_unit, p), p),
      output_cost |-> output * OrInputRate(PerUnitRate(p.output_cost_per_unit, p), p)]

LlmTotal(input, cached, output, p) ==
  LET c == LlmCost(input, cached, output, p)
  IN c.input_cost + c.cached_cost + c.output_cost

\* calculate_cost: every task type but llm.
CalculateCost(units, p) ==
  IF p.unit_rate > 0 THEN units * p.unit_rate * UnitScale(p)
  ELSE IF p.cost_per_unit > 0 /\ p.unit_size > 0 THEN units * p.cost_per_unit
  ELSE 0

IsLlm(p) == p.task_type = "llm"

\* _bill_usage: only llm bills its output tokens.
BilledUnits(input, output, p) == IF IsLlm(p) THEN input + output ELSE input

SpanCost(input, cached, output, p) ==
  IF IsLlm(p) THEN LlmTotal(input, cached, output, p)
  ELSE CalculateCost(BilledUnits(input, output, p), p)

\* _usage_event: the units and costs of the usage_events row for a charge.
UsageRow(input, cached, output, p) ==
  LET c == LlmCost(input, cached, output, p)
  IN IF IsLlm(p)
     THEN [total |-> BilledUnits(input, output, p),
           cached |-> ClampCached(cached, input), output |-> output,
           cost |-> <<c.input_cost, c.cached_cost, c.output_cost>>]
     ELSE [total |-> BilledUnits(input, output, p), cached |-> 0, output |-> 0,
           cost |-> <<CalculateCost(input, p), 0, 0>>]
===============================================================================
