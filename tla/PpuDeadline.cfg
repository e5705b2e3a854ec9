\* A chunk abandoned at its deadline is not fetched again.
SPECIFICATION Spec
CONSTANTS
  r1 = r1
  r2 = r2
  NoReplica = NoReplica
  Replicas <- MCReplicas
  Log <- LogBudget
  Pricing <- MCPricing
  Catalogue <- MCCatalogue
  BudgetSnap <- MCBudgetSnap
  TierQuota <- MCTierQuota
  BatchSize = 2
  MaxAttempts = 2
  MaxFaults <- OneSlowChunk
  MaxTogether = 1
INVARIANT AbandonedIsFetchedAgain
