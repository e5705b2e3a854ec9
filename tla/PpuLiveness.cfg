\* Everything is settled and exhaustion is reported, under fair scheduling.
SPECIFICATION Spec
CONSTANTS
  r1 = r1
  r2 = r2
  NoReplica = NoReplica
  Replicas <- MCReplicas
  Log <- LogFiltered
  Pricing <- MCPricing
  Catalogue <- MCCatalogue
  BudgetSnap <- MCBudgetSnap
  TierQuota <- MCTierQuota
  BatchSize = 1
  MaxAttempts = 2
  MaxFaults <- FaultsLiveness
  MaxTogether = 5
PROPERTIES EventuallySettled ExhaustionReported
