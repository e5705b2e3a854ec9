\* Two messages per fetch, two replicas: any three faults that touch delivery or a
\* debit, callbacks inside consume(), the fence and the deadline among them.
SPECIFICATION Spec
CONSTANTS
  r1 = r1
  r2 = r2
  NoReplica = NoReplica
  Replicas <- MCReplicas
  Log <- LogDuplicate
  Pricing <- MCPricing
  Catalogue <- MCCatalogue
  BudgetSnap <- MCBudgetSnap
  TierQuota <- MCTierQuota
  BatchSize = 2
  MaxAttempts = 2
  MaxFaults <- FaultsDelivery
  MaxTogether = 3
SYMMETRY MCSymmetry
INVARIANTS CommittedIsSettled OverchargeBounded DeliveryInv
