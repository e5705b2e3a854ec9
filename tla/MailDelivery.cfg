\* A duplicated event among undeliverable messages, any three faults of different kinds.
SPECIFICATION Spec
CONSTANTS
  r1 = r1
  r2 = r2
  NoReplica = NoReplica
  Replicas <- MCReplicas
  Log <- LogMixed
  BatchSize = 2
  MaxFaults <- MCFaults
  MaxTogether = 3
INVARIANTS DuplicatesBounded LossBounded RowsAreTrue
PROPERTIES AllCommitted
