\* Flags: two requests and the push of the consumer, one of them faulty. Routes: every
\* request over three services, with up to two fallbacks in either order and payloads of
\* up to three groups. Prices: up to 2, or NULL, with requests of up to 2 tokens of a kind.
\* A request stops when it is answered or has grown to the bound.
SPECIFICATION MCSpec
CONSTANTS
  push = push
  w1 = w1
  w2 = w2
  Worker = {push, w1, w2}
  Consumer = push
  MaxOps = 2
  MaxFaults = 1
  Service = {"s1", "s2", "s3"}
  Requested = "s1"
  MaxGroups = 3
  MaxFallbacks = 2
  MaxTokens = 2
  MaxPrice = 2
INVARIANTS FlagsKept BilledByOne SuccessIsBilled 
PROPERTIES TierNeverDropped OverspendEnds ChargeFollowsUsage
CHECK_DEADLOCK FALSE
