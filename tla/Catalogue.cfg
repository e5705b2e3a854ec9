\* Three requests of two workers on two inference types, three on two services of one
\* model version; five on one tier and one tenant.
SPECIFICATION MCSpec
CONSTANTS
  Parts = {"tiers", "types", "models"}
  Tier = {t1}
  Tenant = {n1}
  Worker = {w1, w2}
  NoTier = NoTier
  NoCopy = NoCopy
  Limits = {0, 1}
  MaxOps = 5
  MaxFaults = 1
  Name = {a, b}
  None = None
  NoKey = NoKey
  MaxTypes = 2
  Model = {m1}
  Service = {s1, s2}
  Task = {asr}
  Price = {1, 2}
  Process = {p1}
  MaxActive = 1
  AllowDeprecatedChanges = TRUE
  MaxCatalogueOps = 3
INVARIANTS NeverOnDraft QuotaHasType OldPriceIsKnown
PROPERTIES CopiesConverge CatalogueConverges
CHECK_DEADLOCK FALSE
