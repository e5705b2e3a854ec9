\* One service, two workers, and nothing fails.
SPECIFICATION RegistrySpec
CONSTANTS
  Parts = {"models"}
  Tier = {t1}
  Tenant = {n1}
  Worker = {w1, w2}
  NoTier = NoTier
  NoCopy = NoCopy
  Limits = {0, 1}
  MaxOps = 5
  MaxFaults = 0
  Name = {a, b}
  None = None
  NoKey = NoKey
  MaxTypes = 2
  Model = {m1}
  Service = {s1}
  Task = {asr}
  Price = {1, 2}
  Process = {p1}
  MaxActive = 1
  AllowDeprecatedChanges = TRUE
  MaxCatalogueOps = 3
INVARIANTS NextEventPaysNewPrice
CHECK_DEADLOCK FALSE
