\* Two services of two task types, each the default of its own or of none.
SPECIFICATION TidySpec
CONSTANTS
  Parts = {"models"}
  Tier = {t1}
  Tenant = {n1}
  Worker = {w1, w2}
  NoTier = NoTier
  NoCopy = NoCopy
  Limits = {0, 1}
  MaxOps = 5
  MaxFaults = 1
  Name = {a, b}
  None = None
  NoKey = NoKey
  MaxTypes = 2
  Model = {m1}
  Service = {s1, s2}
  Task = {asr, nmt}
  Price = {1, 2}
  Process = {p1}
  MaxActive = 1
  AllowDeprecatedChanges = TRUE
  MaxCatalogueOps = 3
INVARIANTS OneDefaultPerTask
CHECK_DEADLOCK FALSE
