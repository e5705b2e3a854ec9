\* Five requests, two of them at a time, one fault, one billed request.
\* The key's values: two requests and any number of validations, in two days, one cut short.
\* The quota: three edits, cancellations or monthly runs, two at a time, with their
\* announcements to two tenants and ADMIN, in two months, with one failure.
SPECIFICATION MCSpec
CONSTANTS
  App = {1, 2}
  Key = {1, 2}
  Owner <- MCOwner
  Worker = {w1, w2}
  w1 = w1
  w2 = w2
  InitialBudgets <- MCBudgets
  TopUp = 200
  Shares = {5000}
  AppInputs <- MCAppInputs
  KeyInputs <- MCKeyInputs
  Charge = 150
  MaxBudget = 701
  MaxOps = 5
  MaxCharges = 1
  MaxFaults = 1
  MaxValues = 3
  MaxTime = 1
  MaxRequests = 2
  Lifetime = 2
  Tenant = {n1, n2}
  Admin = Admin
  Limit = {1, 2}
  NoQuota = NoQuota
  NoNews = NoNews
  MaxEdits = 3
  MaxMonths = 1
INVARIANTS ChildrenWithinParent PercentFollowsAmount LedgerFollows
INVARIANTS EntryBacked ScheduledIsTold
PROPERTIES PreviousKeepsWorking
SYMMETRY Sym
CHECK_DEADLOCK FALSE
