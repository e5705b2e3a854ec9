\* Users: five requests, two of them at a time, two links per account.
\* Sessions: four requests, two of them at a time, in three seconds.
\* Usage history: two runs of the job or the backfill, one failure, in three days and a half.
SPECIFICATION MCSpec
CONSTANTS
  User = {u1, u2, u3}
  Worker = {w1, w2}
  NoOne = NoOne
  MaxOps = 5
  MaxLinks = 2
  Lifetime = 2
  MaxTime = 3
  MaxSessions = 3
  MaxSessionOps = 4
  MaxFaults = 1
  Event <- MCEvent
  Group = {"g1", "g2"}
  LookbackDays = 1
  DaysAhead = 1
  DaysPerMonth = 2
  MaxHalfDays = 6
  MaxRuns = 2
INVARIANTS NobodyStranded EndedSessionsAreOver OldPasswordRenewsNothing TokensFollowAccount
INVARIANTS NoDayCountedTwice RunCatchesUp RowsInTheirDay
PROPERTIES RosterSurvives
SYMMETRY Sym
CHECK_DEADLOCK FALSE
