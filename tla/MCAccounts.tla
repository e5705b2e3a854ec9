----------------------------- MODULE MCAccounts -----------------------------
(***************************************************************************)
(* Instances for TLC of TenantUsers (three accounts), of UserSessions (one *)
(* account) and of UsageRollup (two rows, two runs).  What administrators  *)
(* do to an account is part of UserSessions, and usage history knows       *)
(* tenants and keys by their ids only, so that the three are explored side *)
(* by side: a behaviour is one of users, of sessions or of usage.          *)
(***************************************************************************)
EXTENDS TenantUsers, TLC

CONSTANTS Lifetime, MaxTime, MaxSessions, MaxSessionOps, MaxFaults,
    Event, Group, LookbackDays, DaysAhead, DaysPerMonth, MaxHalfDays, MaxRuns

VARIABLES
    part,       \* which of the three the behaviour is of
    clock, password, account, open, since, grants, changed, sessions, refresh, tokens, stamp,
    link, linkLive, sreq, revoked, unstamped, cut, sops, faults,
    halfDay, stored, parts, spilled, daily, job, load, runs, jobFaults, unsorted, crossed

svars == <<clock, password, account, open, since, grants, changed, sessions, refresh, tokens,
           stamp, link, linkLive, sreq, revoked, unstamped, cut, sops, faults>>

S == INSTANCE UserSessions WITH MaxOps <- MaxSessionOps, req <- sreq, ops <- sops

\* A row before and one after the UTC midnight in the first day, which begins a month.
Row(at, group, kind) == [at |-> at, group |-> group, kind |-> kind, corr |-> at]
MCEvent == {Row(0, "g1", "legacy"), Row(1, "g2", "request")}

U == INSTANCE UsageRollup WITH
       Job <- Worker, MaxTime <- MaxHalfDays, now <- halfDay, faults <- jobFaults

uvars == <<halfDay, stored, parts, spilled, daily, job, load, runs, jobFaults, unsorted, crossed>>

MCInit ==
    /\ part \in {"users", "sessions", "usage"}
    /\ Init /\ S!Init /\ U!Init
    /\ part # "users" => org = "default"
    /\ part # "usage" => parts = U!UtcMonth

MCNext ==
    \/ part = "users" /\ Next /\ UNCHANGED <<part, svars, uvars>>
    \/ part = "sessions" /\ S!Next /\ UNCHANGED <<part, vars, uvars>>
    \/ part = "usage" /\ U!Next /\ UNCHANGED <<part, vars, svars>>

MCSpec == MCInit /\ [][MCNext]_<<part, vars, svars, uvars>>

EndedSessionsAreOver == S!EndedSessionsAreOver
OldPasswordRenewsNothing == S!OldPasswordRenewsNothing
TokensFollowAccount == S!TokensFollowAccount
NoDayCountedTwice == U!NoDayCountedTwice
RunCatchesUp == U!RunCatchesUp
RowsInTheirDay == U!RowsInTheirDay

Sym == Permutations(User) \cup Permutations(Worker)
=============================================================================
