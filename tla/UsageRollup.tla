----------------------------- MODULE UsageRollup -----------------------------
(***************************************************************************)
(* Usage history: the usage_events rows the billing consumer stores, the   *)
(* nightly job daily_usage_consolidation that keeps them in partitions of  *)
(* a day and rolls past days up into daily_usage, the one-off backfill of  *)
(* days before recording began, its undo, and what the Usage Dashboard     *)
(* reads.                                                                  *)
(*                                                                         *)
(* Time is counted in half days.  The IST day d is the instants 2d and     *)
(* 2d + 1, and the UTC day d starts one instant after it (05:30 IST).      *)
(* Of the dimensions of a row, `group` stands for all but the day and the  *)
(* billing month; of its measures, requests and units are kept (failed     *)
(* requests are counted the way requests are, costs the way units are).    *)
(***************************************************************************)
EXTENDS Integers, FiniteSets, FiniteSetsExt

CONSTANTS
    Event,           \* the usage_events rows written sooner or later
    Group,
    Job,             \* runs of the nightly job in progress, manual reruns too
    LookbackDays,    \* USAGE_ROLLUP_LOOKBACK_DAYS
    DaysAhead,       \* USAGE_EVENTS_DAYS_AHEAD
    DaysPerMonth,    \* bound: length of a month
    MaxTime,         \* bound: half days that pass
    MaxRuns,         \* bound: runs of the job and of the backfill
    MaxFaults        \* bound: failures and kills of jobs and backfills

VARIABLES
    now,
    stored,    \* rows of usage_events
    parts,     \* ranges of its partitions, without DEFAULT
    spilled,   \* rows in its DEFAULT partition
    daily,     \* daily_usage, by dimension key
    job,       \* the runs of daily_usage_consolidation
    load,      \* the backfill command
    runs, faults,
    unsorted,  \* history: rows stored since partitions were last maintained
    crossed    \* history: days a run rolled up although midnight had passed since its start

vars == <<now, stored, parts, spilled, daily, job, load, runs, faults, unsorted, crossed>>

Day(t) == t \div 2
UtcDay(t) == (t - 1) \div 2
Month(day) == day \div DaysPerMonth
Today == Day(now)
NoDay == -1

OnDay(rows, day) == {e \in rows : Day(e.at) = day}

\* A request row has a status and no units, a usage row units and no status; a legacy row,
\* from before request rows, has both, and several can share a correlation id.
Requests(rows) ==
    Cardinality({e \in rows : e.kind = "request"})
      + Cardinality({e.corr : e \in {f \in rows : f.kind = "legacy"}})
Units(rows) == Cardinality({e \in rows : e.kind # "request"})
Figures(rows) == [requests |-> Requests(rows), units |-> Units(rows)]

Total(f) == MapThenSumSet(LAMBDA k : f[k], DOMAIN f)
Added(figures) ==
    [requests |-> Total([k \in DOMAIN figures |-> figures[k].requests]),
     units |-> Total([k \in DOMAIN figures |-> figures[k].units])]

KeyOf(e) == [day |-> Day(e.at), group |-> e.group, month |-> Month(UtcDay(e.at))]

Idle == [at |-> "idle", today |-> NoDay, day |-> NoDay, groups |-> <<>>, seen |-> {},
         missed |-> FALSE]
NoLoad == [at |-> "idle", day |-> NoDay, last |-> NoDay]

Between(lo, hi) == [lo |-> lo, hi |-> hi]
DayRange(day) == Between(2 * day, 2 * day + 2)
IsDay(p) == p = DayRange(Day(p.lo))
Holds(p, e) == p.lo <= e.at /\ e.at < p.hi

\* The migration leaves UTC months; an earlier version of the job left UTC days.
UtcMonth == {Between(1, 2 * DaysPerMonth + 1)}
UtcDays == {Between(1, 3), Between(3, 5)}

Init ==
    /\ now = 0 /\ stored = {} /\ spilled = {}
    /\ parts \in {UtcMonth, UtcDays}
    /\ daily = <<>>
    /\ job = [j \in Job |-> Idle] /\ load = NoLoad
    /\ runs = 0 /\ faults = 0
    /\ unsorted = {} /\ crossed = {}

Tick ==
    /\ now < MaxTime
    /\ now' = now + 1
    /\ UNCHANGED <<stored, parts, spilled, daily, job, load, runs, faults, unsorted, crossed>>

\* The billing consumer stores a row, maybe days after the span ended; Postgres routes it.
Store(e) ==
    /\ e \notin stored /\ e.at <= now
    /\ stored' = stored \union {e}
    /\ spilled' = IF \E p \in parts : Holds(p, e) THEN spilled ELSE spilled \union {e}
    /\ unsorted' = unsorted \union {e}
    /\ UNCHANGED <<now, parts, daily, job, load, runs, faults, crossed>>

-----------------------------------------------------------------------------
(* daily_usage_consolidation *)

FirstRollupDay(today) == today - (1 + LookbackDays)
Reach(today) == FirstRollupDay(today)..(today - 1)

Start(j) ==
    /\ job[j].at = "idle" /\ runs < MaxRuns
    /\ runs' = runs + 1
    /\ job' = [job EXCEPT ![j] = [Idle EXCEPT
                 !.at = "partitions", !.today = Today, !.day = FirstRollupDay(Today),
                 !.seen = stored]]
    /\ UNCHANGED <<now, stored, parts, spilled, daily, load, faults, unsorted, crossed>>

Rows(p) == {e \in stored \ spilled : Holds(p, e)}

\* Mistake: the days of DEFAULT's rows are forgotten.
WantedOfOld(today, old) ==
    today..(today + DaysAhead) \union {Day(e.at) : e \in UNION {Rows(p) : p \in old}}

\* Days that need a partition: today and those ahead, and every day that has rows to
\* restore.
Wanted(today, old) ==
    today..(today + DaysAhead)
      \union {Day(e.at) : e \in spilled \union UNION {Rows(p) : p \in old}}

\* One transaction under an exclusive lock of the table: old partitions are detached, the
\* rows DEFAULT holds for a new day taken out, the days created, and all these rows
\* inserted again through the parent.
Maintain(j) ==
    LET old == {p \in parts : ~IsDay(p)}
        kept == parts \ old
        created == {DayRange(d) : d \in Wanted(job[j].today, old)} \ kept
        moved == {e \in spilled : \E p \in created : Holds(p, e)}
        restored == moved \union UNION {Rows(p) : p \in old}
    IN /\ job[j].at = "partitions"
       /\ parts' = kept \union created
       /\ spilled' = (spilled \ moved) \union {e \in restored : ~\E p \in parts' : Holds(p, e)}
       /\ unsorted' = {}
       /\ job' = [job EXCEPT ![j].at = "rollup"]
       /\ UNCHANGED <<now, stored, daily, load, runs, faults, crossed>>

\* Another run is at it: the step is left to that one.
MaintainSkipped(j) ==
    /\ job[j].at = "partitions" /\ \E i \in Job \ {j} : job[i].at = "partitions"
    /\ job' = [job EXCEPT ![j].at = "rollup"]
    /\ UNCHANGED <<now, stored, parts, spilled, daily, load, runs, faults, unsorted, crossed>>

\* Mistake: no lock is taken.
NoLock == TRUE

\* The rollup's advisory lock is held from the aggregation to the commit.
LockFree == \A j \in Job : job[j].at # "write"

\* _AGGREGATE: one row per dimension key of the day.
Aggregated(rows) ==
    [k \in {KeyOf(e) : e \in rows} |-> Figures({e \in rows : KeyOf(e) = k})]

Aggregate(j) ==
    /\ job[j].at = "rollup" /\ LockFree
    /\ job' = [job EXCEPT ![j].at = "write",
                          ![j].groups = Aggregated(OnDay(stored, job[j].day))]
    /\ UNCHANGED <<now, stored, parts, spilled, daily, load, runs, faults, unsorted, crossed>>

\* The run's state after one of its days, with an outcome.
NextDay(run, missed) ==
    [run EXCEPT !.groups = <<>>, !.missed = @ \/ missed,
                !.at = IF run.day = run.today - 1 THEN "done" ELSE "rollup",
                !.day = @ + 1]

Skip(j) ==
    /\ job[j].at = "rollup" /\ ~LockFree
    /\ job' = [job EXCEPT ![j] = NextDay(@, TRUE)]
    /\ UNCHANGED <<now, stored, parts, spilled, daily, load, runs, faults, unsorted, crossed>>

\* Rows of the rollup that the transaction did not write.
Stale(day, groups) ==
    {k \in DOMAIN daily : k.day = day /\ daily[k].source = "rollup"} \ DOMAIN groups

\* The upsert replaces measures only: a row of the backfill stays one.
Upserted(day, groups) ==
    [k \in (DOMAIN daily \ Stale(day, groups)) \union DOMAIN groups |->
       IF k \notin DOMAIN groups THEN daily[k]
       ELSE [source |-> IF k \in DOMAIN daily THEN daily[k].source ELSE "rollup",
             requests |-> groups[k].requests, units |-> groups[k].units]]

\* The names come from the auth database in between; then upsert, sweep and commit.
Write(j) ==
    /\ job[j].at = "write"
    /\ daily' = Upserted(job[j].day, job[j].groups)
    /\ crossed' = IF job[j].today < Today THEN crossed \union {job[j].day} ELSE crossed
    /\ job' = [job EXCEPT ![j] = NextDay(@, FALSE)]
    /\ UNCHANGED <<now, stored, parts, spilled, load, runs, faults, unsorted>>

\* A step fails: its transaction is rolled back, and the run goes on with the next one.
StepFails(j) ==
    /\ faults < MaxFaults
    /\ faults' = faults + 1
    /\ \/ /\ job[j].at = "partitions"
          /\ job' = [job EXCEPT ![j].at = "rollup"]
       \/ /\ job[j].at \in {"rollup", "write"}
          /\ job' = [job EXCEPT ![j] = NextDay(@, TRUE)]
    /\ UNCHANGED <<now, stored, parts, spilled, daily, load, runs, unsorted, crossed>>

\* The process exits, or is killed with its transaction.
End(j) ==
    /\ job[j].at = "done"
    /\ job' = [job EXCEPT ![j] = Idle]
    /\ UNCHANGED <<now, stored, parts, spilled, daily, load, runs, faults, unsorted, crossed>>

Kill(j) ==
    /\ job[j].at \notin {"idle", "done"} /\ faults < MaxFaults
    /\ faults' = faults + 1
    /\ job' = [job EXCEPT ![j] = Idle]
    /\ UNCHANGED <<now, stored, parts, spilled, daily, load, runs, unsorted, crossed>>

-----------------------------------------------------------------------------
(* The backfill, and its undo *)

\* Mistake: the last day is left out.
RecordedBefore(first, last) ==
    \E k \in DOMAIN daily : k.day \in first..(last - 1) /\ daily[k].source = "rollup"

Recorded(first, last) ==
    \E k \in DOMAIN daily : k.day \in first..last /\ daily[k].source = "rollup"

\* check_days_not_recorded, once for all the days asked for.
BackfillStart(first, last) ==
    /\ load.at = "idle" /\ runs < MaxRuns
    /\ first <= last /\ last < FirstRollupDay(Today) /\ ~Recorded(first, last)
    /\ load' = [at |-> "load", day |-> first, last |-> last]
    /\ runs' = runs + 1
    /\ UNCHANGED <<now, stored, parts, spilled, daily, job, faults, unsorted, crossed>>

\* What Prometheus has of the day becomes one row per group, in the IST month.
BackfillRows(day, groups) ==
    [k \in {[day |-> day, group |-> g, month |-> Month(day)] : g \in groups} |->
       [source |-> "backfill", requests |-> 1, units |-> 1]]

Without(keys) == [k \in DOMAIN daily \ keys |-> daily[k]]
Backfilled == {k \in DOMAIN daily : daily[k].source = "backfill"}

\* write_day replaces the day's backfilled rows.  A key the rollup has taken meanwhile
\* breaks the unique index, which ends the command.
BackfillDay(groups) ==
    LET rest == Without({k \in Backfilled : k.day = load.day})
        new == BackfillRows(load.day, groups)
    IN /\ load.at = "load"
       /\ \/ /\ DOMAIN rest \intersect DOMAIN new = {}
             /\ daily' = [k \in DOMAIN rest \union DOMAIN new |->
                            IF k \in DOMAIN new THEN new[k] ELSE rest[k]]
             /\ load' = IF load.day = load.last THEN NoLoad ELSE [load EXCEPT !.day = @ + 1]
          \/ /\ DOMAIN rest \intersect DOMAIN new # {}
             /\ load' = NoLoad /\ UNCHANGED daily
       /\ UNCHANGED <<now, stored, parts, spilled, job, runs, faults, unsorted, crossed>>

\* Prometheus does not answer, another backfill or an undo holds the lock, or a kill.
BackfillFails ==
    /\ load.at = "load" /\ faults < MaxFaults
    /\ faults' = faults + 1
    /\ load' = NoLoad
    /\ UNCHANGED <<now, stored, parts, spilled, daily, job, runs, unsorted, crossed>>

\* The lock is the transaction's, so an undo fits between two days of a backfill.
Undo ==
    /\ Backfilled # {}
    /\ daily' = Without(Backfilled)
    /\ UNCHANGED <<now, stored, parts, spilled, job, load, runs, faults, unsorted, crossed>>

Next ==
    \/ Tick
    \/ \E e \in Event : Store(e)
    \/ \E j \in Job : \/ Start(j) \/ Maintain(j) \/ MaintainSkipped(j) \/ Aggregate(j)
                      \/ Skip(j) \/ Write(j) \/ StepFails(j) \/ End(j) \/ Kill(j)
    \/ \E first, last \in 0..Day(MaxTime) : BackfillStart(first, last)
    \/ \E groups \in SUBSET Group : BackfillDay(groups)
    \/ BackfillFails
    \/ Undo

Spec == Init /\ [][Next]_vars

-----------------------------------------------------------------------------
(* The dashboard *)

\* MeteringUsageRepository.aggregate, for one day and the groups of a filter: the rollup's
\* rows for a past day if it has any, usage_events otherwise.
Shown(day, groups) ==
    LET rolled == {k \in DOMAIN daily : k.day = day /\ k.group \in groups}
    IN IF day < Today /\ rolled # {}
       THEN Added([k \in rolled |-> daily[k]])
       ELSE Figures({e \in OnDay(stored, day) : e.group \in groups})

AtLeast(f, g) == f.requests >= g.requests /\ f.units >= g.units

-----------------------------------------------------------------------------
(* Properties *)

\* No day holds estimates of the backfill next to recorded usage, which the dashboard would
\* add up, unless a run of the job outlived midnight: check_days_not_recorded looks once,
\* before the days are written, and nothing locks the rollup out.
NoDayCountedTwice ==
    \A k, l \in DOMAIN daily :
        k.day = l.day /\ daily[k].source # daily[l].source => k.day \in crossed

\* When a run of the job ends without an error or a skipped day, the dashboard shows at
\* least the usage that was stored when the run began, for every day within its reach, in
\* every filter; no other run puts older figures back.
RunCatchesUp ==
    \A j \in Job : job[j].at = "done" /\ ~job[j].missed =>
        \A day \in Reach(job[j].today) \ crossed, groups \in SUBSET Group :
            AtLeast(Shown(day, groups),
                    Figures({e \in OnDay(job[j].seen, day) : e.group \in groups}))

\* Partitions never overlap, DEFAULT holds no row that a partition claims (Postgres would
\* have refused the partition), and every row stored before the last maintenance is in the
\* partition of its IST day.
RowsInTheirDay ==
    /\ \A p, q \in parts : p # q => p.hi <= q.lo \/ q.hi <= p.lo
    /\ \A e \in spilled, p \in parts : ~Holds(p, e)
    /\ \A e \in stored \ unsorted : e \notin spilled /\ DayRange(Day(e.at)) \in parts
=============================================================================
