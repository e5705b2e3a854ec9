------------------------------ MODULE BandAlerts ------------------------------
(***************************************************************************)
(* BAND notifications of libs/ai4i_core/ai4i_core/kafka, for one ledger    *)
(* row: emit_band_batch (pipeline.py) run by several pods, over the tiered *)
(* cache of the ledger state (cache.py: L1 per pod, Redis, database) and   *)
(* the guarded claim and reset (ledger.py).                                *)
(*                                                                         *)
(*   idle -> get -> query -> install -> fill -> claim | reset -> apply     *)
(*        -> set -> deliver -> idle                                        *)
(*                                                                         *)
(* Every await on Redis, the database or Kafka is a step of its own.  One  *)
(* row is enough: rows share no state.  A batch that outlives its tick (it *)
(* is shielded) and the next one of the same process stand for two pods    *)
(* here.  Settings, subscriptions and recipients are fixed; a failure      *)
(* to read them ends the evaluation where the code ends it.  An L1 entry   *)
(* may go at any moment: its TTL runs out, or an invalidation arrives over *)
(* pub/sub, which may also be lost, late or behind a newer fill; so only   *)
(* the TTL is relied on, and the messages themselves are not state.        *)
(***************************************************************************)
EXTENDS Integers, Sequences, FiniteSets

CONSTANTS
  Pods,        \* processes that evaluate the row
  NBands,      \* bands of the row, ascending: 1..NBands; 0 is "no band reached"
  Resets,      \* spec.resets: TRUE for monitoring rows
  Cooldown,    \* notif_monitor_cooldown_s, in ticks
  MaxMoves,    \* bound: how often the observed value changes band
  MaxFaults    \* bound: crashes and failed calls

ASSUME BandsAssumption == NBands \in Nat
ASSUME ResetsAssumption == Resets \in BOOLEAN
ASSUME CooldownAssumption == Cooldown \in Nat
ASSUME BoundsAssumption == MaxMoves \in Nat /\ MaxFaults \in Nat

Bands == 1..NBands

\* LedgerState.  age stands for triggered_at: how long ago, up to Cooldown.  inc is
\* no column: it numbers the incidents, so that copies of different ones differ.
States == [triggered: BOOLEAN, band: 0..NBands, age: 0..Cooldown, inc: Nat]

\* NO_LEDGER_ROW: an absent row is cached like any other state.
NoRow == [triggered |-> FALSE, band |-> 0, age |-> 0, inc |-> 0]

\* What an alert is about.
Alerts == [inc: Nat, band: Bands]
AlertOf(s) == [inc |-> s.inc, band |-> s.band]

\* A cache entry, a value in hand or an event in hand: {} or one member.
AtMostOne(S) == \A s, t \in S : s = t

VARIABLES
  row,       \* ledger_notification_alert: the row in the database
  redis,     \* the K3 key: {} or {state}
  l1,        \* each pod's _ledger_l1 entry: {} or {state}
  level,     \* the band the observed value reaches now (band_for), 0 for none
  moves,     \* how often level has changed
  pc,        \* where each pod's evaluation stands
  task,      \* its local values
  sent,      \* alerts handed to Kafka, in order
  failed,    \* alerts with a failure row
  lost,      \* alerts whose pod died or never learnt that its claim won
  faults     \* faults so far

caches == <<redis, l1>>
world == <<level, moves>>
outcomes == <<sent, failed, lost>>
vars == <<row, caches, world, pc, task, outcomes, faults>>

PCs == {"idle", "get", "query", "install", "fill", "claim", "reset", "reread",
        "apply", "set", "undo", "deliver"}

\* band: what was observed.  copy: the state in hand.  fill: Redis answered with a
\* miss.  event: the alert its claim has won.
NoTask == [band |-> 0, copy |-> {}, fill |-> FALSE, event |-> {}]

Tasks == [band: 0..NBands, copy: SUBSET States, fill: BOOLEAN, event: SUBSET Alerts]

TypeOK ==
  /\ row \in States
  /\ redis \subseteq States /\ AtMostOne(redis)
  /\ l1 \in [Pods -> SUBSET States]
  /\ level \in 0..NBands
  /\ moves \in 0..MaxMoves
  /\ pc \in [Pods -> PCs]
  /\ task \in [Pods -> Tasks]
  /\ \A p \in Pods : AtMostOne(l1[p]) /\ AtMostOne(task[p].copy) /\ AtMostOne(task[p].event)
  /\ sent \in Seq(Alerts)
  /\ failed \subseteq Alerts
  /\ lost \subseteq Alerts
  /\ faults \in 0..MaxFaults

Init ==
  /\ row = NoRow
  /\ redis = {}
  /\ l1 = [p \in Pods |-> {}]
  /\ level \in 0..NBands
  /\ moves = 0
  /\ pc = [p \in Pods |-> "idle"]
  /\ task = [p \in Pods |-> NoTask]
  /\ sent = <<>>
  /\ failed = {}
  /\ lost = {}
  /\ faults = 0

Fault == faults < MaxFaults /\ faults' = faults + 1
NoFault == UNCHANGED faults

\* The task of an evaluation that has observed band b, and pod p's task with another
\* copy and event in hand.
Observed(b) == [band |-> b, copy |-> {}, fill |-> FALSE, event |-> {}]
Holding(p, copy, event) ==
  [band |-> task[p].band, copy |-> copy, fill |-> task[p].fill, event |-> event]

\* Pod p goes on at label with task t; the evaluation is over at idle.
Goto(p, label, t) ==
  /\ pc' = [pc EXCEPT ![p] = label]
  /\ task' = [task EXCEPT ![p] = IF label = "idle" THEN NoTask ELSE t]

-------------------------------------------------------------------------------
(* The read: L1, then Redis, then the database (cache.read, _load_owned).    *)

\* Mistake: a closed incident still counts as fired.
DecideOnBandOnly(s, b) ==
  IF b = 0
  THEN IF s.triggered /\ Resets /\ s.age >= Cooldown THEN "reset" ELSE "idle"
  ELSE IF b > s.band THEN "claim" ELSE "idle"

\* decide: what band b asks of state s, as the step that follows.
Decide(s, b) ==
  IF b = 0
  THEN IF s.triggered /\ Resets /\ s.age >= Cooldown THEN "reset" ELSE "idle"
  ELSE IF ~s.triggered \/ b > s.band THEN "claim" ELSE "idle"

\* The decision on the copy pod p was given; the claim needs only the band.
Proceed(p, s, b) == Goto(p, Decide(s, b), Observed(b))

\* A span was billed or a monitoring tick runs: the L1 entry answers, or a miss
\* sends the read on.
Evaluate(p) ==
  /\ pc[p] = "idle"
  /\ \/ \E s \in l1[p] : Proceed(p, s, level)
     \/ l1[p] = {} /\ Goto(p, "get", Observed(level))
  /\ NoFault
  /\ UNCHANGED <<row, caches, world, outcomes>>

GetRedis(p) ==
  /\ pc[p] = "get"
  /\ IF redis = {}
     THEN Goto(p, "query", [band |-> task[p].band, copy |-> {}, fill |-> TRUE, event |-> {}])
     ELSE Goto(p, "install", Holding(p, redis, {}))
  /\ NoFault
  /\ UNCHANGED <<row, caches, world, outcomes>>

\* CACHE_READ_FAILED: straight to the database, and no fill afterwards.
GetFails(p) ==
  /\ pc[p] = "get"
  /\ Fault
  /\ Goto(p, "query", task[p])
  /\ UNCHANGED <<row, caches, world, outcomes>>

QueryDb(p) ==
  /\ pc[p] = "query"
  /\ Goto(p, "install", Holding(p, {row}, {}))
  /\ NoFault
  /\ UNCHANGED <<row, caches, world, outcomes>>

\* LEDGER_READ_FAILED (or no settings): the item is given up with a failure row.
QueryFails(p) ==
  /\ pc[p] = "query"
  /\ Fault
  /\ Goto(p, "idle", NoTask)
  /\ UNCHANGED <<row, caches, world, outcomes>>

\* The answer is back in the process: it becomes the L1 entry, whatever was
\* invalidated since it was read, and a database read goes on to fill Redis.
Install(p) ==
  /\ pc[p] = "install"
  /\ l1' = [l1 EXCEPT ![p] = task[p].copy]
  /\ \E s \in task[p].copy :
       IF task[p].fill THEN Goto(p, "fill", task[p]) ELSE Proceed(p, s, task[p].band)
  /\ NoFault
  /\ UNCHANGED <<row, redis, world, outcomes>>

\* _fill: SET NX, so it never replaces what a writer has put there since.  A
\* failure is recorded and the read goes on; the SET may have been executed.
Fill(p) ==
  /\ pc[p] = "fill"
  /\ \/ redis' = (IF redis = {} THEN task[p].copy ELSE redis) /\ NoFault
     \/ Fault /\ UNCHANGED redis
  /\ \E s \in task[p].copy : Proceed(p, s, task[p].band)
  /\ UNCHANGED <<row, l1, world, outcomes>>

-------------------------------------------------------------------------------
(* The claim and the reset: the database decides.                            *)

\* Mistake: reaching the same band again is a new claim.
ClaimableAgain(b) == ~row.triggered \/ b >= row.band

\* Q-L2's WHERE clause, for band b.
Claimable(b) == ~row.triggered \/ b > row.band

\* The row a won claim leaves.
Claimed(b) ==
  [triggered |-> TRUE, band |-> b, age |-> 0,
   inc |-> IF row.triggered THEN row.inc ELSE row.inc + 1]

\* Before the claim: the subscription of the tenant could not be read.
GateFails(p) ==
  /\ pc[p] = "claim"
  /\ Fault
  /\ Goto(p, "idle", NoTask)
  /\ UNCHANGED <<row, caches, world, outcomes>>

ClaimWon(p) ==
  /\ pc[p] = "claim" /\ Claimable(task[p].band)
  /\ row' = Claimed(task[p].band)
  /\ Goto(p, "apply", Holding(p, {row'}, {AlertOf(row')}))
  /\ NoFault
  /\ UNCHANGED <<caches, world, outcomes>>

\* Another pod was first: the row is read again to refresh the caches.
ClaimLost(p) ==
  /\ pc[p] = "claim" /\ ~Claimable(task[p].band)
  /\ Goto(p, "reread", task[p])
  /\ NoFault
  /\ UNCHANGED <<row, caches, world, outcomes>>

\* LEDGER_WRITE_FAILED: the statement or its commit raised.  When the commit had
\* been applied the claim is won and nobody knows.
ClaimFails(p) ==
  /\ pc[p] = "claim"
  /\ Fault
  /\ Goto(p, "idle", NoTask)
  /\ \/ UNCHANGED <<row, lost>>
     \/ /\ Claimable(task[p].band)
        /\ row' = Claimed(task[p].band)
        /\ lost' = lost \union {AlertOf(row')}
  /\ UNCHANGED <<caches, world, sent, failed>>

\* Q-L3's WHERE clause.
Resettable == row.triggered /\ row.age >= Cooldown

\* The row a won reset leaves.
Rearmed == [triggered |-> FALSE, band |-> row.band, age |-> row.age, inc |-> row.inc]

ResetWon(p) ==
  /\ pc[p] = "reset" /\ Resettable
  /\ row' = Rearmed
  /\ Goto(p, "apply", Holding(p, {row'}, {}))
  /\ NoFault
  /\ UNCHANGED <<caches, world, outcomes>>

ResetLost(p) ==
  /\ pc[p] = "reset" /\ ~Resettable
  /\ Goto(p, "reread", task[p])
  /\ NoFault
  /\ UNCHANGED <<row, caches, world, outcomes>>

\* Mistake: the re-armed state is written through although the reset raised.
ResetFailsApplied(p) ==
  /\ pc[p] = "reset"
  /\ Fault
  /\ Goto(p, "apply", Holding(p, {Rearmed}, {}))
  /\ UNCHANGED <<row, caches, world, outcomes>>

ResetFails(p) ==
  /\ pc[p] = "reset"
  /\ Fault
  /\ Goto(p, "idle", NoTask)
  /\ row' = row \/ (Resettable /\ row' = Rearmed)
  /\ UNCHANGED <<caches, world, outcomes>>

Reread(p) ==
  /\ pc[p] = "reread"
  /\ Goto(p, "apply", Holding(p, {row}, {}))
  /\ NoFault
  /\ UNCHANGED <<row, caches, world, outcomes>>

RereadFails(p) ==
  /\ pc[p] = "reread"
  /\ Fault
  /\ Goto(p, "idle", NoTask)
  /\ UNCHANGED <<row, caches, world, outcomes>>

-------------------------------------------------------------------------------
(* The write through (write_ledger, _write) and the delivery.                *)

\* write_ledger puts the new state into its own L1 before the first await.
Apply(p) ==
  /\ pc[p] = "apply"
  /\ l1' = [l1 EXCEPT ![p] = task[p].copy]
  /\ Goto(p, "set", task[p])
  /\ NoFault
  /\ UNCHANGED <<row, redis, world, outcomes>>

\* A won claim goes on to its delivery.
AfterWrite(p) == Goto(p, IF task[p].event = {} THEN "idle" ELSE "deliver", task[p])

\* One pipeline: SET the key and PUBLISH its invalidation.
SetRedis(p) ==
  /\ pc[p] = "set"
  /\ redis' = task[p].copy
  /\ AfterWrite(p)
  /\ NoFault
  /\ UNCHANGED <<row, l1, world, outcomes>>

\* Mistake: a failed cache write ends the batch before its deliveries.
SetFailsRaises(p) ==
  /\ pc[p] = "set"
  /\ Fault
  /\ redis' \in {redis, task[p].copy}
  /\ Goto(p, "idle", NoTask)
  /\ UNCHANGED <<row, l1, world, outcomes>>

\* A command of the pipeline, or its answer, failed: the SET may have been done.
SetFails(p) ==
  /\ pc[p] = "set"
  /\ Fault
  /\ redis' \in {redis, task[p].copy}
  /\ Goto(p, "undo", task[p])
  /\ UNCHANGED <<row, l1, world, outcomes>>

\* The key is deleted after a failed write; a failed delete is only logged.
Undo(p) ==
  /\ pc[p] = "undo"
  /\ \/ redis' = {} /\ NoFault
     \/ Fault /\ UNCHANGED redis
  /\ AfterWrite(p)
  /\ UNCHANGED <<row, l1, world, outcomes>>

\* Recipients, envelope, Kafka: the event is handed over ...
Deliver(p) ==
  /\ pc[p] = "deliver"
  /\ \E a \in task[p].event : sent' = Append(sent, a)
  /\ Goto(p, "idle", NoTask)
  /\ NoFault
  /\ UNCHANGED <<row, caches, world, failed, lost>>

\* ... or a failure row says why not.
DeliverFails(p) ==
  /\ pc[p] = "deliver"
  /\ Fault
  /\ failed' = failed \union task[p].event
  /\ Goto(p, "idle", NoTask)
  /\ UNCHANGED <<row, caches, world, sent, lost>>

-------------------------------------------------------------------------------
(* The process, the clock, the world.                                        *)

\* The process dies and is replaced; a claim it had won is never delivered.
Crash(p) ==
  /\ Fault
  /\ lost' = lost \union task[p].event
  /\ Goto(p, "idle", NoTask)
  /\ l1' = [l1 EXCEPT ![p] = {}]
  /\ UNCHANGED <<row, redis, world, sent, failed>>

\* The L1 entry goes: its TTL or the size bound, an invalidation from another pod
\* (apply_invalidation), or drop_all when the listener has subscribed again.
DropL1(p) ==
  /\ l1[p] # {}
  /\ l1' = [l1 EXCEPT ![p] = {}]
  /\ NoFault
  /\ UNCHANGED <<row, redis, world, pc, task, outcomes>>

\* Mistake: the key is set without a TTL.
NeverExpires == FALSE /\ UNCHANGED vars

\* notif_redis_ledger_ttl_s runs out, or Redis evicts the key.
ExpireRedis ==
  /\ redis # {}
  /\ redis' = {}
  /\ NoFault
  /\ UNCHANGED <<row, l1, world, pc, task, outcomes>>

\* Time passes for the row and for every copy of it alike.
Older(s) ==
  [triggered |-> s.triggered, band |-> s.band, inc |-> s.inc,
   age |-> IF s.triggered /\ s.age < Cooldown THEN s.age + 1 ELSE s.age]
OlderCopies(S) == {Older(s) : s \in S}

Tick ==
  /\ row' = Older(row)
  /\ redis' = OlderCopies(redis)
  /\ l1' = [p \in Pods |-> OlderCopies(l1[p])]
  /\ task' = [p \in Pods |-> Holding(p, OlderCopies(task[p].copy), task[p].event)]
  /\ NoFault
  /\ UNCHANGED <<world, pc, outcomes>>

\* The observed value reaches another band.
Observe(b) ==
  /\ moves < MaxMoves /\ b # level
  /\ level' = b
  /\ moves' = moves + 1
  /\ NoFault
  /\ UNCHANGED <<row, caches, pc, task, outcomes>>

-------------------------------------------------------------------------------
Read(p) ==
  Evaluate(p) \/ GetRedis(p) \/ GetFails(p) \/ QueryDb(p) \/ QueryFails(p)
  \/ Install(p) \/ Fill(p)

Decided(p) ==
  GateFails(p) \/ ClaimWon(p) \/ ClaimLost(p) \/ ClaimFails(p)
  \/ ResetWon(p) \/ ResetLost(p) \/ ResetFails(p) \/ Reread(p) \/ RereadFails(p)

Write(p) ==
  Apply(p) \/ SetRedis(p) \/ SetFails(p) \/ Undo(p) \/ Deliver(p) \/ DeliverFails(p)

Run(p) == Read(p) \/ Decided(p) \/ Write(p)

Next ==
  \/ \E p \in Pods : Run(p) \/ Crash(p) \/ DropL1(p)
  \/ ExpireRedis
  \/ Tick
  \/ \E b \in 0..NBands : Observe(b)

\* Evaluations go on (a monitoring tick every interval), every entry has a TTL and
\* time passes.  An invalidation is never owed: the TTLs bound what it may miss.
Fairness ==
  /\ \A p \in Pods : WF_vars(Run(p)) /\ WF_vars(DropL1(p))
  /\ WF_vars(ExpireRedis)
  /\ WF_vars(Tick)

Spec == Init /\ [][Next]_vars /\ Fairness

-------------------------------------------------------------------------------
(* Properties.                                                               *)

\* Alerts won by a claim whose pod is still at work on them.
Pending == UNION {task[p].event : p \in Pods}

\* The guarded UPSERT "is the only authority for fire: exactly one caller gets a row
\* back" (ledger.py), so however stale the copies the pods decide on, no band of an
\* incident is announced twice.
AlertedOnce == \A i, j \in DOMAIN sent : sent[i] = sent[j] => i = j

\* s may still become t: a later incident, or the same one higher up or closed.
Precedes(s, t) ==
  \/ s.inc < t.inc
  \/ /\ s.inc = t.inc /\ s.band <= t.band
     /\ t.triggered => s.triggered
     /\ ~s.triggered => s.band = t.band

\* Every copy of the row in Redis, in an L1 or in a pod's hands is a state the row
\* has been in: no write through, fill, undo or failed claim leaves a copy ahead of
\* the database, which would suppress an alert that was never raised.
CopyIsPast ==
  /\ \A s \in redis : Precedes(s, row)
  /\ \A p \in Pods : \A s \in l1[p] \union task[p].copy : Precedes(s, row)

\* The caches, the lost races and the failures are invisible: the row, and what
\* becomes of each alert, behave as one incident at a time.
Incident ==
  INSTANCE AlertIncident WITH
    open <- row.triggered, incident <- row.inc, band <- row.band, pending <- Pending

ImplementsIncident == Incident!Spec

\* A value that settles in a band is covered by the ledger in the end, whatever
\* stale copies said "already fired" on the way.
BreachAlerted ==
  \A b \in Bands : <>[](level = b) => <>[](row.triggered /\ row.band >= b)

\* A monitoring row whose value stays below every band is re-armed in the end, so
\* that the next breach fires again.
QuietRearms == <>[](level = 0) => <>[](~row.triggered)

-------------------------------------------------------------------------------
(* The inductive invariant behind AlertedOnce, CopyIsPast and the refinement. *)

\* What a pod's position says about the values it holds.
TaskOK(p) ==
  /\ pc[p] = "idle" => task[p] = NoTask
  /\ pc[p] = "claim" => task[p].band \in Bands
  /\ pc[p] = "reset" => Resets
  /\ pc[p] \notin {"apply", "set", "undo", "deliver"} => task[p].event = {}

\* A row in state s has been where alert a says.
Raised(a, s) == a.inc < s.inc \/ (a.inc = s.inc /\ a.band <= s.band)

AlertsRaised ==
  /\ \A a \in failed \union lost : Raised(a, row)
  /\ \A i \in DOMAIN sent : Raised(sent[i], row)
  /\ \A p \in Pods : \A a \in task[p].event : Raised(a, row)

\* An alert is in one pair of hands, and out of them once it is sent.
AlertsApart ==
  /\ \A p, q \in Pods : p # q => task[p].event \intersect task[q].event = {}
  /\ \A p \in Pods : \A i \in DOMAIN sent : sent[i] \notin task[p].event

\* What every step keeps: copies and alerts stem from states the row has been in,
\* so the alert of a claim that wins now is a new one, and only its winner holds it.
LedgerInv ==
  /\ TypeOK
  /\ \A p \in Pods : TaskOK(p)
  /\ CopyIsPast
  /\ AlertsRaised
  /\ AlertsApart
  /\ AlertedOnce
===============================================================================
