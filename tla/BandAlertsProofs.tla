--------------------------- MODULE BandAlertsProofs ---------------------------
(***************************************************************************)
(* Proofs about BandAlerts: its types, that no band of an incident is      *)
(* announced twice, that no copy of the row runs ahead of it, and that it  *)
(* implements AlertIncident, for any pods, bands, cooldown and bounds.     *)
(***************************************************************************)
EXTENDS BandAlerts, TLAPS

-------------------------------------------------------------------------------
(* States of the row.                                                        *)

\* Time leaves everything but the age of a state alone.
LEMMA OlderFacts ==
  ASSUME NEW s \in States
  PROVE  /\ Older(s) \in States
         /\ Older(s).triggered = s.triggered
         /\ Older(s).band = s.band
         /\ Older(s).inc = s.inc
BY CooldownAssumption DEF Older, States

\* The same for what a cache or a pod holds.
LEMMA OlderCopiesFacts ==
  ASSUME NEW S, S \subseteq States
  PROVE  /\ OlderCopies(S) \subseteq States
         /\ AtMostOne(S) => AtMostOne(OlderCopies(S))
  <1>1. OlderCopies(S) \subseteq States
    BY OlderFacts DEF OlderCopies
  <1>2. AtMostOne(S) => AtMostOne(OlderCopies(S))
    BY DEF OlderCopies, AtMostOne
  <1> QED BY <1>1, <1>2

\* The initial row is a state, and so is what a claim leaves.
LEMMA NoRowState == NoRow \in States
BY BandsAssumption, CooldownAssumption DEF NoRow, States

\* A claimed row is a state, and its alert an alert.
LEMMA ClaimedState ==
  ASSUME row \in States, NEW b \in Bands
  PROVE  Claimed(b) \in States /\ AlertOf(Claimed(b)) \in Alerts
BY BandsAssumption, CooldownAssumption DEF Claimed, States, Bands, AlertOf, Alerts

\* Precedes orders the states the row goes through.
LEMMA PrecedesReflexive == ASSUME NEW s \in States PROVE Precedes(s, s)
BY DEF Precedes, States

\* What precedes a predecessor precedes.
LEMMA PrecedesTransitive ==
  ASSUME NEW s \in States, NEW t \in States, NEW u \in States,
         Precedes(s, t), Precedes(t, u)
  PROVE  Precedes(s, u)
BY BandsAssumption DEF Precedes, States

-------------------------------------------------------------------------------
(* Types.                                                                    *)

\* The parts of TypeOK, with TaskOK: where the pods stand, and everything else.
TaskTypes ==
  /\ pc \in [Pods -> PCs]
  /\ task \in [Pods -> Tasks]
  /\ \A p \in Pods : AtMostOne(task[p].copy) /\ AtMostOne(task[p].event)
  /\ \A p \in Pods : TaskOK(p)

StoreTypes ==
  /\ row \in States
  /\ redis \subseteq States /\ AtMostOne(redis)
  /\ l1 \in [Pods -> SUBSET States]
  /\ \A p \in Pods : AtMostOne(l1[p])

OtherTypes ==
  /\ level \in 0..NBands /\ moves \in 0..MaxMoves /\ faults \in 0..MaxFaults
  /\ sent \in Seq(Alerts) /\ failed \subseteq Alerts /\ lost \subseteq Alerts

TypeInv == TypeOK /\ \A p \in Pods : TaskOK(p)

\* The types, store by store.
LEMMA TypeParts == TypeInv <=> TaskTypes /\ StoreTypes /\ OtherTypes
BY DEF TypeInv, TypeOK, TaskTypes, StoreTypes, OtherTypes

\* The same equivalence after a step.
LEMMA TypePartsNext == TypeInv' <=> TaskTypes' /\ StoreTypes' /\ OtherTypes'
BY TypeParts, PTL

\* No task is a task without copy and event.
LEMMA NoTaskFacts == NoTask \in Tasks /\ NoTask.copy = {} /\ NoTask.event = {}
BY BandsAssumption DEF NoTask, Tasks

\* A step of pod p changes its own position and task only.
LEMMA GotoFacts ==
  ASSUME TaskTypes, NEW p \in Pods, NEW label, NEW t, Goto(p, label, t)
  PROVE  /\ pc'[p] = label /\ task'[p] = (IF label = "idle" THEN NoTask ELSE t)
         /\ \A q \in Pods \ {p} : pc'[q] = pc[q] /\ task'[q] = task[q]
BY DEF Goto, TaskTypes

\* Going to a label with a well-formed task keeps the types.
LEMMA GotoTypes ==
  ASSUME TaskTypes, NEW p \in Pods, NEW label \in PCs, NEW t \in Tasks, Goto(p, label, t),
         AtMostOne(t.copy), AtMostOne(t.event),
         label = "claim" => t.band \in Bands,
         label = "reset" => Resets,
         label \notin {"apply", "set", "undo", "deliver"} => t.event = {}
  PROVE  TaskTypes'
  <1> DEFINE u == IF label = "idle" THEN NoTask ELSE t
  <1>1. u \in Tasks /\ AtMostOne(u.copy) /\ AtMostOne(u.event)
    BY NoTaskFacts DEF AtMostOne
  <1>2. /\ pc'[p] = label /\ task'[p] = u
        /\ \A q \in Pods \ {p} : pc'[q] = pc[q] /\ task'[q] = task[q]
    BY GotoFacts
  <1>3. pc' \in [Pods -> PCs] /\ task' \in [Pods -> Tasks]
    BY <1>1 DEF Goto, TaskTypes
  <1>4. \A q \in Pods : AtMostOne(task'[q].copy) /\ AtMostOne(task'[q].event)
    BY <1>1, <1>2 DEF TaskTypes
  <1>5. TaskOK(p)'
    BY <1>2, NoTaskFacts DEF TaskOK
  <1>6. ASSUME NEW q \in Pods, q # p PROVE TaskOK(q)'
    BY <1>2, <1>6 DEF TaskOK, TaskTypes
  <1> QED BY <1>3, <1>4, <1>5, <1>6 DEF TaskTypes

\* The evaluation is over.
LEMMA IdleTypes ==
  ASSUME TaskTypes, NEW p \in Pods, Goto(p, "idle", NoTask)
  PROVE  TaskTypes'
  <1>1. AtMostOne(NoTask.copy) /\ AtMostOne(NoTask.event) /\ "idle" \in PCs
    BY NoTaskFacts DEF AtMostOne, PCs
  <1> QED BY <1>1, NoTaskFacts, GotoTypes

\* The pod goes on with the task it has.
LEMMA KeepTypes ==
  ASSUME TaskTypes, NEW p \in Pods, NEW label \in PCs, Goto(p, label, task[p]),
         label \notin {"claim", "reset"},
         label \in {"apply", "set", "undo", "deliver"} \/ task[p].event = {}
  PROVE  TaskTypes'
  <1>1. task[p] \in Tasks /\ AtMostOne(task[p].copy) /\ AtMostOne(task[p].event)
    BY DEF TaskTypes
  <1> QED BY <1>1, GotoTypes

\* The pod goes on with another copy or event.
LEMMA HoldTypes ==
  ASSUME TaskTypes, NEW p \in Pods, NEW label \in {"install", "apply"},
         NEW S, S \subseteq States, AtMostOne(S),
         NEW E, E \subseteq Alerts, AtMostOne(E), label = "install" => E = {},
         Goto(p, label, Holding(p, S, E))
  PROVE  TaskTypes' /\ task'[p].copy = S /\ task'[p].event = E
  <1> DEFINE t == Holding(p, S, E)
  <1>1. t \in Tasks /\ t.copy = S /\ t.event = E
    BY DEF Holding, Tasks, TaskTypes
  <1>2. label \in PCs
    BY DEF PCs
  <1>3. task'[p] = t
    BY GotoFacts
  <1> HIDE DEF t
  <1>4. Goto(p, label, t)
    BY DEF t
  <1> QED BY <1>1, <1>2, <1>3, <1>4, GotoTypes

\* The decision is a label, and its claim has a band.
LEMMA ProceedTypes ==
  ASSUME TaskTypes, NEW p \in Pods, NEW s, NEW b \in 0..NBands, Proceed(p, s, b)
  PROVE  TaskTypes' /\ task'[p].copy = {} /\ task'[p].event = {}
  <1> DEFINE t == Observed(b)
             label == Decide(s, b)
  <1>1. label \in {"idle", "claim", "reset"}
    BY DEF Decide
  <1>2. label = "claim" => b \in Bands
    BY BandsAssumption DEF Decide, Bands
  <1>3. label = "reset" => Resets
    BY DEF Decide
  <1>4. t \in Tasks /\ t.band = b /\ t.copy = {} /\ t.event = {}
    BY BandsAssumption DEF Observed, Tasks
  <1>5. Goto(p, label, t)
    BY DEF Proceed
  <1>6. AtMostOne(t.copy) /\ AtMostOne(t.event)
    BY <1>4 DEF AtMostOne
  <1>7. label \in PCs
    BY <1>1 DEF PCs
  <1> HIDE DEF t, label
  <1>8. task'[p].copy = {} /\ task'[p].event = {}
    BY <1>4, <1>5, GotoFacts, NoTaskFacts
  <1> QED BY <1>1, <1>2, <1>3, <1>4, <1>5, <1>6, <1>7, <1>8, GotoTypes

\* What the faults, the caches and the records may become.
LEMMA FaultTypes ==
  ASSUME OtherTypes, Fault \/ NoFault, UNCHANGED <<world, outcomes>>
  PROVE  OtherTypes'
BY BoundsAssumption DEF OtherTypes, Fault, NoFault, world, outcomes

\* The L1 entry of one pod changes.
LEMMA L1Types ==
  ASSUME StoreTypes, NEW p \in Pods, NEW S, S \subseteq States, AtMostOne(S),
         l1' = [l1 EXCEPT ![p] = S], UNCHANGED <<row, redis>>
  PROVE  StoreTypes'
  <1>1. l1' \in [Pods -> SUBSET States]
    BY DEF StoreTypes
  <1>2. \A q \in Pods : AtMostOne(l1'[q])
    BY DEF StoreTypes
  <1> QED BY <1>1, <1>2 DEF StoreTypes

\* The row, or the Redis key, changes.
LEMMA RowTypes ==
  ASSUME StoreTypes, row' \in States, UNCHANGED caches
  PROVE  StoreTypes'
BY DEF StoreTypes, caches

\* A step that only changes the Redis copy.
LEMMA RedisTypes ==
  ASSUME StoreTypes, redis' \subseteq States, AtMostOne(redis'), UNCHANGED <<row, l1>>
  PROVE  StoreTypes'
BY DEF StoreTypes

\* The re-armed row is a state.
LEMMA RearmedState == ASSUME row \in States PROVE Rearmed \in States
BY DEF Rearmed, States

-------------------------------------------------------------------------------
(* Every step of a pod keeps the types.                                      *)

\* What a pod holds, as the steps below use it.
LEMMA PodFacts ==
  ASSUME TypeInv, NEW p \in Pods
  PROVE  /\ task[p].copy \subseteq States /\ AtMostOne(task[p].copy)
         /\ task[p].event \subseteq Alerts /\ AtMostOne(task[p].event)
         /\ task[p].band \in 0..NBands
         /\ l1[p] \subseteq States /\ AtMostOne(l1[p])
         /\ TaskOK(p)
BY DEF TypeInv, TypeOK, Tasks

\* The steps of the read.
LEMMA ReadTypes ==
  ASSUME TypeInv, NEW p \in Pods, Read(p)
  PROVE  TypeInv'
  <1> USE TypeParts, TypePartsNext
  <1>0. TaskTypes /\ StoreTypes /\ OtherTypes
    OBVIOUS
  <1>1. CASE Evaluate(p)
    <2>1. StoreTypes' /\ OtherTypes'
      BY <1>0, <1>1, FaultTypes DEF Evaluate, StoreTypes, caches, NoFault
    <2>2. CASE \E s \in l1[p] : Proceed(p, s, level)
      BY <1>0, <2>1, <2>2, ProceedTypes DEF OtherTypes
    <2>3. CASE Goto(p, "get", Observed(level))
      <3>1. /\ Observed(level) \in Tasks
            /\ AtMostOne(Observed(level).copy) /\ AtMostOne(Observed(level).event)
            /\ Observed(level).event = {} /\ "get" \in PCs
        BY <1>0 DEF Observed, Tasks, AtMostOne, PCs, OtherTypes
      <3> QED BY <1>0, <2>1, <2>3, <3>1, GotoTypes
    <2> QED BY <1>1, <2>2, <2>3 DEF Evaluate
  <1>2. CASE GetRedis(p)
    <2>1. StoreTypes' /\ OtherTypes'
      BY <1>0, <1>2, FaultTypes DEF GetRedis, StoreTypes, caches, NoFault
    <2>2. CASE Goto(p, "install", Holding(p, redis, {}))
      <3>1. AtMostOne({})
        BY DEF AtMostOne
      <3> QED BY <1>0, <2>1, <2>2, <3>1, HoldTypes DEF StoreTypes
    <2>3. CASE Goto(p, "query", [band |-> task[p].band, copy |-> {}, fill |-> TRUE, event |-> {}])
      <3> DEFINE t == [band |-> task[p].band, copy |-> {}, fill |-> TRUE, event |-> {}]
      <3>1. /\ t \in Tasks /\ AtMostOne(t.copy) /\ AtMostOne(t.event)
            /\ t.event = {} /\ "query" \in PCs
        BY PodFacts DEF Tasks, AtMostOne, PCs
      <3> HIDE DEF t
      <3>2. Goto(p, "query", t)
        BY <2>3 DEF t
      <3> QED BY <1>0, <2>1, <3>1, <3>2, GotoTypes
    <2> QED BY <1>2, <2>2, <2>3 DEF GetRedis
  <1>3. CASE GetFails(p)
    <2>1. StoreTypes' /\ OtherTypes'
      BY <1>0, <1>3, FaultTypes DEF GetFails, StoreTypes, caches
    <2>2. task[p].event = {} /\ "query" \in PCs
      BY <1>3, PodFacts DEF GetFails, TaskOK, PCs
    <2> QED BY <1>0, <1>3, <2>1, <2>2, KeepTypes DEF GetFails
  <1>4. CASE QueryDb(p)
    <2>1. StoreTypes' /\ OtherTypes'
      BY <1>0, <1>4, FaultTypes DEF QueryDb, StoreTypes, caches, NoFault
    <2>2. {row} \subseteq States /\ AtMostOne({row}) /\ AtMostOne({})
      BY <1>0 DEF StoreTypes, AtMostOne
    <2> QED BY <1>0, <1>4, <2>1, <2>2, HoldTypes DEF QueryDb
  <1>5. CASE QueryFails(p)
    <2>1. StoreTypes' /\ OtherTypes'
      BY <1>0, <1>5, FaultTypes DEF QueryFails, StoreTypes, caches
    <2> QED BY <1>0, <1>5, <2>1, IdleTypes DEF QueryFails
  <1>6. CASE Install(p)
    <2>1. StoreTypes'
      BY <1>0, <1>6, PodFacts, L1Types DEF Install
    <2>2. OtherTypes'
      BY <1>0, <1>6, FaultTypes DEF Install, NoFault
    <2>3. CASE Goto(p, "fill", task[p])
      <3>1. task[p].event = {} /\ "fill" \in PCs
        BY <1>6, PodFacts DEF Install, TaskOK, PCs
      <3> QED BY <1>0, <2>1, <2>2, <2>3, <3>1, KeepTypes
    <2>4. CASE \E s \in task[p].copy : Proceed(p, s, task[p].band)
      BY <1>0, <2>1, <2>2, <2>4, PodFacts, ProceedTypes
    <2> QED BY <1>6, <2>3, <2>4 DEF Install
  <1>7. CASE Fill(p)
    <2>1. redis' = redis \/ redis' = task[p].copy
      BY <1>7 DEF Fill
    <2>2. StoreTypes'
      <3>1. redis' \subseteq States /\ AtMostOne(redis')
        BY <1>0, <2>1, PodFacts DEF StoreTypes
      <3> QED BY <1>0, <1>7, <3>1, RedisTypes DEF Fill
    <2>3. OtherTypes'
      BY <1>0, <1>7, FaultTypes DEF Fill
    <2>4. PICK s \in task[p].copy : Proceed(p, s, task[p].band)
      BY <1>7 DEF Fill
    <2> QED BY <1>0, <2>2, <2>3, <2>4, PodFacts, ProceedTypes
  <1> QED BY <1>1, <1>2, <1>3, <1>4, <1>5, <1>6, <1>7 DEF Read

\* The steps of the claim and the reset.
LEMMA DecidedTypes ==
  ASSUME TypeInv, NEW p \in Pods, Decided(p)
  PROVE  TypeInv'
  <1> USE TypeParts, TypePartsNext
  <1>0. TaskTypes /\ StoreTypes /\ OtherTypes
    OBVIOUS
  <1>a. {row} \subseteq States /\ AtMostOne({row}) /\ AtMostOne({})
    BY <1>0 DEF StoreTypes, AtMostOne
  <1>b. pc[p] = "claim" =>
          Claimed(task[p].band) \in States /\ AlertOf(Claimed(task[p].band)) \in Alerts
    BY <1>0, PodFacts, ClaimedState DEF TaskOK, StoreTypes
  <1>c. Rearmed \in States
    BY <1>0, RearmedState DEF StoreTypes
  <1>1. CASE GateFails(p)
    <2>1. StoreTypes' /\ OtherTypes'
      BY <1>0, <1>1, FaultTypes DEF GateFails, StoreTypes, caches
    <2> QED BY <1>0, <1>1, <2>1, IdleTypes DEF GateFails
  <1>2. CASE ClaimWon(p)
    <2>1. row' \in States /\ AlertOf(row') \in Alerts
      BY <1>2, <1>b DEF ClaimWon
    <2>2. StoreTypes'
      BY <1>0, <1>2, <2>1, RowTypes DEF ClaimWon
    <2>3. OtherTypes'
      BY <1>0, <1>2, FaultTypes DEF ClaimWon, NoFault
    <2>4. /\ {row'} \subseteq States /\ AtMostOne({row'})
          /\ {AlertOf(row')} \subseteq Alerts /\ AtMostOne({AlertOf(row')})
      BY <2>1 DEF AtMostOne
    <2> QED BY <1>0, <1>2, <2>2, <2>3, <2>4, HoldTypes DEF ClaimWon
  <1>3. CASE ClaimLost(p)
    <2>1. StoreTypes' /\ OtherTypes'
      BY <1>0, <1>3, FaultTypes DEF ClaimLost, StoreTypes, caches, NoFault
    <2>2. task[p].event = {} /\ "reread" \in PCs
      BY <1>3, PodFacts DEF ClaimLost, TaskOK, PCs
    <2> QED BY <1>0, <1>3, <2>1, <2>2, KeepTypes DEF ClaimLost
  <1>4. CASE ClaimFails(p)
    <2>1. row' \in States
      BY <1>0, <1>4, <1>b DEF ClaimFails, StoreTypes
    <2>2. StoreTypes'
      BY <1>0, <1>4, <2>1, RowTypes DEF ClaimFails
    <2>3. lost' \subseteq Alerts
      BY <1>0, <1>4, <1>b DEF ClaimFails, OtherTypes
    <2>4. OtherTypes'
      BY <1>0, <1>4, <2>3, BoundsAssumption DEF ClaimFails, OtherTypes, Fault, world
    <2> QED BY <1>0, <1>4, <2>2, <2>4, IdleTypes DEF ClaimFails
  <1>5. CASE ResetWon(p)
    <2>1. row' \in States /\ {row'} \subseteq States /\ AtMostOne({row'})
      BY <1>5, <1>c DEF ResetWon, AtMostOne
    <2>2. StoreTypes'
      BY <1>0, <1>5, <2>1, RowTypes DEF ResetWon
    <2>3. OtherTypes'
      BY <1>0, <1>5, FaultTypes DEF ResetWon, NoFault
    <2> QED BY <1>0, <1>5, <1>a, <2>1, <2>2, <2>3, HoldTypes DEF ResetWon
  <1>6. CASE ResetLost(p)
    <2>1. StoreTypes' /\ OtherTypes'
      BY <1>0, <1>6, FaultTypes DEF ResetLost, StoreTypes, caches, NoFault
    <2>2. task[p].event = {} /\ "reread" \in PCs
      BY <1>6, PodFacts DEF ResetLost, TaskOK, PCs
    <2> QED BY <1>0, <1>6, <2>1, <2>2, KeepTypes DEF ResetLost
  <1>7. CASE ResetFails(p)
    <2>1. row' \in States
      BY <1>0, <1>7, <1>c DEF ResetFails, StoreTypes
    <2>2. StoreTypes'
      BY <1>0, <1>7, <2>1, RowTypes DEF ResetFails
    <2>3. OtherTypes'
      BY <1>0, <1>7, FaultTypes DEF ResetFails
    <2> QED BY <1>0, <1>7, <2>2, <2>3, IdleTypes DEF ResetFails
  <1>8. CASE Reread(p)
    <2>1. StoreTypes' /\ OtherTypes'
      BY <1>0, <1>8, FaultTypes DEF Reread, StoreTypes, caches, NoFault
    <2> QED BY <1>0, <1>8, <1>a, <2>1, HoldTypes DEF Reread
  <1>9. CASE RereadFails(p)
    <2>1. StoreTypes' /\ OtherTypes'
      BY <1>0, <1>9, FaultTypes DEF RereadFails, StoreTypes, caches
    <2> QED BY <1>0, <1>9, <2>1, IdleTypes DEF RereadFails
  <1> QED BY <1>1, <1>2, <1>3, <1>4, <1>5, <1>6, <1>7, <1>8, <1>9 DEF Decided

\* After the write through a pod goes on to its delivery, or is done.
LEMMA AfterWriteTypes ==
  ASSUME TypeInv, NEW p \in Pods, AfterWrite(p)
  PROVE  TaskTypes'
  <1>1. TaskTypes
    BY TypeParts
  <1>2. "idle" \in PCs /\ "deliver" \in PCs
    BY DEF PCs
  <1>3. CASE task[p].event = {}
    BY <1>1, <1>2, <1>3, KeepTypes DEF AfterWrite
  <1>4. CASE task[p].event # {}
    BY <1>1, <1>2, <1>4, KeepTypes DEF AfterWrite
  <1> QED BY <1>3, <1>4

\* The steps of the write through and the delivery.
LEMMA WriteTypes ==
  ASSUME TypeInv, NEW p \in Pods, Write(p)
  PROVE  TypeInv'
  <1> USE TypeParts, TypePartsNext
  <1>0. TaskTypes /\ StoreTypes /\ OtherTypes
    OBVIOUS
  <1>1. CASE Apply(p)
    <2>1. StoreTypes'
      BY <1>0, <1>1, PodFacts, L1Types DEF Apply
    <2>2. OtherTypes'
      BY <1>0, <1>1, FaultTypes DEF Apply, NoFault
    <2>3. "set" \in PCs
      BY DEF PCs
    <2> QED BY <1>0, <1>1, <2>1, <2>2, <2>3, KeepTypes DEF Apply
  <1>2. CASE SetRedis(p)
    <2>1. StoreTypes'
      BY <1>0, <1>2, PodFacts, RedisTypes DEF SetRedis
    <2>2. OtherTypes'
      BY <1>0, <1>2, FaultTypes DEF SetRedis, NoFault
    <2> QED BY <1>2, <2>1, <2>2, AfterWriteTypes DEF SetRedis
  <1>3. CASE SetFails(p)
    <2>1. redis' \subseteq States /\ AtMostOne(redis')
      BY <1>0, <1>3, PodFacts DEF SetFails, StoreTypes
    <2>2. StoreTypes'
      BY <1>0, <1>3, <2>1, RedisTypes DEF SetFails
    <2>3. OtherTypes'
      BY <1>0, <1>3, FaultTypes DEF SetFails
    <2>4. "undo" \in PCs
      BY DEF PCs
    <2> QED BY <1>0, <1>3, <2>2, <2>3, <2>4, KeepTypes DEF SetFails
  <1>4. CASE Undo(p)
    <2>1. redis' \subseteq States /\ AtMostOne(redis')
      BY <1>0, <1>4 DEF Undo, StoreTypes, AtMostOne
    <2>2. StoreTypes'
      BY <1>0, <1>4, <2>1, RedisTypes DEF Undo
    <2>3. OtherTypes'
      BY <1>0, <1>4, FaultTypes DEF Undo
    <2> QED BY <1>4, <2>2, <2>3, AfterWriteTypes DEF Undo
  <1>5. CASE Deliver(p)
    <2>1. sent' \in Seq(Alerts)
      BY <1>0, <1>5, PodFacts DEF Deliver, OtherTypes
    <2>2. StoreTypes' /\ OtherTypes'
      BY <1>0, <1>5, <2>1 DEF Deliver, StoreTypes, OtherTypes, caches, world, NoFault
    <2> QED BY <1>0, <1>5, <2>2, IdleTypes DEF Deliver
  <1>6. CASE DeliverFails(p)
    <2>1. StoreTypes'
      BY <1>0, <1>6 DEF DeliverFails, StoreTypes, caches
    <2>2. OtherTypes'
      BY <1>0, <1>6, PodFacts, BoundsAssumption DEF DeliverFails, OtherTypes, world, Fault
    <2> QED BY <1>0, <1>6, <2>1, <2>2, IdleTypes DEF DeliverFails
  <1> QED BY <1>1, <1>2, <1>3, <1>4, <1>5, <1>6 DEF Write

\* A crash, an expiry, the clock and the world.
LEMMA WorldTypes ==
  ASSUME TypeInv,
         \/ \E p \in Pods : Crash(p) \/ DropL1(p)
         \/ ExpireRedis \/ Tick \/ \E b \in 0..NBands : Observe(b)
  PROVE  TypeInv'
  <1> USE TypeParts, TypePartsNext
  <1>0. TaskTypes /\ StoreTypes /\ OtherTypes
    OBVIOUS
  <1>a. AtMostOne({})
    BY DEF AtMostOne
  <1>1. ASSUME NEW p \in Pods, Crash(p) PROVE TypeInv'
    <2>1. StoreTypes'
      BY <1>0, <1>1, <1>a, L1Types DEF Crash
    <2>2. OtherTypes'
      BY <1>0, <1>1, PodFacts, BoundsAssumption DEF Crash, OtherTypes, world, Fault
    <2> QED BY <1>0, <1>1, <2>1, <2>2, IdleTypes DEF Crash
  <1>2. ASSUME NEW p \in Pods, DropL1(p) PROVE TypeInv'
    <2>1. StoreTypes'
      BY <1>0, <1>2, <1>a, L1Types DEF DropL1
    <2>2. OtherTypes' /\ TaskTypes'
      BY <1>0, <1>2, FaultTypes DEF DropL1, NoFault, TaskTypes, TaskOK
    <2> QED BY <2>1, <2>2
  <1>3. CASE ExpireRedis
    <2>1. StoreTypes'
      BY <1>0, <1>3, <1>a, RedisTypes DEF ExpireRedis
    <2>2. OtherTypes' /\ TaskTypes'
      BY <1>0, <1>3, FaultTypes DEF ExpireRedis, NoFault, TaskTypes, TaskOK
    <2> QED BY <2>1, <2>2
  <1>4. CASE Tick
    <2>1. row' \in States
      BY <1>0, <1>4, OlderFacts DEF Tick, StoreTypes
    <2>2. redis' \subseteq States /\ AtMostOne(redis')
      BY <1>0, <1>4, OlderCopiesFacts DEF Tick, StoreTypes
    <2>3. ASSUME NEW p \in Pods PROVE l1'[p] \subseteq States /\ AtMostOne(l1'[p])
      BY <1>4, PodFacts, OlderCopiesFacts DEF Tick
    <2>4. l1' = [p \in Pods |-> OlderCopies(l1[p])]
      BY <1>4 DEF Tick
    <2>5. l1' \in [Pods -> SUBSET States]
      BY <2>3, <2>4
    <2>6. StoreTypes'
      BY <2>1, <2>2, <2>3, <2>5 DEF StoreTypes
    <2>7. OtherTypes'
      BY <1>0, <1>4, FaultTypes DEF Tick, NoFault
    <2>8. ASSUME NEW p \in Pods
          PROVE  /\ task'[p] \in Tasks
                 /\ AtMostOne(task'[p].copy) /\ AtMostOne(task'[p].event)
                 /\ TaskOK(p)'
      <3>1. task'[p] = Holding(p, OlderCopies(task[p].copy), task[p].event)
        BY <1>4 DEF Tick
      <3>2. OlderCopies(task[p].copy) \subseteq States /\ AtMostOne(OlderCopies(task[p].copy))
        BY PodFacts, OlderCopiesFacts
      <3>3. /\ task'[p].band = task[p].band /\ task'[p].event = task[p].event
            /\ task'[p].copy = OlderCopies(task[p].copy) /\ task'[p].fill = task[p].fill
        BY <3>1 DEF Holding
      <3>4. task'[p] \in Tasks
        BY <1>0, <3>1, <3>2 DEF Holding, Tasks, TaskTypes
      <3>5. task[p] = NoTask => task'[p] = NoTask
        <4>1. OlderCopies({}) = {}
          BY DEF OlderCopies
        <4>2. task[p] = NoTask => /\ task[p].band = 0 /\ task[p].copy = {}
                                  /\ task[p].fill = FALSE /\ task[p].event = {}
          BY DEF NoTask
        <4> QED BY <3>1, <4>1, <4>2 DEF Holding, NoTask
      <3>6. pc'[p] = pc[p]
        BY <1>4 DEF Tick
      <3>7. TaskOK(p)'
        BY <3>3, <3>5, <3>6, PodFacts DEF TaskOK
      <3> QED BY <3>2, <3>3, <3>4, <3>7, PodFacts
    <2>9. task' \in [Pods -> Tasks]
      BY <1>4, <2>8 DEF Tick
    <2>10. pc' \in [Pods -> PCs]
      BY <1>0, <1>4 DEF Tick, TaskTypes
    <2>11. TaskTypes'
      BY <2>8, <2>9, <2>10 DEF TaskTypes
    <2> QED BY <2>6, <2>7, <2>11
  <1>5. ASSUME NEW b \in 0..NBands, Observe(b) PROVE TypeInv'
    <2>1. StoreTypes' /\ TaskTypes'
      BY <1>0, <1>5 DEF Observe, StoreTypes, TaskTypes, TaskOK, caches
    <2>2. OtherTypes'
      BY <1>0, <1>5, BoundsAssumption DEF Observe, OtherTypes, outcomes, NoFault
    <2> QED BY <2>1, <2>2
  <1> QED BY <1>1, <1>2, <1>3, <1>4, <1>5

\* Every step, and a step that changes nothing.
LEMMA TypeStep ==
  ASSUME TypeInv, [Next]_vars
  PROVE  TypeInv'
  <1>1. CASE \E p \in Pods : Run(p)
    BY <1>1, ReadTypes, DecidedTypes, WriteTypes DEF Run
  <1>2. CASE UNCHANGED vars
    BY <1>2 DEF TypeInv, TypeOK, TaskOK, vars, caches, world, outcomes
  <1> QED BY <1>1, <1>2, WorldTypes DEF Next

\* The types hold at first.
LEMMA TypeInit == Init => TypeInv
  <1> SUFFICES ASSUME Init PROVE TypeInv
    OBVIOUS
  <1>1. StoreTypes
    BY NoRowState DEF Init, StoreTypes, AtMostOne
  <1>2. OtherTypes
    BY BoundsAssumption DEF Init, OtherTypes
  <1>3. TaskTypes
    BY NoTaskFacts DEF Init, TaskTypes, TaskOK, AtMostOne, PCs
  <1> QED BY <1>1, <1>2, <1>3, TypeParts

\* Type correctness, for any number of pods, bands, moves and faults.
THEOREM BandTypes == Spec => []TypeOK
  <1>1. TypeInv /\ [Next]_vars => TypeInv'
    BY TypeStep
  <1>2. TypeInv => TypeOK
    BY DEF TypeInv
  <1> QED BY <1>1, <1>2, TypeInit, PTL DEF Spec

-------------------------------------------------------------------------------
(* No copy runs ahead of the row.                                            *)

\* The row only moves forward: up a band, closed, or on to the next incident.
LEMMA RowMoves ==
  ASSUME TypeInv, [Next]_vars
  PROVE  Precedes(row, row')
  <1>0. row \in States
    BY DEF TypeInv, TypeOK
  <1>1. CASE row' = row
    BY <1>0, <1>1, PrecedesReflexive
  <1>2. ASSUME NEW b \in Bands, Claimable(b), row' = Claimed(b) PROVE Precedes(row, row')
    BY <1>0, <1>2, BandsAssumption DEF Claimable, Claimed, Precedes, States, Bands
  <1>3. CASE Resettable /\ row' = Rearmed
    BY <1>0, <1>3, BandsAssumption DEF Resettable, Rearmed, Precedes, States
  <1>4. CASE row' = Older(row)
    <2>1. /\ row'.triggered = row.triggered /\ row'.band = row.band /\ row'.inc = row.inc
      BY <1>0, <1>4, OlderFacts
    <2> QED BY <1>0, <2>1, BandsAssumption DEF Precedes, States
  <1>5. ASSUME NEW p \in Pods, Read(p) PROVE row' = row
    BY <1>5 DEF Read, Evaluate, GetRedis, GetFails, QueryDb, QueryFails, Install, Fill
  <1>6. ASSUME NEW p \in Pods, Decided(p)
        PROVE  \/ row' = row
               \/ Resettable /\ row' = Rearmed
               \/ \E b \in Bands : Claimable(b) /\ row' = Claimed(b)
    <2>1. pc[p] = "claim" => task[p].band \in Bands
      BY PodFacts DEF TaskOK
    <2>2. CASE ClaimWon(p) \/ ClaimFails(p)
      BY <2>1, <2>2 DEF ClaimWon, ClaimFails
    <2>3. CASE ResetWon(p) \/ ResetFails(p)
      BY <2>3 DEF ResetWon, ResetFails
    <2>4. CASE GateFails(p) \/ ClaimLost(p) \/ ResetLost(p) \/ Reread(p) \/ RereadFails(p)
      BY <2>4 DEF GateFails, ClaimLost, ResetLost, Reread, RereadFails
    <2> QED BY <1>6, <2>2, <2>3, <2>4 DEF Decided
  <1>7. ASSUME NEW p \in Pods, Write(p) PROVE row' = row
    BY <1>7 DEF Write, Apply, SetRedis, SetFails, Undo, Deliver, DeliverFails
  <1>8. ASSUME NEW p \in Pods, Crash(p) \/ DropL1(p) PROVE row' = row
    BY <1>8 DEF Crash, DropL1
  <1>9. ExpireRedis \/ (\E b \in 0..NBands : Observe(b)) => row' = row
    BY DEF ExpireRedis, Observe
  <1>10. Tick => row' = Older(row)
    BY DEF Tick
  <1>11. UNCHANGED vars => row' = row
    BY DEF vars
  <1> QED
    BY <1>1, <1>2, <1>3, <1>4, <1>5, <1>6, <1>7, <1>8, <1>9, <1>10, <1>11 DEF Next, Run

\* All copies of the row that exist.
Copies == redis \union UNION {l1[p] \union task[p].copy : p \in Pods}

\* In a step that is not the clock, a copy is one there was before or the new row.
LEMMA CopiesCome ==
  ASSUME TypeInv, [Next]_vars, ~Tick
  PROVE  Copies' \subseteq Copies \union {row'}
  <1>0. TaskTypes /\ StoreTypes
    BY TypeParts
  <1> DEFINE Own(p) == redis \union l1[p] \union task[p].copy
  \* It is enough to look at the pod that moves.
  <1>1. ASSUME NEW p \in Pods,
               redis' \subseteq Own(p) \union {row'},
               l1'[p] \subseteq Own(p) \union {row'},
               task'[p].copy \subseteq Own(p) \union {row'},
               \A q \in Pods \ {p} : l1'[q] = l1[q] /\ task'[q] = task[q]
        PROVE  Copies' \subseteq Copies \union {row'}
    <2>1. Own(p) \subseteq Copies
      BY DEF Copies
    <2>2. ASSUME NEW q \in Pods PROVE (l1[q] \union task[q].copy)' \subseteq Copies \union {row'}
      <3>1. CASE q = p
        BY <1>1, <2>1, <3>1
      <3>2. CASE q # p
        BY <1>1, <3>2 DEF Copies
      <3> QED BY <3>1, <3>2
    <2> QED BY <1>1, <2>1, <2>2 DEF Copies
  <1>2. ASSUME NEW p \in Pods, NEW label, NEW t, Goto(p, label, t)
        PROVE  /\ task'[p].copy = {} \/ task'[p] = t
               /\ \A q \in Pods \ {p} : task'[q] = task[q]
    BY <1>0, <1>2, GotoFacts, NoTaskFacts
  <1>3. ASSUME NEW p \in Pods, NEW s, NEW b \in 0..NBands, Proceed(p, s, b)
        PROVE  task'[p].copy = {} /\ \A q \in Pods \ {p} : task'[q] = task[q]
    BY <1>0, <1>3, <1>2, ProceedTypes DEF Proceed
  <1>4. ASSUME NEW p \in Pods, Read(p) PROVE Copies' \subseteq Copies \union {row'}
    <2>0. task[p].band \in 0..NBands /\ level \in 0..NBands
      BY PodFacts DEF TypeInv, TypeOK
    <2>1. CASE Evaluate(p)
      <3>1. task'[p].copy = {} /\ \A q \in Pods \ {p} : task'[q] = task[q]
        BY <2>0, <2>1, <1>2, <1>3 DEF Evaluate, Observed
      <3> QED BY <1>1, <2>1, <3>1 DEF Evaluate, caches
    <2>2. CASE GetRedis(p)
      <3>1. task'[p].copy \subseteq redis /\ \A q \in Pods \ {p} : task'[q] = task[q]
        BY <2>2, <1>2 DEF GetRedis, Holding
      <3> QED BY <1>1, <2>2, <3>1 DEF GetRedis, caches
    <2>3. CASE GetFails(p) \/ QueryFails(p)
      <3>1. /\ task'[p].copy \subseteq task[p].copy
            /\ \A q \in Pods \ {p} : task'[q] = task[q]
        BY <2>3, <1>2, NoTaskFacts DEF GetFails, QueryFails
      <3> QED BY <1>1, <2>3, <3>1 DEF GetFails, QueryFails, caches
    <2>4. CASE QueryDb(p)
      <3>1. task'[p].copy \subseteq {row'} /\ \A q \in Pods \ {p} : task'[q] = task[q]
        BY <2>4, <1>2 DEF QueryDb, Holding
      <3> QED BY <1>1, <2>4, <3>1 DEF QueryDb, caches
    <2>5. CASE Install(p)
      <3>1. /\ task'[p].copy \subseteq task[p].copy
            /\ \A q \in Pods \ {p} : task'[q] = task[q]
        BY <2>0, <2>5, <1>2, <1>3 DEF Install
      <3>2. l1'[p] = task[p].copy /\ redis' = redis /\ \A q \in Pods \ {p} : l1'[q] = l1[q]
        BY <1>0, <2>5 DEF Install, StoreTypes
      <3> QED BY <1>1, <3>1, <3>2
    <2>6. CASE Fill(p)
      <3>1. task'[p].copy = {} /\ \A q \in Pods \ {p} : task'[q] = task[q]
        BY <2>0, <2>6, <1>3 DEF Fill
      <3>2. redis' \subseteq redis \union task[p].copy /\ l1' = l1
        BY <2>6 DEF Fill
      <3> QED BY <1>1, <3>1, <3>2
    <2> QED BY <1>4, <2>1, <2>2, <2>3, <2>4, <2>5, <2>6 DEF Read
  <1>5. ASSUME NEW p \in Pods, Decided(p) PROVE Copies' \subseteq Copies \union {row'}
    <2>1. UNCHANGED caches
      BY <1>5 DEF Decided, GateFails, ClaimWon, ClaimLost, ClaimFails,
                  ResetWon, ResetLost, ResetFails, Reread, RereadFails
    <2>2. /\ task'[p].copy \subseteq task[p].copy \union {row'}
          /\ \A q \in Pods \ {p} : task'[q] = task[q]
      <3>1. CASE GateFails(p) \/ ClaimFails(p) \/ ResetFails(p) \/ RereadFails(p)
        BY <3>1, <1>2, NoTaskFacts DEF GateFails, ClaimFails, ResetFails, RereadFails
      <3>2. CASE ClaimWon(p) \/ ResetWon(p) \/ Reread(p)
        BY <3>2, <1>2 DEF ClaimWon, ResetWon, Reread, Holding
      <3>3. CASE ClaimLost(p) \/ ResetLost(p)
        BY <3>3, <1>2 DEF ClaimLost, ResetLost
      <3> QED BY <1>5, <3>1, <3>2, <3>3 DEF Decided
    <2> QED BY <1>1, <2>1, <2>2 DEF caches
  <1>6. ASSUME NEW p \in Pods, Write(p) PROVE Copies' \subseteq Copies \union {row'}
    <2>1. redis' \subseteq redis \union task[p].copy
      BY <1>6 DEF Write, Apply, SetRedis, SetFails, Undo, Deliver, DeliverFails, caches
    <2>2. l1'[p] \subseteq l1[p] \union task[p].copy /\ \A q \in Pods \ {p} : l1'[q] = l1[q]
      <3>1. CASE Apply(p)
        BY <1>0, <3>1 DEF Apply, StoreTypes
      <3>2. CASE l1' = l1
        BY <3>2
      <3> QED
        BY <1>6, <3>1, <3>2 DEF Write, SetRedis, SetFails, Undo, Deliver, DeliverFails, caches
    <2>3. /\ task'[p].copy \subseteq task[p].copy
          /\ \A q \in Pods \ {p} : task'[q] = task[q]
      <3>1. \E label : Goto(p, label, task[p]) \/ Goto(p, label, NoTask)
        BY <1>6 DEF Write, Apply, SetRedis, SetFails, Undo, Deliver, DeliverFails, AfterWrite
      <3> QED BY <3>1, <1>2, NoTaskFacts
    <2> QED BY <1>1, <2>1, <2>2, <2>3
  <1>7. ASSUME NEW p \in Pods, Crash(p) PROVE Copies' \subseteq Copies \union {row'}
    <2>1. task'[p].copy = {} /\ \A q \in Pods \ {p} : task'[q] = task[q]
      BY <1>7, <1>2, NoTaskFacts DEF Crash
    <2>2. redis' = redis /\ l1'[p] = {} /\ \A q \in Pods \ {p} : l1'[q] = l1[q]
      BY <1>0, <1>7 DEF Crash, StoreTypes
    <2> QED BY <1>1, <2>1, <2>2
  <1>8. ASSUME NEW p \in Pods, DropL1(p) PROVE Copies' \subseteq Copies \union {row'}
    <2>1. redis' = redis /\ l1'[p] = {} /\ \A q \in Pods \ {p} : l1'[q] = l1[q]
      BY <1>0, <1>8 DEF DropL1, StoreTypes
    <2> QED BY <1>1, <1>8, <2>1 DEF DropL1
  <1>9. CASE ExpireRedis \/ (\E b \in 0..NBands : Observe(b)) \/ UNCHANGED vars
    BY <1>9 DEF ExpireRedis, Observe, vars, caches, Copies
  <1> QED BY <1>4, <1>5, <1>6, <1>7, <1>8, <1>9 DEF Next, Run

\* CopyIsPast is about all copies.
LEMMA CopiesPast == CopyIsPast <=> \A s \in Copies : Precedes(s, row)
BY DEF CopyIsPast, Copies

\* No copy is ahead of the row, after a step.
LEMMA CopiesPastNext == CopyIsPast' <=> \A s \in Copies' : Precedes(s, row')
BY DEF CopyIsPast, Copies

\* Every copy is a state of the row.
LEMMA CopiesStates == ASSUME TypeInv PROVE Copies \subseteq States
BY PodFacts DEF TypeInv, TypeOK, Copies

\* Age is the one thing Precedes does not look at.
LEMMA OlderPrecedes ==
  ASSUME NEW s \in States, NEW t \in States, Precedes(s, t)
  PROVE  Precedes(Older(s), Older(t))
BY OlderFacts DEF Precedes

\* No step puts a copy ahead of the row.
LEMMA CopyStep ==
  ASSUME TypeInv, CopyIsPast, [Next]_vars
  PROVE  CopyIsPast'
  <1>0. row \in States /\ row' \in States /\ Copies \subseteq States
    BY TypeStep, CopiesStates DEF TypeInv, TypeOK
  <1>1. CASE ~Tick
    <2>1. SUFFICES ASSUME NEW s \in Copies' PROVE Precedes(s, row')
      BY CopiesPastNext
    <2>2. s \in Copies \/ s = row'
      BY <1>1, CopiesCome
    <2>3. CASE s \in Copies
      <3>1. s \in States /\ Precedes(s, row) /\ Precedes(row, row')
        BY <1>0, <2>3, CopiesPast, RowMoves
      <3> QED BY <1>0, <3>1, PrecedesTransitive
    <2>4. CASE s = row'
      BY <1>0, <2>4, PrecedesReflexive
    <2> QED BY <2>2, <2>3, <2>4
  <1>2. CASE Tick
    <2>1. SUFFICES ASSUME NEW s \in Copies' PROVE Precedes(s, row')
      BY CopiesPastNext
    <2>2. \E t \in Copies : s = Older(t)
      <3>1. CASE s \in redis'
        BY <1>2, <3>1 DEF Tick, OlderCopies, Copies
      <3>2. ASSUME NEW p \in Pods, s \in l1'[p] \union task'[p].copy
            PROVE  \E t \in Copies : s = Older(t)
        <4>1. l1'[p] = OlderCopies(l1[p]) /\ task'[p].copy = OlderCopies(task[p].copy)
          BY <1>2 DEF Tick, Holding
        <4>2. l1[p] \subseteq Copies /\ task[p].copy \subseteq Copies
          BY DEF Copies
        <4> QED BY <3>2, <4>1, <4>2 DEF OlderCopies
      <3>3. s \in redis' \/ \E p \in Pods : s \in l1'[p] \union task'[p].copy
        BY DEF Copies
      <3> QED BY <3>1, <3>2, <3>3
    <2>3. PICK t \in Copies : s = Older(t)
      BY <2>2
    <2>4. t \in States /\ Precedes(t, row) /\ row' = Older(row)
      BY <1>0, <1>2, CopiesPast DEF Tick
    <2> QED BY <1>0, <2>3, <2>4, OlderPrecedes
  <1> QED BY <1>1, <1>2

-------------------------------------------------------------------------------
(* What a step means for the alerts, whatever it does to the caches.         *)

OnlyEvent(p, E) ==
  /\ task'[p].event = E
  /\ \A q \in Pods \ {p} : task'[q].event = task[q].event

SameEvents == \A q \in Pods : task'[q].event = task[q].event

\* A claim is won, with or without its pod learning of it.
Wins(p, b) ==
  /\ Claimable(b) /\ row' = Claimed(b)
  /\ task[p].event = {} /\ OnlyEvent(p, {AlertOf(row')})
  /\ UNCHANGED outcomes

WinsUnheard(b) ==
  /\ Claimable(b) /\ row' = Claimed(b)
  /\ SameEvents
  /\ lost' = lost \union {AlertOf(row')} /\ UNCHANGED <<sent, failed>>

Rearms ==
  /\ Resets /\ Resettable /\ row' = Rearmed
  /\ SameEvents /\ UNCHANGED outcomes

\* Pod p is rid of the alert a it held: sent, recorded as failed, or lost.
HandsOver(p, a) ==
  /\ row' = row /\ task[p].event = {a} /\ OnlyEvent(p, {})
  /\ \/ sent' = Append(sent, a) /\ UNCHANGED <<failed, lost>>
     \/ failed' = failed \union {a} /\ UNCHANGED <<sent, lost>>
     \/ lost' = lost \union {a} /\ UNCHANGED <<sent, failed>>

\* Nothing but caches, positions and ages change.
Quiet ==
  /\ row'.triggered = row.triggered /\ row'.band = row.band /\ row'.inc = row.inc
  /\ SameEvents /\ UNCHANGED outcomes

Effect ==
  \/ \E p \in Pods, b \in Bands : Wins(p, b)
  \/ \E b \in Bands : WinsUnheard(b)
  \/ Rearms
  \/ \E p \in Pods : \E a \in Alerts : HandsOver(p, a)
  \/ Quiet

\* Every step has one of these effects.
LEMMA StepEffect ==
  ASSUME TypeInv, [Next]_vars
  PROVE  Effect
  <1>0. TaskTypes /\ StoreTypes /\ OtherTypes
    BY TypeParts
  <1>1. ASSUME NEW p \in Pods, NEW label, NEW t, Goto(p, label, t)
        PROVE  OnlyEvent(p, IF label = "idle" THEN {} ELSE t.event)
    BY <1>0, <1>1, GotoFacts, NoTaskFacts DEF OnlyEvent
  <1>2. ASSUME NEW p \in Pods, NEW s, NEW b \in 0..NBands, Proceed(p, s, b)
        PROVE  OnlyEvent(p, {})
    <2>1. task'[p].event = {}
      BY <1>0, <1>2, ProceedTypes
    <2> QED BY <2>1, <1>1, <1>2 DEF Proceed, OnlyEvent
  <1>3. ASSUME NEW p \in Pods, OnlyEvent(p, task[p].event) PROVE SameEvents
    BY <1>3 DEF OnlyEvent, SameEvents
  <1>4. ASSUME NEW p \in Pods, Read(p) PROVE Quiet
    <2>0. task[p].band \in 0..NBands /\ level \in 0..NBands
      BY <1>0, PodFacts DEF OtherTypes
    <2>1. row' = row /\ UNCHANGED outcomes
      BY <1>4 DEF Read, Evaluate, GetRedis, GetFails, QueryDb, QueryFails, Install, Fill
    <2>2. task[p].event = {}
      <3>1. pc[p] \in {"idle", "get", "query", "install", "fill"}
        BY <1>4 DEF Read, Evaluate, GetRedis, GetFails, QueryDb, QueryFails, Install, Fill
      <3> QED BY <3>1, PodFacts, NoTaskFacts DEF TaskOK
    <2>3. OnlyEvent(p, {})
      <3>1. CASE Evaluate(p)
        BY <2>0, <3>1, <1>1, <1>2 DEF Evaluate, Observed
      <3>2. CASE GetRedis(p) \/ QueryDb(p)
        BY <3>2, <1>1 DEF GetRedis, QueryDb, Holding
      <3>3. CASE GetFails(p) \/ QueryFails(p)
        BY <2>2, <3>3, <1>1 DEF GetFails, QueryFails
      <3>4. CASE Install(p)
        BY <2>0, <2>2, <3>4, <1>1, <1>2 DEF Install
      <3>5. CASE Fill(p)
        BY <2>0, <3>5, <1>2 DEF Fill
      <3> QED BY <1>4, <3>1, <3>2, <3>3, <3>4, <3>5 DEF Read
    <2> QED BY <1>3, <2>1, <2>2, <2>3 DEF Quiet
  <1>5. ASSUME NEW p \in Pods, Decided(p) PROVE Effect
    <2>1. task[p].event = {} /\ (pc[p] = "claim" => task[p].band \in Bands)
      <3>1. pc[p] \in {"claim", "reset", "reread"}
        BY <1>5 DEF Decided, GateFails, ClaimWon, ClaimLost, ClaimFails,
                    ResetWon, ResetLost, ResetFails, Reread, RereadFails
      <3> QED BY <3>1, PodFacts DEF TaskOK
    <2>2. CASE GateFails(p) \/ ClaimLost(p) \/ ResetLost(p) \/ Reread(p) \/ RereadFails(p)
      <3>1. row' = row /\ UNCHANGED outcomes
        BY <2>2 DEF GateFails, ClaimLost, ResetLost, Reread, RereadFails
      <3>2. OnlyEvent(p, {})
        BY <2>1, <2>2, <1>1 DEF GateFails, ClaimLost, ResetLost, Reread, RereadFails, Holding
      <3> QED BY <1>3, <2>1, <3>1, <3>2 DEF Quiet, Effect
    <2>3. CASE ClaimWon(p)
      <3>1. OnlyEvent(p, {AlertOf(row')})
        BY <2>3, <1>1 DEF ClaimWon, Holding
      <3>2. Wins(p, task[p].band)
        BY <2>1, <2>3, <3>1 DEF ClaimWon, Wins
      <3> QED BY <2>1, <2>3, <3>2 DEF ClaimWon, Effect
    <2>4. CASE ClaimFails(p)
      <3>1. SameEvents
        BY <2>1, <2>4, <1>1, <1>3 DEF ClaimFails
      <3>2. CASE UNCHANGED <<row, lost>>
        BY <2>4, <3>1, <3>2 DEF ClaimFails, Quiet, Effect, outcomes
      <3>3. CASE /\ Claimable(task[p].band)
                 /\ row' = Claimed(task[p].band)
                 /\ lost' = lost \union {AlertOf(row')}
        <4>1. WinsUnheard(task[p].band)
          BY <2>4, <3>1, <3>3 DEF ClaimFails, WinsUnheard
        <4> QED BY <2>1, <2>4, <4>1 DEF ClaimFails, Effect
      <3> QED BY <2>4, <3>2, <3>3 DEF ClaimFails
    <2>5. CASE ResetWon(p) \/ ResetFails(p)
      <3>1. SameEvents
        <4>1. OnlyEvent(p, {})
          BY <2>5, <1>1 DEF ResetWon, ResetFails, Holding
        <4> QED BY <2>1, <4>1, <1>3
      <3>2. Resets /\ UNCHANGED outcomes
        BY <2>5, PodFacts DEF ResetWon, ResetFails, TaskOK
      <3>3. row' = row \/ (Resettable /\ row' = Rearmed)
        BY <2>5 DEF ResetWon, ResetFails
      <3> QED BY <3>1, <3>2, <3>3 DEF Quiet, Rearms, Effect
    <2> QED BY <1>5, <2>2, <2>3, <2>4, <2>5 DEF Decided
  <1>6. ASSUME NEW p \in Pods, Write(p) PROVE Effect
    <2>1. CASE Apply(p) \/ SetRedis(p) \/ SetFails(p) \/ Undo(p)
      <3>1. row' = row /\ UNCHANGED outcomes
        BY <2>1 DEF Apply, SetRedis, SetFails, Undo
      <3>2. OnlyEvent(p, task[p].event)
        BY <2>1, <1>1 DEF Apply, SetRedis, SetFails, Undo, AfterWrite
      <3> QED BY <1>3, <3>1, <3>2 DEF Quiet, Effect
    <2>2. CASE Deliver(p)
      <3>1. PICK a \in task[p].event : sent' = Append(sent, a)
        BY <2>2 DEF Deliver
      <3>2. task[p].event = {a} /\ a \in Alerts
        BY <3>1, PodFacts DEF AtMostOne
      <3>3. OnlyEvent(p, {}) /\ row' = row /\ UNCHANGED <<failed, lost>>
        BY <2>2, <1>1 DEF Deliver
      <3> QED BY <3>1, <3>2, <3>3 DEF HandsOver, Effect
    <2>3. CASE DeliverFails(p)
      <3>1. OnlyEvent(p, {}) /\ row' = row /\ UNCHANGED <<sent, lost>>
        BY <2>3, <1>1 DEF DeliverFails
      <3>2. failed' = failed \union task[p].event
        BY <2>3 DEF DeliverFails
      <3>3. CASE task[p].event = {}
        BY <1>3, <3>1, <3>2, <3>3 DEF Quiet, Effect, outcomes
      <3>4. ASSUME NEW a \in task[p].event PROVE Effect
        <4>1. task[p].event = {a} /\ a \in Alerts
          BY <3>4, PodFacts DEF AtMostOne
        <4> QED BY <3>1, <3>2, <4>1 DEF HandsOver, Effect
      <3> QED BY <3>3, <3>4
    <2> QED BY <1>6, <2>1, <2>2, <2>3 DEF Write
  <1>7. ASSUME NEW p \in Pods, Crash(p) PROVE Effect
    <2>1. OnlyEvent(p, {}) /\ row' = row /\ UNCHANGED <<sent, failed>>
      BY <1>7, <1>1 DEF Crash
    <2>2. lost' = lost \union task[p].event
      BY <1>7 DEF Crash
    <2>3. CASE task[p].event = {}
      BY <1>3, <2>1, <2>2, <2>3 DEF Quiet, Effect, outcomes
    <2>4. ASSUME NEW a \in task[p].event PROVE Effect
      <3>1. task[p].event = {a} /\ a \in Alerts
        BY <2>4, PodFacts DEF AtMostOne
      <3> QED BY <2>1, <2>2, <3>1 DEF HandsOver, Effect
    <2> QED BY <2>3, <2>4
  <1>8. ASSUME \/ \E p \in Pods : DropL1(p)
               \/ ExpireRedis \/ (\E b \in 0..NBands : Observe(b)) \/ UNCHANGED vars
        PROVE  Quiet
    BY <1>8 DEF DropL1, ExpireRedis, Observe, vars, Quiet, SameEvents, outcomes
  <1>9. CASE Tick
    <2>1. /\ row'.triggered = row.triggered /\ row'.band = row.band /\ row'.inc = row.inc
      BY <1>0, <1>9, OlderFacts DEF Tick, StoreTypes
    <2>2. SameEvents
      BY <1>9 DEF Tick, Holding, SameEvents
    <2> QED BY <1>9, <2>1, <2>2 DEF Tick, Quiet, Effect
  <1> QED BY <1>4, <1>5, <1>6, <1>7, <1>8, <1>9 DEF Next, Run, Effect

-------------------------------------------------------------------------------
(* Alerts are raised by one claim and held in one pair of hands.             *)

\* What was raised stays raised, and the alert of a claim that wins is new.
LEMMA RaisedStays ==
  ASSUME TypeInv, [Next]_vars, NEW a \in Alerts, Raised(a, row)
  PROVE  Raised(a, row')
  <1>1. row \in States /\ row' \in States /\ Precedes(row, row')
    BY TypeStep, RowMoves DEF TypeInv, TypeOK
  <1> QED BY <1>1, BandsAssumption DEF Precedes, Raised, States, Alerts, Bands

\* A claim raises an alert that was not raised before.
LEMMA ClaimIsNew ==
  ASSUME row \in States, NEW b \in Bands, Claimable(b), row' = Claimed(b)
  PROVE  ~Raised(AlertOf(row'), row) /\ Raised(AlertOf(row'), row')
BY BandsAssumption DEF Claimable, Claimed, Raised, AlertOf, States, Bands

AlertInv == AlertsRaised /\ AlertsApart /\ AlertedOnce

\* Every step keeps each alert raised, in one pair of hands and sent once.
LEMMA AlertStep ==
  ASSUME TypeInv, AlertInv, [Next]_vars
  PROVE  AlertInv'
  <1>0. /\ row \in States /\ sent \in Seq(Alerts) /\ failed \subseteq Alerts
        /\ lost \subseteq Alerts
        /\ \A p \in Pods : task[p].event \subseteq Alerts
    BY PodFacts DEF TypeInv, TypeOK
  <1>a. \A a \in Alerts : Raised(a, row) => Raised(a, row')
    BY RaisedStays
  <1>b. \A i \in DOMAIN sent : sent[i] \in Alerts
    BY <1>0
  <1>1. ASSUME NEW p \in Pods, NEW b \in Bands, Wins(p, b) PROVE AlertInv'
    <2> DEFINE a == AlertOf(row')
    <2>1. ~Raised(a, row) /\ Raised(a, row')
      BY <1>0, <1>1, ClaimIsNew DEF Wins
    <2>2. sent' = sent /\ failed' = failed /\ lost' = lost
      BY <1>1 DEF Wins, outcomes
    <2>3. task'[p].event = {a} /\ \A q \in Pods \ {p} : task'[q].event = task[q].event
      BY <1>1 DEF Wins, OnlyEvent
    <2> HIDE DEF a
    <2>4. AlertsRaised'
      BY <1>0, <1>a, <1>b, <2>1, <2>2, <2>3 DEF AlertInv, AlertsRaised
    <2>5. a \notin failed \union lost /\ (\A i \in DOMAIN sent : sent[i] # a)
          /\ \A q \in Pods : a \notin task[q].event
      BY <2>1 DEF AlertInv, AlertsRaised
    <2>6. AlertsApart'
      <3>1. ASSUME NEW q \in Pods, NEW r \in Pods, q # r
            PROVE  task'[q].event \intersect task'[r].event = {}
        BY <2>3, <2>5, <3>1 DEF AlertInv, AlertsApart
      <3>2. ASSUME NEW q \in Pods, NEW i \in DOMAIN sent
            PROVE  sent[i] \notin task'[q].event
        BY <2>3, <2>5 DEF AlertInv, AlertsApart
      <3> QED BY <2>2, <3>1, <3>2 DEF AlertsApart
    <2>7. AlertedOnce'
      BY <2>2 DEF AlertInv, AlertedOnce
    <2> QED BY <2>4, <2>6, <2>7 DEF AlertInv
  <1>2. ASSUME NEW b \in Bands, WinsUnheard(b) PROVE AlertInv'
    <2> DEFINE a == AlertOf(row')
    <2>1. Raised(a, row')
      BY <1>0, <1>2, ClaimIsNew DEF WinsUnheard
    <2>2. /\ sent' = sent /\ failed' = failed /\ lost' = lost \union {a}
          /\ \A q \in Pods : task'[q].event = task[q].event
      BY <1>2 DEF WinsUnheard, SameEvents
    <2> HIDE DEF a
    <2>3. AlertsRaised'
      BY <1>0, <1>a, <1>b, <2>1, <2>2 DEF AlertInv, AlertsRaised
    <2>4. AlertsApart' /\ AlertedOnce'
      BY <2>2 DEF AlertInv, AlertsApart, AlertedOnce
    <2> QED BY <2>3, <2>4 DEF AlertInv
  <1>3. CASE Rearms \/ Quiet
    <2>1. /\ sent' = sent /\ failed' = failed /\ lost' = lost
          /\ \A q \in Pods : task'[q].event = task[q].event
      BY <1>3 DEF Rearms, Quiet, SameEvents, outcomes
    <2>2. AlertsRaised'
      BY <1>0, <1>a, <1>b, <2>1 DEF AlertInv, AlertsRaised
    <2>3. AlertsApart' /\ AlertedOnce'
      BY <2>1 DEF AlertInv, AlertsApart, AlertedOnce
    <2> QED BY <2>2, <2>3 DEF AlertInv
  <1>4. ASSUME NEW p \in Pods, NEW a \in Alerts, HandsOver(p, a) PROVE AlertInv'
    <2>1. /\ task[p].event = {a} /\ task'[p].event = {}
          /\ \A q \in Pods \ {p} : task'[q].event = task[q].event
      BY <1>4 DEF HandsOver, OnlyEvent
    <2>2. sent' = sent \/ sent' = Append(sent, a)
      BY <1>4 DEF HandsOver
    <2>3. failed' \subseteq failed \union {a} /\ lost' \subseteq lost \union {a}
      BY <1>4 DEF HandsOver
    <2>4. Raised(a, row) /\ \A i \in DOMAIN sent : sent[i] # a
      BY <2>1 DEF AlertInv, AlertsRaised, AlertsApart
    <2>5. \A i \in DOMAIN sent' :
            \/ i \in DOMAIN sent /\ sent'[i] = sent[i]
            \/ sent' = Append(sent, a) /\ i = Len(sent) + 1 /\ sent'[i] = a
      BY <1>0, <2>2
    <2>6. AlertsRaised'
      <3>1. ASSUME NEW i \in DOMAIN sent' PROVE Raised(sent'[i], row')
        BY <1>a, <1>b, <2>4, <2>5 DEF AlertInv, AlertsRaised
      <3>2. ASSUME NEW e \in failed' \union lost' PROVE Raised(e, row')
        BY <1>0, <1>a, <2>3, <2>4 DEF AlertInv, AlertsRaised
      <3>3. ASSUME NEW q \in Pods, NEW e \in task'[q].event PROVE Raised(e, row')
        BY <1>0, <1>a, <2>1 DEF AlertInv, AlertsRaised
      <3> QED BY <3>1, <3>2, <3>3 DEF AlertsRaised
    <2>7. AlertsApart'
      <3>1. ASSUME NEW q \in Pods, NEW r \in Pods, q # r
            PROVE  task'[q].event \intersect task'[r].event = {}
        BY <2>1, <3>1 DEF AlertInv, AlertsApart
      <3>2. ASSUME NEW q \in Pods, NEW i \in DOMAIN sent'
            PROVE  sent'[i] \notin task'[q].event
        <4>1. q # p => a \notin task[q].event
          BY <2>1 DEF AlertInv, AlertsApart
        <4> QED BY <2>1, <2>5, <4>1 DEF AlertInv, AlertsApart
      <3> QED BY <3>1, <3>2 DEF AlertsApart
    <2>8. AlertedOnce'
      <3>1. ASSUME NEW i \in DOMAIN sent', NEW j \in DOMAIN sent', sent'[i] = sent'[j]
            PROVE  i = j
        BY <2>4, <2>5, <3>1 DEF AlertInv, AlertedOnce
      <3> QED BY <3>1 DEF AlertedOnce
    <2> QED BY <2>6, <2>7, <2>8 DEF AlertInv
  <1> QED BY <1>1, <1>2, <1>3, <1>4, StepEffect DEF Effect

-------------------------------------------------------------------------------
(* The theorems.                                                             *)

\* The parts of the inductive invariant.
LEMMA LedgerParts == LedgerInv <=> TypeInv /\ CopyIsPast /\ AlertInv
BY DEF LedgerInv, TypeInv, AlertInv

\* It holds at first.
LEMMA LedgerInit == Init => LedgerInv
  <1> SUFFICES ASSUME Init PROVE LedgerInv
    OBVIOUS
  <1>1. TypeInv
    BY TypeInit
  <1>2. \A p \in Pods : l1[p] = {} /\ task[p].copy = {} /\ task[p].event = {}
    BY NoTaskFacts DEF Init
  <1>3. CopyIsPast
    BY <1>2 DEF Init, CopyIsPast
  <1>4. AlertInv
    BY <1>2 DEF Init, AlertInv, AlertsRaised, AlertsApart, AlertedOnce
  <1> QED BY <1>1, <1>3, <1>4, LedgerParts

\* LedgerInv holds in every state of every behaviour: copies and alerts stem from
\* states the row has been in, and each alert is in one pair of hands.
THEOREM LedgerInvariant == Spec => []LedgerInv
  <1>1. LedgerInv /\ [Next]_vars => LedgerInv'
    <2>1. SUFFICES ASSUME TypeInv, CopyIsPast, AlertInv, [Next]_vars
                   PROVE  TypeInv' /\ CopyIsPast' /\ AlertInv'
      BY LedgerParts, PTL
    <2> QED BY <2>1, TypeStep, CopyStep, AlertStep
  <1> QED BY <1>1, LedgerInit, PTL DEF Spec

\* However many pods decide on however stale copies, and whatever calls fail, no
\* band of an incident is handed to Kafka twice.
THEOREM NeverAlertedTwice == Spec => []AlertedOnce
  <1>1. LedgerInv => AlertedOnce
    BY DEF LedgerInv
  <1> QED BY <1>1, LedgerInvariant, PTL

\* No copy in Redis, in an L1 or in a pod's hands is ever ahead of the database row.
THEOREM CopiesNeverAhead == Spec => []CopyIsPast
  <1>1. LedgerInv => CopyIsPast
    BY DEF LedgerInv
  <1> QED BY <1>1, LedgerInvariant, PTL

-------------------------------------------------------------------------------
(* BandAlerts implements AlertIncident.                                      *)

\* The alerts pending after a step.
LEMMA PendingStep ==
  ASSUME NEW p \in Pods, NEW E, OnlyEvent(p, E),
         \A q \in Pods : q # p => task[p].event \intersect task[q].event = {}
  PROVE  Pending' = (Pending \ task[p].event) \union E
BY DEF Pending, OnlyEvent

\* Steps that leave the events alone leave the pending alerts alone.
LEMMA PendingSame == ASSUME SameEvents PROVE Pending' = Pending
BY DEF Pending, SameEvents

\* Every step of the pods is a step of the abstract incident, or none.
LEMMA IncidentStep ==
  ASSUME TypeInv, AlertsApart, [Next]_vars
  PROVE  [Incident!Next]_(Incident!vars)
  <1>0. row \in States
    BY DEF TypeInv, TypeOK
  <1>1. ASSUME NEW b \in Bands, Claimable(b), row' = Claimed(b)
        PROVE  Incident!Climb(b) /\ AlertOf(row') = [inc |-> row'.inc, band |-> b]
    BY <1>0, <1>1 DEF Claimable, Claimed, AlertOf, Incident!Climb, States
  <1>2. ASSUME NEW p \in Pods, NEW b \in Bands, Wins(p, b)
        PROVE  [Incident!Next]_(Incident!vars)
    <2>1. Pending' = Pending \union {AlertOf(row')}
      BY <1>2, PendingStep DEF Wins
    <2>2. Incident!Raise(b)
      BY <1>1, <1>2, <2>1 DEF Wins, Incident!Raise, outcomes
    <2> QED BY <2>2 DEF Incident!Next, Bands
  <1>3. ASSUME NEW b \in Bands, WinsUnheard(b) PROVE [Incident!Next]_(Incident!vars)
    <2>1. Incident!RaiseUnheard(b)
      BY <1>1, <1>3, PendingSame DEF WinsUnheard, Incident!RaiseUnheard
    <2> QED BY <2>1 DEF Incident!Next, Bands
  <1>4. CASE Rearms
    <2>1. Incident!Rearm
      BY <1>4, PendingSame DEF Rearms, Resettable, Rearmed, Incident!Rearm, outcomes
    <2> QED BY <2>1 DEF Incident!Next
  <1>5. ASSUME NEW p \in Pods, NEW a \in Alerts, HandsOver(p, a)
        PROVE  [Incident!Next]_(Incident!vars)
    <2>1. Pending' = Pending \ {a}
      <3>1. \A q \in Pods : q # p => task[p].event \intersect task[q].event = {}
        BY DEF AlertsApart
      <3> QED BY <1>5, <3>1, PendingStep DEF HandsOver
    <2>2. a \in Pending
      BY <1>5 DEF HandsOver, Pending
    <2>3. Incident!Send(a) \/ Incident!Fail(a) \/ Incident!Lose(a)
      BY <1>5, <2>1 DEF HandsOver, Incident!Send, Incident!Fail, Incident!Lose
    <2> QED BY <2>2, <2>3 DEF Incident!Next
  <1>6. CASE Quiet
    BY <1>6, PendingSame DEF Quiet, Incident!vars, outcomes
  <1> QED BY <1>2, <1>3, <1>4, <1>5, <1>6, StepEffect DEF Effect

\* The pods, their caches, lost races and failures implement one incident at a time:
\* every claim that wins raises one new alert, and a raised alert stays pending until
\* it is sent, has its failure row, or is lost with its pod.
THEOREM IncidentImplemented == Spec => ImplementsIncident
  <1>1. Init => Incident!Init
    <2> SUFFICES ASSUME Init PROVE Incident!Init
      OBVIOUS
    <2>1. Pending = {}
      BY NoTaskFacts DEF Init, Pending
    <2> QED BY <2>1 DEF Init, Incident!Init, NoRow
  <1>2. LedgerInv /\ [Next]_vars => [Incident!Next]_(Incident!vars)
    BY IncidentStep, LedgerParts DEF AlertInv
  <1> QED BY <1>1, <1>2, LedgerInvariant, PTL DEF Spec, ImplementsIncident, Incident!Spec
===============================================================================
