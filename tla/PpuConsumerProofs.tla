--------------------------- MODULE PpuConsumerProofs ---------------------------
(***************************************************************************)
(* What holds of PpuConsumer for any log, any number of replicas, any      *)
(* chunk size and any number of faults: the type invariant, that the       *)
(* committed offset never passes an unsettled message, and how many debits *)
(* too many the faults can cause.                                          *)
(***************************************************************************)
EXTENDS PpuConsumer, FiniteSetTheorems, TLAPS

\* clamping the provider's cached-token count keeps it between 0 and the input.
LEMMA ClampBounds ==
  ASSUME NEW cached \in Int, NEW input \in Nat
  PROVE  ClampCached(cached, input) \in 0..input
  BY DEF ClampCached

\* The rates calculate_llm_cost multiplies by are never negative.
LEMMA RatesNat ==
  ASSUME NEW p \in Pricings(STRING)
  PROVE  /\ InputRate(p) \in Nat
         /\ OrInputRate(PerUnitRate(p.cached_input_cost_per_unit, p), p) \in Nat
         /\ OrInputRate(PerUnitRate(p.output_cost_per_unit, p), p) \in Nat
  <1>1. InputRate(p) \in Nat
    BY DEF InputRate, PerUnitRate, UnitScale, Pricings, Prices, NoPrice
  <1>. QED  BY <1>1 DEF OrInputRate, PerUnitRate, Pricings, Prices, NoPrice

\* The product of two natural numbers is a natural number.
LEMMA TimesNat == \A a, b \in Nat : a * b \in Nat
  OBVIOUS

\* A span's cost is a natural number whatever its pricing row holds.
LEMMA SpanCostNat ==
  ASSUME NEW p \in Pricings(STRING), NEW input \in Nat, NEW cached \in Int, NEW output \in Nat
  PROVE  /\ SpanCost(input, cached, output, p) \in Nat
         /\ BilledUnits(input, output, p) \in Nat
  <1>1. BilledUnits(input, output, p) \in Nat
    BY DEF BilledUnits
  <1>2. LlmTotal(input, cached, output, p) \in Nat
    <2>. DEFINE hit == ClampCached(cached, input)
    <2>1. hit \in Nat /\ input - hit \in Nat
      BY ClampBounds
    <2>. HIDE DEF hit
    <2>2. (input - hit) * InputRate(p) \in Nat
      BY <2>1, RatesNat, TimesNat
    <2>3. hit * OrInputRate(PerUnitRate(p.cached_input_cost_per_unit, p), p) \in Nat
      BY <2>1, RatesNat, TimesNat
    <2>4. output * OrInputRate(PerUnitRate(p.output_cost_per_unit, p), p) \in Nat
      BY RatesNat, TimesNat
    <2>. QED  BY <2>2, <2>3, <2>4 DEF LlmTotal, LlmCost, hit
  <1>3. CalculateCost(BilledUnits(input, output, p), p) \in Nat
    <2>. DEFINE u == BilledUnits(input, output, p)
    <2>1. p.unit_rate > 0 => u * p.unit_rate * UnitScale(p) \in Nat
      <3>. SUFFICES ASSUME p.unit_rate > 0 PROVE u * p.unit_rate * UnitScale(p) \in Nat
        OBVIOUS
      <3>1. u \in Nat /\ p.unit_rate \in Nat /\ UnitScale(p) \in Nat
        BY <1>1 DEF Pricings, Prices, NoPrice, UnitScale
      <3>. HIDE DEF u
      <3>2. u * p.unit_rate \in Nat
        BY <3>1, TimesNat
      <3>. QED  BY <3>1, <3>2, TimesNat
    <2>2. p.cost_per_unit > 0 => u * p.cost_per_unit \in Nat
      <3>1. p.cost_per_unit > 0 => p.cost_per_unit \in Nat
        BY DEF Pricings, Prices, NoPrice
      <3>. QED  BY <1>1, <3>1, TimesNat
    <2>. HIDE DEF u
    <2>3. CalculateCost(u, p) \in Nat
      BY <2>1, <2>2 DEF CalculateCost
    <2>. QED  BY <2>3 DEF u
  <1>. QED  BY <1>1, <1>2, <1>3 DEF SpanCost

\* What a message of the log contributes is well typed.
LEMMA LogFacts ==
  ASSUME NEW o \in Offsets
  PROVE  /\ Log[o] \in Spans
         /\ Log[o].id \in Ids /\ Log[o].tenant \in Tenants /\ Log[o].row \in RowKeys
         /\ Cost(Log[o]) \in Nat
         /\ Cost(Log[o]) > 0 => /\ Log[o].service \in DOMAIN Pricing
                                /\ Units(Log[o]) \in Nat
                                /\ TaskType(Log[o]) \in TaskTypes
  <1>1. Log[o] \in Spans
    BY LogAssumption DEF Offsets
  <1>2. Log[o].service \in DOMAIN Pricing => Pricing[Log[o].service] \in Pricings(STRING)
    BY PricingAssumption
  <1>3. Log[o].service \in DOMAIN Pricing =>
           SpanCost(Log[o].input, Log[o].cached, Log[o].output, Pricing[Log[o].service]) \in Nat
    BY <1>1, <1>2, SpanCostNat DEF Spans
  <1>4. Log[o].service \in DOMAIN Pricing => Units(Log[o]) \in Nat
    BY <1>1, <1>2, SpanCostNat DEF Spans, Units
  <1>5. Log[o].service \in DOMAIN Pricing => TaskType(Log[o]) \in TaskTypes
    BY DEF TaskType, TaskTypes
  <1>. QED  BY <1>1, <1>3, <1>4, <1>5 DEF Ids, Tenants, RowKeys, Cost

-------------------------------------------------------------------------------
(* The type invariant.                                                       *)

\* TypeOK is not inductive alone: the message in hand must exist.
TypeInv == TypeOK /\ InHandOK

\* A replica past its fetch holds a message of the log.
LEMMA InHandFacts ==
  ASSUME TypeInv, NEW r \in Replicas, pc[r] \notin {"down", "poll"}
  PROVE  /\ InHand(r) \in Offsets
         /\ next[r] \in 1..Len(chunk[r])
         /\ Span(r) \in Spans
         /\ Span(r).id \in Ids /\ Span(r).tenant \in Tenants /\ Span(r).row \in RowKeys
         /\ Cost(Span(r)) \in Nat
         /\ Cost(Span(r)) > 0 => /\ Units(Span(r)) \in Nat
                                 /\ TaskType(Span(r)) \in TaskTypes
  <1>1. next[r] \in 1..Len(chunk[r])
    BY DEF TypeInv, InHandOK
  <1>2. InHand(r) \in Offsets
    BY <1>1 DEF TypeInv, TypeOK, InHand
  <1>. QED  BY <1>1, <1>2, LogFacts DEF Span

\* The debit of a span with a positive cost keeps the tables well typed.
LEMMA DebitTypes ==
  ASSUME TypeOK, NEW m \in Spans, m.id \in Ids, m.tenant \in Tenants,
         Cost(m) \in Nat, Units(m) \in Nat, Debit(m)
  PROVE  /\ charged' \in [Ids -> Nat]
         /\ used' \in [Keys -> Nat]
         /\ quotaUsed' \in [QuotaRows -> Nat]
  <1>1. charged' \in [Ids -> Nat]
    BY DEF Debit, TypeOK
  <1>2. used' \in [Keys -> Nat]
    <2>1. CASE m.key \in Keys
      <3>1. used[m.key] + Cost(m) \in Nat  BY <2>1 DEF TypeOK
      <3>. QED  BY <2>1, <3>1 DEF Debit, TypeOK
    <2>2. CASE m.key \notin Keys
      BY <2>2 DEF Debit, TypeOK
    <2>. QED  BY <2>1, <2>2
  <1>3. quotaUsed' \in [QuotaRows -> Nat]
    <2>1. CASE QuotaRecorded(m)
      <3>1. QuotaRow(m) \in QuotaRows
        BY <2>1 DEF QuotaRecorded, QuotaRow, QuotaRows
      <3>2. quotaUsed[QuotaRow(m)] + Units(m) \in Nat
        BY <3>1 DEF TypeOK
      <3>. QED  BY <2>1, <3>1, <3>2 DEF Debit, TypeOK
    <2>2. CASE ~QuotaRecorded(m)
      BY <2>2 DEF Debit, TypeOK
    <2>. QED  BY <2>1, <2>2
  <1>. QED  BY <1>1, <1>2, <1>3

\* The flags a charge obliges the consumer to push are flags of its own tenant and key.
LEMMA FlagsDueTypes ==
  ASSUME NEW m, m.tenant \in Tenants, TaskType(m) \in TaskTypes, NEW u, NEW q
  PROVE  FlagsDue(m, u, q) \subseteq Flags
  BY DEF FlagsDue, Flags, WalletExhausted

\* Counting a fault keeps the counters natural numbers.
LEMMA FaultTypes ==
  ASSUME TypeOK, NEW k \in FaultKinds, Fault(k)
  PROVE  faults' \in [FaultKinds -> Nat]
  BY DEF TypeOK, Fault

\* A raised handler stays in the loop with a legal attempt number.
LEMMA RaiseTypes ==
  ASSUME TypeOK, NEW r \in Replicas, InHand(r) \in Offsets, HandlerRaised(r)
  PROVE  /\ pc' \in [Replicas -> PCs]
         /\ attempt' \in [Replicas -> 1..MaxAttempts]
         /\ dropped' \subseteq Offsets
         /\ pc'[r] \in {"check", "commit"} /\ \A x \in Replicas \ {r} : pc'[x] = pc[x]
  <1>1. CASE attempt[r] < MaxAttempts
    <2>1. attempt[r] + 1 \in 1..MaxAttempts
      BY <1>1, AttemptsAssumption DEF TypeOK
    <2>2. attempt' = [attempt EXCEPT ![r] = attempt[r] + 1] /\ dropped' = dropped /\ Goto(r, "check")
      BY <1>1 DEF HandlerRaised
    <2>. QED  BY <2>1, <2>2 DEF TypeOK, Goto, PCs
  <1>2. CASE ~(attempt[r] < MaxAttempts)
    <2>1. attempt' = attempt /\ dropped' = dropped \union {InHand(r)} /\ Goto(r, "commit")
      BY <1>2 DEF HandlerRaised
    <2>. QED  BY <2>1 DEF TypeOK, Goto, PCs
  <1>. QED  BY <1>1, <1>2

\* Advancing past a message leaves the replica with the next one or at its poll.
LEMMA AdvanceTypes ==
  ASSUME TypeInv, NEW r \in Replicas, pc[r] \notin {"down", "poll"}, Advance(r)
  PROVE  /\ pc' \in [Replicas -> PCs]
         /\ next' \in [Replicas -> Nat \ {0}]
         /\ chunk' \in [Replicas -> Seq(Offsets)]
         /\ pc'[r] \in {"loop", "poll"}
         /\ pc'[r] = "loop" => next'[r] \in 1..Len(chunk'[r])
         /\ pc'[r] = "poll" => next'[r] = 1
         /\ \A x \in Replicas \ {r} :
              pc'[x] = pc[x] /\ next'[x] = next[x] /\ chunk'[x] = chunk[x]
  <1>1. next[r] \in 1..Len(chunk[r]) /\ Len(chunk[r]) \in Nat
    BY InHandFacts DEF TypeInv, TypeOK
  <1>2. CASE next[r] < Len(chunk[r])
    <2>1. Goto(r, "loop") /\ next' = [next EXCEPT ![r] = next[r] + 1] /\ chunk' = chunk
      BY <1>2 DEF Advance
    <2>. QED  BY <1>1, <1>2, <2>1 DEF TypeInv, TypeOK, Goto, PCs
  <1>3. CASE ~(next[r] < Len(chunk[r]))
    <2>1. Goto(r, "poll") /\ next' = [next EXCEPT ![r] = 1] /\ chunk' = [chunk EXCEPT ![r] = <<>>]
      BY <1>3 DEF Advance
    <2>. QED  BY <2>1 DEF TypeInv, TypeOK, Goto, PCs
  <1>. QED  BY <1>2, <1>3

\* A freshly deployed group is well typed.
LEMMA TypeInitial == Init => TypeInv
  <1>. SUFFICES ASSUME Init PROVE TypeInv
    OBVIOUS
  <1>1. Len(Log) \in Nat
    BY LogAssumption
  <1>2. TypeOK
    BY <1>1, AttemptsAssumption DEF Init, TypeOK, PCs
  <1>3. InHandOK
    BY DEF Init, InHandOK
  <1>. QED  BY <1>2, <1>3 DEF TypeInv

\* Every step keeps the type invariant.
LEMMA TypeStep == TypeInv /\ [Next]_vars => TypeInv'
  <1>. SUFFICES ASSUME TypeInv, [Next]_vars PROVE TypeInv'
    OBVIOUS
  <1>. USE AttemptsAssumption, ReplicasAssumption
  <1>a. Len(Log) \in Nat
    BY LogAssumption
  <1>1. ASSUME NEW r \in Replicas, Run(r) \/ Disturb(r) PROVE TypeInv'
    <2>1. CASE Start(r)
      BY <1>a, <2>1 DEF Start, TypeInv, TypeOK, InHandOK, PCs, Goto, NoFault, broker, control, database, redis
    <2>2. CASE Crash(r)
      <3>1. faults' \in [FaultKinds -> Nat]
        BY <2>2, FaultTypes DEF Crash, TypeInv, FaultKinds
      <3>. QED  BY <1>a, <2>2, <3>1 DEF Crash, Leave, TypeInv, TypeOK, InHandOK, PCs, Goto, NoFault, broker, control, database, redis
    <2>3. CASE Stop(r)
      <3>1. faults' \in [FaultKinds -> Nat]
        BY <2>3, FaultTypes DEF Stop, TypeInv, FaultKinds
      <3>. QED  BY <1>a, <2>3, <3>1 DEF Stop, Leave, TypeInv, TypeOK, InHandOK, PCs, Goto, NoFault, broker, control, database, redis
    <2>4. CASE TimeOut(r)
      <3>1. faults' \in [FaultKinds -> Nat]
        BY <2>4, FaultTypes DEF TimeOut, TypeInv, FaultKinds
      <3>. QED  BY <1>a, <2>4, <3>1 DEF TimeOut, TypeInv, TypeOK, InHandOK, PCs, Goto, NoFault, broker, control, database, redis
    <2>5. CASE OnAssign(r)
      BY <1>a, <2>5 DEF OnAssign, Consuming, TypeInv, TypeOK, InHandOK, PCs, Goto, NoFault, broker, control, database, redis
    <2>6. CASE OnRevoke(r)
      <3>1. faults' \in [FaultKinds -> Nat]
        BY <2>6, FaultTypes DEF OnRevoke, TypeInv, FaultKinds
      <3>. QED  BY <1>a, <2>6, <3>1 DEF OnRevoke, Consuming, TypeInv, TypeOK, InHandOK, PCs, Goto, NoFault, broker, control, database, redis
    <2>7. CASE OnLost(r)
      BY <1>a, <2>7 DEF OnLost, Consuming, TypeInv, TypeOK, InHandOK, PCs, Goto, NoFault, broker, control, database, redis
    <2>8. CASE Collect(r)
      <3>1. position[r] \in Offsets
        BY <1>a, <2>8 DEF Collect, TypeInv, TypeOK, Offsets
      <3>2. /\ pc[r] = "poll" /\ chunk' = [chunk EXCEPT ![r] = Append(@, position[r])]
            /\ position' = [position EXCEPT ![r] = @ + 1] /\ position[r] + 1 \in 1..(Len(Log) + 1)
        BY <1>a, <2>8 DEF Collect, Consuming, TypeInv, TypeOK
      <3>3. chunk[r] \in Seq(Offsets) /\ Append(chunk[r], position[r]) \in Seq(Offsets)
        BY <3>1 DEF TypeInv, TypeOK
      <3>4. chunk' \in [Replicas -> Seq(Offsets)] /\ position' \in [Replicas -> 1..(Len(Log) + 1)]
        BY <3>2, <3>3 DEF TypeInv, TypeOK
      <3>5. TypeOK'
        BY <2>8, <3>4 DEF Collect, TypeInv, TypeOK, NoFault, broker, database, redis
      <3>6. InHandOK'
        BY <2>8, <3>2 DEF Collect, TypeInv, TypeOK, InHandOK
      <3>. QED  BY <3>5, <3>6 DEF TypeInv
    <2>9. CASE Return(r)
      <3>1. CASE chunk[r] = <<>>
        BY <2>9, <3>1 DEF Return, TypeInv, TypeOK, InHandOK, PCs, Goto, NoFault, broker, control, database, redis
      <3>2. CASE chunk[r] # <<>>
        <4>1. 1 \in 1..Len(chunk[r])
          BY <3>2 DEF TypeInv, TypeOK
        <4>. QED  BY <2>9, <3>2, <4>1 DEF Return, TypeInv, TypeOK, InHandOK, PCs, Goto, NoFault, broker, control, database, redis
      <3>. QED  BY <3>1, <3>2
    <2>10. CASE SkipRevoked(r)
      <3>1. pc[r] \notin {"down", "poll"} /\ Advance(r)
        BY <2>10 DEF SkipRevoked
      <3>. QED  BY <2>10, <3>1, AdvanceTypes DEF SkipRevoked, TypeInv, TypeOK, InHandOK, PCs, Goto, NoFault, broker, control, database, redis
    <2>11. CASE AbandonChunk(r)
      <3>1. faults' \in [FaultKinds -> Nat]
        BY <2>11, FaultTypes DEF AbandonChunk, TypeInv, FaultKinds
      <3>2. TypeOK'
        BY <2>11, <3>1 DEF AbandonChunk, TypeInv, TypeOK, PCs, Goto, broker, database, redis
      <3>3. InHandOK'
        BY <2>11 DEF AbandonChunk, TypeInv, TypeOK, InHandOK, Goto
      <3>. QED  BY <3>2, <3>3 DEF TypeInv
    <2>12. CASE Begin(r)
      BY <1>a, <2>12 DEF Begin, TypeInv, TypeOK, InHandOK, PCs, Goto, NoFault, broker, control, database, redis
    <2>13. CASE IgnoreSpan(r)
      BY <1>a, <2>13 DEF IgnoreSpan, Dispatch, TypeInv, TypeOK, InHandOK, PCs, Goto, NoFault, broker, control, database, redis
    <2>14. CASE CountRequest(r)
      BY <1>a, <2>14 DEF CountRequest, Dispatch, TypeInv, TypeOK, InHandOK, PCs, Goto, NoFault, broker, control, database, redis
    <2>15. CASE CheckBilled(r)
      BY <1>a, <2>15 DEF CheckBilled, Dispatch, TypeInv, TypeOK, InHandOK, PCs, Goto, NoFault, broker, control, database, redis
    <2>16. CASE CheckFails(r)
      <3>1. faults' \in [FaultKinds -> Nat]
        BY <2>16, FaultTypes DEF CheckFails, TypeInv, FaultKinds
      <3>. QED  BY <1>a, <2>16, <3>1 DEF CheckFails, Dispatch, TypeInv, TypeOK, InHandOK, PCs, Goto, NoFault, broker, control, database, redis
    <2>17. CASE BillCommits(r)
      <3>1. faults' \in [FaultKinds -> Nat] /\ rows' \subseteq RowKeys
        BY <2>17, FaultTypes, InHandFacts DEF BillCommits, RecordUsageEvent, TypeInv, TypeOK, NoFault, FaultKinds
      <3>2. /\ charged' \in [Ids -> Nat] /\ used' \in [Keys -> Nat]
            /\ quotaUsed' \in [QuotaRows -> Nat]
        BY <2>17, InHandFacts, DebitTypes DEF BillCommits, TypeInv
      <3>3. due' \in [Replicas -> SUBSET Flags]
        BY <2>17, InHandFacts, FlagsDueTypes DEF BillCommits, TypeInv, TypeOK
      <3>. QED  BY <2>17, <3>1, <3>2, <3>3 DEF BillCommits, TypeInv, TypeOK, InHandOK, PCs, Goto, NoFault, broker, control, database, redis
    <2>18. CASE BillSkips(r)
      BY <1>a, <2>18 DEF BillSkips, Dispatch, TypeInv, TypeOK, InHandOK, PCs, Goto, NoFault, broker, control, database, redis
    <2>19. CASE BillFails(r)
      <3>1. faults' \in [FaultKinds -> Nat]
        BY <2>19, FaultTypes DEF BillFails, TypeInv, FaultKinds
      <3>2. pc[r] = "bill" /\ InHand(r) \in Offsets /\ HandlerRaised(r)
        BY <2>19, InHandFacts DEF BillFails
      <3>. QED  BY <2>19, <3>1, <3>2, RaiseTypes DEF BillFails, TypeInv, TypeOK, InHandOK, PCs, Goto, NoFault, broker, control, database, redis
    <2>20. CASE BillAmbiguous(r)
      <3>1. faults' \in [FaultKinds -> Nat]
        BY <2>20, FaultTypes DEF BillAmbiguous, TypeInv, FaultKinds
      <3>2. pc[r] = "bill" /\ InHand(r) \in Offsets /\ HandlerRaised(r)
        BY <2>20, InHandFacts DEF BillAmbiguous
      <3>3. /\ charged' \in [Ids -> Nat] /\ used' \in [Keys -> Nat]
            /\ quotaUsed' \in [QuotaRows -> Nat] /\ rows' \subseteq RowKeys
        BY <2>20, <3>2, InHandFacts, DebitTypes DEF BillAmbiguous, TypeInv, TypeOK
      <3>. QED  BY <2>20, <3>1, <3>2, <3>3, RaiseTypes DEF BillAmbiguous, TypeInv, TypeOK, InHandOK, PCs, Goto, NoFault, broker, control, database, redis
    <2>21. CASE MarkBilled(r)
      <3>1. faults' \in [FaultKinds -> Nat] /\ billed' \subseteq Ids
        BY <2>21, FaultTypes, InHandFacts DEF MarkBilled, TypeInv, TypeOK, NoFault, FaultKinds
      <3>. QED  BY <2>21, <3>1 DEF MarkBilled, TypeInv, TypeOK, InHandOK, PCs, Goto, NoFault, broker, control, database, redis
    <2>22. CASE NotifyAuth(r)
      <3>1. faults' \in [FaultKinds -> Nat]
        BY <2>22, FaultTypes DEF NotifyAuth, TypeInv, TypeOK, NoFault, FaultKinds
      <3>2. flags' \subseteq Flags
        BY <2>22 DEF NotifyAuth, TypeInv, TypeOK
      <3>. QED  BY <2>22, <3>1, <3>2 DEF NotifyAuth, TypeInv, TypeOK, InHandOK, PCs, Goto, NoFault, broker, control, database, redis
    <2>23. CASE RequestRecorded(r)
      <3>1. faults' \in [FaultKinds -> Nat] /\ rows' \subseteq RowKeys
        BY <2>23, FaultTypes, InHandFacts DEF RequestRecorded, RecordUsageEvent, TypeInv, TypeOK, NoFault, FaultKinds
      <3>. QED  BY <2>23, <3>1 DEF RequestRecorded, TypeInv, TypeOK, InHandOK, PCs, Goto, NoFault, broker, control, database, redis
    <2>24. CASE RequestFails(r)
      <3>1. faults' \in [FaultKinds -> Nat]
        BY <2>24, FaultTypes DEF RequestFails, TypeInv, FaultKinds
      <3>2. pc[r] = "request" /\ InHand(r) \in Offsets /\ HandlerRaised(r)
        BY <2>24, InHandFacts DEF RequestFails
      <3>. QED  BY <2>24, <3>1, <3>2, RaiseTypes DEF RequestFails, TypeInv, TypeOK, InHandOK, PCs, Goto, NoFault, broker, control, database, redis
    <2>25. CASE Commit(r)
      <3>1. pc[r] \notin {"down", "poll"} /\ Advance(r)
        BY <2>25 DEF Commit
      <3>2. committed' \in 1..(Len(Log) + 1)
        <4>1. InHand(r) \in 1..Len(Log)
          BY <3>1, InHandFacts DEF Offsets
        <4>. QED  BY <1>a, <2>25, <4>1 DEF Commit, TypeInv, TypeOK
      <3>. QED  BY <2>25, <3>1, <3>2, AdvanceTypes DEF Commit, TypeInv, TypeOK, InHandOK, PCs, Goto, NoFault, broker, control, database, redis
    <2>. QED
      BY <1>1, <2>1, <2>2, <2>3, <2>4, <2>5, <2>6, <2>7, <2>8, <2>9, <2>10, <2>11, <2>12,
             <2>13, <2>14, <2>15, <2>16, <2>17, <2>18, <2>19, <2>20, <2>21, <2>22, <2>23,
             <2>24, <2>25
      DEF Run, Disturb, Poll, Loop, Handle
  <1>2. ASSUME NEW i \in Ids, Expire(i) PROVE TypeInv'
    <2>1. faults' \in [FaultKinds -> Nat]
      BY <1>2, FaultTypes DEF Expire, TypeInv, FaultKinds
    <2>. QED  BY <1>2, <2>1 DEF Expire, TypeInv, TypeOK, InHandOK, broker, control, database, redis
  <1>3. CASE UNCHANGED vars
    BY <1>3 DEF vars, TypeInv, TypeOK, InHandOK, broker, control, database, redis
  <1>. QED  BY <1>1, <1>2, <1>3 DEF Next

\* Every variable keeps its type in every behaviour, whatever the log, the number of
\* replicas, the chunk size and the faults: in particular the offset a replica
\* commits always lies within the log.
THEOREM TypeCorrect == Spec => []TypeOK
  <1>1. TypeInv => TypeOK
    BY DEF TypeInv
  <1>. QED  BY <1>1, TypeInitial, TypeStep, PTL DEF Spec

-------------------------------------------------------------------------------
(* No committed offset passes an unsettled message.                          *)

\* The record of what was done only grows: no step takes back a debit, a usage row,
\* a dropped message or a fault.
Grows ==
  /\ \A i \in Ids : charged'[i] >= charged[i]
  /\ rows \subseteq rows'
  /\ dropped \subseteq dropped'
  /\ \A f \in FaultKinds : faults'[f] >= faults[f]

\* Counting a fault, or not, only grows the counters.
LEMMA FaultGrows ==
  ASSUME TypeOK, NoFault \/ \E k \in FaultKinds : Fault(k)
  PROVE  \A f \in FaultKinds : faults'[f] >= faults[f]
  <1>1. \A f \in FaultKinds : faults[f] \in Nat
    BY DEF TypeOK
  <1>2. CASE NoFault
    BY <1>1, <1>2 DEF NoFault
  <1>3. ASSUME NEW k \in FaultKinds, Fault(k) PROVE \A f \in FaultKinds : faults'[f] >= faults[f]
    <2>1. faults' = [faults EXCEPT ![k] = faults[k] + 1]
      BY <1>3 DEF Fault
    <2>. QED  BY <1>1, <2>1 DEF TypeOK
  <1>. QED  BY <1>2, <1>3

\* A debit only grows the charges.
LEMMA DebitGrows ==
  ASSUME TypeOK, NEW m, m.id \in Ids, Debit(m)
  PROVE  \A i \in Ids : charged'[i] >= charged[i]
  BY DEF TypeOK, Debit

\* Raising only adds to the dropped messages.
LEMMA RaiseGrows ==
  ASSUME NEW r \in Replicas, HandlerRaised(r)
  PROVE  dropped \subseteq dropped'
  BY DEF HandlerRaised

\* No step of the system shrinks the record.
LEMMA StepGrows ==
  ASSUME TypeInv, [Next]_vars
  PROVE  Grows
  <1>. USE DEF FaultKinds
  <1>a. ASSUME charged' = charged PROVE \A i \in Ids : charged'[i] >= charged[i]
    BY <1>a DEF TypeInv, TypeOK
  <1>b. TypeOK
    BY DEF TypeInv
  <1>1. ASSUME NEW r \in Replicas, Run(r) \/ Disturb(r) PROVE Grows
    <2>1. CASE Start(r) \/ Poll(r) \/ OnRevoke(r) \/ TimeOut(r) \/ Crash(r) \/ Stop(r)
      BY <1>a, <1>b, <2>1, FaultGrows
      DEF Grows, Start, Poll, OnAssign, OnLost, Collect, Return, OnRevoke, TimeOut, Crash, Stop,
          Leave, database
    <2>2. CASE SkipRevoked(r) \/ AbandonChunk(r) \/ Begin(r) \/ Commit(r)
      BY <1>a, <1>b, <2>2, FaultGrows
      DEF Grows, SkipRevoked, AbandonChunk, Begin, Commit, database
    <2>3. CASE IgnoreSpan(r) \/ CountRequest(r) \/ CheckBilled(r) \/ CheckFails(r) \/ BillSkips(r)
      BY <1>a, <1>b, <2>3, FaultGrows
      DEF Grows, IgnoreSpan, CountRequest, CheckBilled, CheckFails, BillSkips, Dispatch, database
    <2>4. CASE BillFails(r) \/ RequestFails(r)
      BY <1>a, <1>b, <2>4, FaultGrows, RaiseGrows
      DEF Grows, BillFails, RequestFails, database
    <2>5. CASE MarkBilled(r) \/ NotifyAuth(r) \/ RequestRecorded(r)
      BY <1>a, <1>b, <2>5, FaultGrows
      DEF Grows, MarkBilled, NotifyAuth, RequestRecorded, RecordUsageEvent, database
    <2>6. CASE BillCommits(r)
      <3>1. Span(r).id \in Ids
        BY <2>6, InHandFacts DEF BillCommits
      <3>. QED  BY <1>b, <2>6, <3>1, FaultGrows, DebitGrows DEF Grows, BillCommits, RecordUsageEvent
    <2>7. CASE BillAmbiguous(r)
      <3>1. Span(r).id \in Ids
        BY <2>7, InHandFacts DEF BillAmbiguous
      <3>. QED  BY <1>b, <2>7, <3>1, FaultGrows, DebitGrows, RaiseGrows DEF Grows, BillAmbiguous
    <2>. QED
      BY <1>1, <2>1, <2>2, <2>3, <2>4, <2>5, <2>6, <2>7 DEF Run, Disturb, Loop, Handle
  <1>2. ASSUME NEW i \in Ids, Expire(i) PROVE Grows
    BY <1>a, <1>b, <1>2, FaultGrows DEF Grows, Expire, database
  <1>3. CASE UNCHANGED vars
    BY <1>a, <1>b, <1>3, FaultGrows DEF Grows, vars, database, NoFault
  <1>. QED  BY <1>1, <1>2, <1>3 DEF Next

\* Hence a settled message stays settled, and a fault is never forgotten.
LEMMA SettledStable ==
  ASSUME TypeInv, TypeInv', Grows
  PROVE  /\ \A o \in Offsets : Settled(o) => Settled(o)'
         /\ Undisturbed' => Undisturbed
  <1>1. ASSUME NEW o \in Offsets, Settled(o) PROVE Settled(o)'
    <2>1. Log[o].id \in Ids
      BY DEF Ids
    <2>2. charged[Log[o].id] > 0 => charged'[Log[o].id] > 0
      BY <2>1 DEF Grows, TypeInv, TypeOK
    <2>3. faults["row"] > 0 => faults'["row"] > 0
      <3>1. "row" \in FaultKinds
        BY DEF FaultKinds
      <3>. QED  BY <3>1 DEF Grows, TypeInv, TypeOK
    <2>. QED  BY <1>1, <2>2, <2>3 DEF Settled, Grows
  <1>2. Undisturbed' => Undisturbed
    <2>1. "slow" \in FaultKinds /\ "check" \in FaultKinds
      BY DEF FaultKinds
    <2>. QED  BY <2>1 DEF Undisturbed, Grows, TypeInv, TypeOK
  <1>. QED  BY <1>1, <1>2

\* A replica that keeps its chunk, its place in it and its fetch position, and gains
\* no ownership, skips nothing new.
LEMMA ChunkKeeps ==
  ASSUME TypeInv, TypeInv', Grows, NEW r \in Replicas, NothingSkipped(r),
         chunk'[r] = chunk[r], next'[r] = next[r], position'[r] = position[r],
         assigned'[r] => assigned[r],
         (pc'[r] = "poll" \/ assigned'[r]) => (pc[r] = "poll" \/ assigned[r])
  PROVE  NothingSkipped(r)'
  <1>1. Len(Log) \in Nat
    BY LogAssumption
  <1>2. \A j \in next[r]..Len(chunk[r]) : chunk[r][j] \in Offsets
    <2>1. chunk[r] \in Seq(Offsets) /\ next[r] \in Nat \ {0}
      BY DEF TypeInv, TypeOK
    <2>. QED  BY <2>1
  <1>3. position[r] \in 1..(Len(Log) + 1)
    BY DEF TypeInv, TypeOK
  <1>4. ASSUME pc'[r] = "poll" \/ assigned'[r], NEW j \in next[r]..Len(chunk[r]),
               NEW o \in 1..(chunk[r][j] - 1)
        PROVE  Settled(o)' \/ HeldBefore(r, o, j)'
    <2>1. Settled(o) \/ HeldBefore(r, o, j)
      BY <1>4 DEF NothingSkipped
    <2>2. o \in Offsets
      BY <1>1, <1>2 DEF Offsets
    <2>3. HeldBefore(r, o, j) => HeldBefore(r, o, j)'
      BY DEF HeldBefore
    <2>. QED  BY <2>1, <2>2, <2>3, SettledStable
  <1>5. ASSUME assigned'[r], NEW o \in 1..(position[r] - 1)
        PROVE  Settled(o)' \/ HeldBefore(r, o, Len(chunk[r]) + 1)'
    <2>1. Settled(o) \/ HeldBefore(r, o, Len(chunk[r]) + 1)
      BY <1>5 DEF NothingSkipped
    <2>2. o \in Offsets
      BY <1>1, <1>3 DEF Offsets
    <2>3. HeldBefore(r, o, Len(chunk[r]) + 1) => HeldBefore(r, o, Len(chunk[r]) + 1)'
      BY DEF HeldBefore
    <2>. QED  BY <2>1, <2>2, <2>3, SettledStable
  <1>. QED  BY <1>4, <1>5 DEF NothingSkipped, HeldBefore

\* A replica that is not the one stepping keeps its part of the invariant.
LEMMA OthersKeep ==
  ASSUME TypeInv, TypeInv', Grows, NEW r \in Replicas, HandlerSettles(r), NothingSkipped(r),
         chunk'[r] = chunk[r], next'[r] = next[r], position'[r] = position[r],
         assigned'[r] = assigned[r], pc'[r] = pc[r]
  PROVE  HandlerSettles(r)' /\ NothingSkipped(r)'
  <1>1. NothingSkipped(r)'
    BY ChunkKeeps
  <1>2. CASE pc[r] \in {"down", "poll"}
    BY <1>1, <1>2 DEF HandlerSettles
  <1>3. CASE pc[r] \notin {"down", "poll"}
    <2>1. InHand(r) \in Offsets /\ InHand(r)' = InHand(r) /\ Span(r).id \in Ids
      BY <1>3, InHandFacts DEF InHand
    <2>2. Span(r)' = Span(r)
      BY <2>1 DEF Span
    <2>3. charged[Span(r).id] > 0 => charged'[Span(r).id] > 0
      BY <2>1 DEF Grows, TypeInv, TypeOK
    <2>4. Settled(InHand(r)) => Settled(InHand(r))'
      BY <2>1, SettledStable DEF Settled
    <2>. QED  BY <1>1, <2>1, <2>2, <2>3, <2>4 DEF HandlerSettles, Countable
  <1>. QED  BY <1>1, <1>2, <1>3

\* A step of one replica leaves the others' local state alone.
LEMMA OthersUntouched ==
  ASSUME TypeInv, NEW r \in Replicas, Run(r) \/ Disturb(r), NEW x \in Replicas, x # r
  PROVE  /\ pc'[x] = pc[x] /\ assigned'[x] = assigned[x] /\ position'[x] = position[x]
         /\ chunk'[x] = chunk[x] /\ next'[x] = next[x]
  <1>. USE DEF TypeInv, TypeOK, Goto, control
  <1>1. CASE Start(r) \/ Poll(r) \/ OnRevoke(r) \/ TimeOut(r)
    BY <1>1 DEF Start, Poll, OnAssign, OnLost, Collect, Return, OnRevoke, TimeOut
  <1>2. CASE Crash(r) \/ Stop(r)
    BY <1>2 DEF Crash, Stop, Leave
  <1>3. CASE SkipRevoked(r) \/ Commit(r)
    BY <1>3 DEF SkipRevoked, Commit, Advance
  <1>4. CASE AbandonChunk(r) \/ Begin(r)
    BY <1>4 DEF AbandonChunk, Begin
  <1>5. CASE IgnoreSpan(r) \/ CountRequest(r) \/ CheckBilled(r) \/ CheckFails(r) \/ BillSkips(r)
    BY <1>5 DEF IgnoreSpan, CountRequest, CheckBilled, CheckFails, BillSkips, Dispatch
  <1>6. CASE BillFails(r) \/ RequestFails(r) \/ BillAmbiguous(r)
    BY <1>6 DEF BillFails, RequestFails, BillAmbiguous, HandlerRaised
  <1>7. CASE BillCommits(r) \/ MarkBilled(r) \/ NotifyAuth(r) \/ RequestRecorded(r)
    BY <1>7 DEF BillCommits, MarkBilled, NotifyAuth, RequestRecorded
  <1>. QED
    BY <1>1, <1>2, <1>3, <1>4, <1>5, <1>6, <1>7 DEF Run, Disturb, Loop, Handle

\* The offsets a replica holds are offsets of the log.
LEMMA ChunkOffsets ==
  ASSUME TypeInv, NEW r \in Replicas
  PROVE  /\ Len(chunk[r]) \in Nat /\ next[r] \in Nat \ {0}
         /\ \A j \in 1..Len(chunk[r]) : chunk[r][j] \in Offsets
         /\ position[r] \in 1..(Len(Log) + 1)
         /\ Len(Log) \in Nat
         /\ Offsets = 1..Len(Log)
  <1>1. chunk[r] \in Seq(Offsets) /\ next[r] \in Nat \ {0} /\ position[r] \in 1..(Len(Log) + 1)
    BY DEF TypeInv, TypeOK
  <1>. QED  BY <1>1, LogAssumption DEF Offsets

\* A collected message extends the chunk exactly where the fetch position stood.
LEMMA CollectSkipsNothing ==
  ASSUME TypeInv, TypeInv', Grows, NEW r \in Replicas, NothingSkipped(r), Collect(r)
  PROVE  NothingSkipped(r)'
  <1>n. PICK n \in Nat : n = Len(chunk[r])
    BY ChunkOffsets
  <1>1. /\ chunk'[r] = Append(chunk[r], position[r]) /\ position'[r] = position[r] + 1
        /\ next'[r] = next[r] /\ assigned'[r] = assigned[r] /\ assigned[r]
        /\ position[r] \in Offsets
    BY <1>n, ChunkOffsets DEF Collect, Consuming, TypeInv, TypeOK
  <1>2. /\ Len(chunk'[r]) = n + 1 /\ chunk'[r][n + 1] = position[r]
        /\ \A j \in 1..n : chunk'[r][j] = chunk[r][j]
    BY <1>n, <1>1, ChunkOffsets DEF TypeInv, TypeOK
  <1>3. next[r] = 1
    BY <1>n DEF Collect, Consuming, TypeInv, InHandOK
  <1>4. \A o, j \in Nat : j <= n + 1 /\ HeldBefore(r, o, j) => HeldBefore(r, o, j)'
    BY <1>n, <1>1, <1>2, <1>3, ChunkOffsets DEF HeldBefore
  <1>5. ASSUME NEW o \in 1..(position[r] - 1) PROVE Settled(o)' \/ HeldBefore(r, o, n + 1)'
    <2>1. Settled(o) \/ HeldBefore(r, o, n + 1)
      BY <1>n, <1>1 DEF NothingSkipped
    <2>2. o \in Offsets /\ n + 1 \in Nat /\ o \in Nat
      BY <1>n, <1>1, ChunkOffsets
    <2>. QED  BY <1>n, <2>1, <2>2, <1>4, SettledStable
  <1>6. ASSUME NEW j \in 1..n, NEW o \in 1..(chunk[r][j] - 1) PROVE Settled(o)' \/ HeldBefore(r, o, j)'
    <2>1. Settled(o) \/ HeldBefore(r, o, j)
      BY <1>n, <1>1, <1>3, ChunkOffsets DEF NothingSkipped
    <2>2. o \in Offsets /\ j \in Nat /\ o \in Nat /\ j <= n + 1
      BY <1>n, ChunkOffsets
    <2>. QED  BY <1>n, <2>1, <2>2, <1>4, SettledStable
  <1>7. ASSUME NEW o \in 1..position[r] PROVE Settled(o)' \/ HeldBefore(r, o, n + 2)'
    <2>1. CASE o = position[r]
      <3>1. n + 1 \in next'[r]..(n + 2 - 1) /\ chunk'[r][n + 1] = o
        BY <1>n, <1>1, <1>2, <1>3, <2>1, ChunkOffsets
      <3>. QED  BY <1>n, <3>1 DEF HeldBefore
    <2>2. CASE o # position[r]
      <3>1. Settled(o)' \/ HeldBefore(r, o, n + 1)'
        BY <1>n, <1>1, <1>5, <2>2, ChunkOffsets
      <3>2. HeldBefore(r, o, n + 1)' => HeldBefore(r, o, n + 2)'
        BY <1>n, <1>1, <1>3, ChunkOffsets DEF HeldBefore
      <3>. QED  BY <1>n, <3>1, <3>2
    <2>. QED  BY <1>n, <2>1, <2>2
  <1>8. \A j \in next'[r]..Len(chunk'[r]) : \A o \in 1..(chunk'[r][j] - 1) :
          Settled(o)' \/ HeldBefore(r, o, j)'
    <2>1. \A j \in next'[r]..Len(chunk'[r]) : j \in 1..n \/ j = n + 1
      BY <1>n, <1>1, <1>2, <1>3, ChunkOffsets
    <2>. QED  BY <1>n, <1>2, <1>5, <1>6, <2>1
  <1>9. \A o \in 1..(position'[r] - 1) : Settled(o)' \/ HeldBefore(r, o, Len(chunk[r]) + 1)'
    <2>1. 1..(position'[r] - 1) = 1..position[r] /\ Len(chunk'[r]) + 1 = n + 2
      BY <1>n, <1>1, <1>2, ChunkOffsets
    <2>. QED  BY <1>n, <1>7, <2>1 DEF HeldBefore
  <1>. QED  BY <1>8, <1>9 DEF NothingSkipped, HeldBefore

\* Advancing past a settled message skips nothing.
LEMMA AdvanceSkipsNothing ==
  ASSUME TypeInv, TypeInv', Grows, NEW r \in Replicas, NothingSkipped(r), Advance(r),
         pc[r] \notin {"down", "poll"}, assigned[r], assigned'[r] = assigned[r],
         position'[r] = position[r], Settled(InHand(r))
  PROVE  NothingSkipped(r)'
  <1>n. PICK n \in Nat : n = Len(chunk[r])
    BY ChunkOffsets
  <1>0. next[r] \in 1..n /\ InHand(r) \in Offsets
    BY <1>n, InHandFacts
  <1>1. \A o \in Offsets : \A j \in Nat :
          HeldBefore(r, o, j) => Settled(o)' \/ \E i \in (next[r] + 1)..(j - 1) : chunk[r][i] = o
    <2>. SUFFICES ASSUME NEW o \in Offsets, NEW j \in Nat, HeldBefore(r, o, j)
                  PROVE  Settled(o)' \/ \E i \in (next[r] + 1)..(j - 1) : chunk[r][i] = o
      OBVIOUS
    <2>1. PICK i \in next[r]..(j - 1) : chunk[r][i] = o
      BY <1>n DEF HeldBefore
    <2>2. CASE i = next[r]
      BY <1>n, <2>1, <2>2, SettledStable DEF InHand
    <2>3. CASE i # next[r]
      BY <1>n, <1>0, <2>1, <2>3
    <2>. QED  BY <1>n, <2>2, <2>3
  <1>2. CASE next[r] < n
    <2>1. next'[r] = next[r] + 1 /\ chunk'[r] = chunk[r]
      BY <1>n, <1>2 DEF Advance, TypeInv, TypeOK
    <2>2. \A o \in Offsets : \A j \in Nat : HeldBefore(r, o, j) => Settled(o)' \/ HeldBefore(r, o, j)'
      BY <1>n, <1>1, <2>1 DEF HeldBefore
    <2>3. ASSUME NEW j \in next'[r]..n, NEW o \in 1..(chunk[r][j] - 1)
          PROVE  Settled(o)' \/ HeldBefore(r, o, j)'
      <3>1. j \in next[r]..n /\ j \in Nat /\ o \in Offsets
        BY <1>n, <1>0, <2>1, ChunkOffsets
      <3>2. Settled(o) \/ HeldBefore(r, o, j)
        BY <1>n, <3>1 DEF NothingSkipped
      <3>. QED  BY <1>n, <2>2, <3>1, <3>2, SettledStable
    <2>4. ASSUME NEW o \in 1..(position[r] - 1)
          PROVE  Settled(o)' \/ HeldBefore(r, o, n + 1)'
      <3>1. n + 1 \in Nat /\ o \in Offsets
        BY <1>n, ChunkOffsets
      <3>2. Settled(o) \/ HeldBefore(r, o, n + 1)
        BY <1>n DEF NothingSkipped
      <3>. QED  BY <1>n, <2>2, <3>1, <3>2, SettledStable
    <2>. QED  BY <1>n, <2>1, <2>3, <2>4 DEF NothingSkipped, HeldBefore
  <1>3. CASE ~(next[r] < n)
    <2>1. next'[r] = 1 /\ chunk'[r] = <<>> /\ next[r] = n
      BY <1>n, <1>0, <1>3, ChunkOffsets DEF Advance, TypeInv, TypeOK
    <2>2. ASSUME NEW o \in 1..(position[r] - 1) PROVE Settled(o)'
      <3>1. n + 1 \in Nat /\ o \in Offsets
        BY <1>n, ChunkOffsets
      <3>2. Settled(o) \/ HeldBefore(r, o, n + 1)
        BY <1>n DEF NothingSkipped
      <3>3. ~\E i \in (next[r] + 1)..(n + 1 - 1) : chunk[r][i] = o
        BY <1>n, <2>1, ChunkOffsets
      <3>. QED  BY <1>n, <1>1, <3>1, <3>2, <3>3, SettledStable
    <2>3. Len(chunk'[r]) = 0
      BY <1>n, <2>1
    <2>. QED  BY <1>n, <2>1, <2>2, <2>3 DEF NothingSkipped
  <1>. QED  BY <1>n, <1>2, <1>3

\* The parts of DeliveryInv that hold while no chunk was abandoned and no dedup read
\* failed.
CommittedSettled == \A o \in 1..(committed - 1) : Settled(o)
Good(r) == HandlerSettles(r) /\ NothingSkipped(r)

\* A handler step keeps the chunk, the place in it and the ownership; what remains
\* to show is where it leaves the message in hand.
LEMMA HandlerKeepsChunk ==
  ASSUME TypeInv, TypeInv', Grows, NEW r \in Replicas, NothingSkipped(r), assigned[r],
         chunk' = chunk, next' = next, position' = position, assigned' = assigned
  PROVE  NothingSkipped(r)'
  BY ChunkKeeps

\* What the messages the handler returns early on have in common: nothing is owed.
LEMMA NotOwedIsSettled ==
  ASSUME NEW o \in Offsets, ~Billable(Log[o]), ~Countable(Log[o])
  PROVE  Settled(o)
  BY DEF Settled

\* A charged inference span is settled.
LEMMA ChargedIsSettled ==
  ASSUME NEW o \in Offsets, Log[o].kind = "inference", charged[Log[o].id] > 0
  PROVE  Settled(o)
  BY DEF Settled, Countable

\* Every step of a replica's loop keeps its part of the invariant.
LEMMA LoopKeeps ==
  ASSUME TypeInv, TypeInv', Grows, NEW r \in Replicas, Loop(r), Undisturbed',
         Good(r), KeysAreCharged
  PROVE  Good(r)'
  <1>0. pc[r] \notin {"down", "poll"} /\ InHand(r) \in Offsets /\ Span(r) = Log[InHand(r)]
    <2>1. pc[r] \notin {"down", "poll"}
      BY DEF Loop, SkipRevoked, AbandonChunk, Begin, Handle, IgnoreSpan, CountRequest, CheckBilled,
             CheckFails, BillCommits, BillSkips, BillFails, BillAmbiguous, MarkBilled, NotifyAuth,
             RequestRecorded, RequestFails, Commit
    <2>. QED  BY <2>1, InHandFacts DEF Span
  <1>a. Span(r).id \in Ids
    BY <1>0, InHandFacts
  <1>b. pc[r] # "loop" => assigned[r]
    BY <1>0 DEF TypeInv, InHandOK
  <1>c. \A label : Goto(r, label) => pc'[r] = label
    BY DEF Goto, TypeInv, TypeOK
  <1>1. CASE SkipRevoked(r)
    <2>1. ~assigned[r] /\ assigned'[r] = assigned[r] /\ pc[r] = "loop" /\ Advance(r)
      BY <1>1 DEF SkipRevoked
    <2>2. pc'[r] \in {"loop", "poll"}
      BY <1>0, <2>1, AdvanceTypes
    <2>3. pc'[r] = "poll" => Len(chunk'[r]) = 0 /\ next'[r] = 1
      BY <1>0, <2>1, <1>c DEF Advance, TypeInv, TypeOK
    <2>. QED  BY <2>1, <2>2, <2>3 DEF Good, HandlerSettles, NothingSkipped
  <1>2. CASE AbandonChunk(r)
    <2>1. faults'["slow"] = faults["slow"] + 1 /\ faults["slow"] \in Nat
      BY <1>2 DEF AbandonChunk, Fault, TypeInv, TypeOK, FaultKinds
    <2>. QED  BY <2>1 DEF Undisturbed
  <1>3. CASE CheckFails(r)
    <2>1. faults'["check"] = faults["check"] + 1 /\ faults["check"] \in Nat
      BY <1>3 DEF CheckFails, Fault, TypeInv, TypeOK, FaultKinds
    <2>. QED  BY <2>1 DEF Undisturbed
  <1>4. CASE Commit(r)
    <2>1. /\ pc[r] = "commit" /\ Advance(r) /\ assigned[r] /\ assigned'[r] = assigned[r]
          /\ position'[r] = position[r] /\ Settled(InHand(r))
      BY <1>4, <1>b DEF Commit, Good, HandlerSettles
    <2>2. NothingSkipped(r)'
      BY <1>0, <2>1, AdvanceSkipsNothing DEF Good
    <2>3. pc'[r] \in {"loop", "poll"}
      BY <1>0, <2>1, AdvanceTypes
    <2>. QED  BY <2>2, <2>3 DEF Good, HandlerSettles
  <1>5. ASSUME assigned[r], chunk' = chunk, next' = next, position' = position,
               assigned' = assigned, HandlerSettles(r)'
        PROVE  Good(r)'
    BY <1>5, HandlerKeepsChunk DEF Good
  <1>6. ASSUME chunk' = chunk, next' = next
        PROVE  InHand(r)' = InHand(r) /\ Span(r)' = Span(r)
    BY <1>6 DEF InHand, Span
  <1>7. CASE Begin(r)
    <2>1. pc'[r] = "check" /\ assigned[r]
      BY <1>7, <1>c DEF Begin
    <2>2. HandlerSettles(r)'
      BY <2>1 DEF HandlerSettles
    <2>. QED  BY <1>5, <1>7, <2>1, <2>2 DEF Begin
  <1>8. CASE IgnoreSpan(r) \/ CountRequest(r) \/ CheckBilled(r) \/ BillSkips(r)
    <2>1. /\ chunk' = chunk /\ next' = next /\ position' = position /\ assigned' = assigned
          /\ pc[r] # "loop"
      BY <1>8 DEF IgnoreSpan, CountRequest, CheckBilled, BillSkips, Dispatch, control
    <2>2. HandlerSettles(r)'
      <3>1. CASE IgnoreSpan(r)
        <4>1. pc'[r] = "commit" /\ ~Billable(Span(r)) /\ ~Countable(Span(r))
          BY <1>c, <3>1 DEF IgnoreSpan, Dispatch, Billable, Countable
        <4>2. Settled(InHand(r))
          BY <1>0, <4>1, NotOwedIsSettled
        <4>. QED  BY <1>0, <1>6, <2>1, <4>1, <4>2, SettledStable DEF HandlerSettles, Settled
      <3>2. CASE CountRequest(r)
        <4>1. pc'[r] = "request" /\ Countable(Span(r))
          BY <1>c, <3>2 DEF CountRequest, Dispatch
        <4>. QED  BY <1>6, <2>1, <4>1 DEF HandlerSettles, Countable
      <3>3. CASE CheckBilled(r)
        <4>1. pc'[r] \in {"bill", "commit"} /\ Span(r).kind = "inference"
          BY <1>c, <3>3 DEF CheckBilled, Dispatch
        <4>2. CASE pc'[r] = "bill"
          BY <1>6, <2>1, <4>1, <4>2 DEF HandlerSettles
        <4>3. CASE pc'[r] = "commit"
          <5>1. Span(r).id = NoId \/ Span(r).id \in billed \/ ~Eligible(Span(r))
            BY <1>c, <3>3, <4>3 DEF CheckBilled, Dispatch
          <5>2. Settled(InHand(r))
            BY <1>0, <4>1, <5>1 DEF Settled, Billable, Countable, KeysAreCharged
          <5>. QED  BY <1>0, <1>6, <2>1, <4>3, <5>2, SettledStable DEF HandlerSettles, Settled
        <4>. QED  BY <4>1, <4>2, <4>3
      <3>4. CASE BillSkips(r)
        <4>1. pc'[r] = "commit" /\ Span(r).kind = "inference" /\ Cost(Span(r)) = 0
          BY <1>c, <3>4 DEF BillSkips, Dispatch, Good, HandlerSettles
        <4>2. Settled(InHand(r))
          BY <1>0, <4>1, NotOwedIsSettled DEF Billable, Countable
        <4>. QED  BY <1>0, <1>6, <2>1, <4>1, <4>2, SettledStable DEF HandlerSettles, Settled
      <3>. QED  BY <1>8, <3>1, <3>2, <3>3, <3>4
    <2>. QED  BY <1>5, <1>b, <2>1, <2>2
  <1>9. CASE BillCommits(r)
    <2>1. /\ chunk' = chunk /\ next' = next /\ position' = position /\ assigned' = assigned
          /\ pc[r] = "bill" /\ pc'[r] = "mark"
      BY <1>9, <1>c DEF BillCommits
    <2>2. charged'[Span(r).id] > 0
      BY <1>9, <1>a DEF BillCommits, Debit, TypeInv, TypeOK
    <2>3. HandlerSettles(r)'
      BY <1>6, <2>1, <2>2 DEF Good, HandlerSettles
    <2>. QED  BY <1>5, <1>b, <2>1, <2>3
  <1>10. CASE BillFails(r) \/ BillAmbiguous(r) \/ RequestFails(r)
    <2>1. /\ chunk' = chunk /\ next' = next /\ position' = position /\ assigned' = assigned
          /\ pc[r] # "loop" /\ HandlerRaised(r)
      BY <1>10 DEF BillFails, BillAmbiguous, RequestFails
    <2>2. pc'[r] = "check" \/ (pc'[r] = "commit" /\ InHand(r) \in dropped')
      BY <1>c, <2>1 DEF HandlerRaised
    <2>3. InHand(r) \in dropped' => Settled(InHand(r))'
      BY <1>6, <2>1 DEF Settled
    <2>4. HandlerSettles(r)'
      BY <2>2, <2>3 DEF HandlerSettles
    <2>. QED  BY <1>5, <1>b, <2>1, <2>4
  <1>11. CASE MarkBilled(r)
    <2>1. /\ chunk' = chunk /\ next' = next /\ position' = position /\ assigned' = assigned
          /\ pc[r] = "mark" /\ pc'[r] = "notify" /\ charged' = charged
      BY <1>11, <1>c DEF MarkBilled, control, database
    <2>2. HandlerSettles(r)'
      BY <1>6, <2>1 DEF Good, HandlerSettles
    <2>. QED  BY <1>5, <1>b, <2>1, <2>2
  <1>12. CASE NotifyAuth(r)
    <2>1. /\ chunk' = chunk /\ next' = next /\ position' = position /\ assigned' = assigned
          /\ pc[r] = "notify" /\ pc'[r] = "commit"
      BY <1>12, <1>c DEF NotifyAuth
    <2>2. Settled(InHand(r))
      BY <1>0, <2>1, ChargedIsSettled DEF Good, HandlerSettles
    <2>3. HandlerSettles(r)'
      BY <1>0, <1>6, <2>1, <2>2, SettledStable DEF HandlerSettles, Settled
    <2>. QED  BY <1>5, <1>b, <2>1, <2>3
  <1>13. CASE RequestRecorded(r)
    <2>1. /\ chunk' = chunk /\ next' = next /\ position' = position /\ assigned' = assigned
          /\ pc[r] = "request" /\ pc'[r] = "commit" /\ Countable(Span(r))
      BY <1>13, <1>c DEF RequestRecorded, control, Good, HandlerSettles
    <2>2. Span(r).row \in rows' \/ faults'["row"] > 0
      <3>1. "row" \in FaultKinds /\ faults["row"] \in Nat
        BY DEF FaultKinds, TypeInv, TypeOK
      <3>2. Fault("row") => faults'["row"] > 0
        BY <3>1 DEF Fault, TypeInv, TypeOK
      <3>. QED  BY <1>13, <3>2 DEF RequestRecorded, RecordUsageEvent
    <2>3. Settled(InHand(r))'
      BY <1>0, <1>6, <2>1, <2>2 DEF Settled, Countable, Billable
    <2>4. HandlerSettles(r)'
      BY <2>1, <2>3 DEF HandlerSettles
    <2>. QED  BY <1>5, <1>b, <2>1, <2>4
  <1>. QED
    BY <1>1, <1>2, <1>3, <1>4, <1>7, <1>8, <1>9, <1>10, <1>11, <1>12, <1>13 DEF Loop, Handle

\* Starting, fetching, rebalancing and dying keep a replica's part of the invariant.
LEMMA PollKeeps ==
  ASSUME TypeInv, TypeInv', Grows, NEW r \in Replicas, Start(r) \/ Poll(r) \/ Disturb(r),
         Good(r), CommittedSettled
  PROVE  Good(r)'
  <1>c. \A label : Goto(r, label) => pc'[r] = label
    BY DEF Goto, TypeInv, TypeOK
  <1>1. CASE Start(r)
    <2>1. pc'[r] = "poll" /\ pc[r] = "down" /\ UNCHANGED control
      BY <1>1, <1>c DEF Start
    <2>2. ~assigned'[r] /\ Len(chunk'[r]) = 0 /\ next'[r] = 1
      BY <2>1 DEF TypeInv, InHandOK, control
    <2>. QED  BY <2>1, <2>2 DEF Good, HandlerSettles, NothingSkipped
  <1>2. CASE Crash(r) \/ Stop(r)
    <2>1. pc'[r] = "down" /\ ~assigned'[r]
      BY <1>2, <1>c DEF Crash, Stop, Leave, TypeInv, TypeOK
    <2>. QED  BY <2>1 DEF Good, HandlerSettles, NothingSkipped
  <1>3. CASE TimeOut(r)
    <2>1. pc' = pc /\ UNCHANGED control
      BY <1>3 DEF TimeOut
    <2>. QED  BY <2>1, OthersKeep DEF Good, control
  <1>4. CASE OnAssign(r)
    <2>1. /\ pc[r] = "poll" /\ pc'[r] = "poll" /\ assigned'[r] /\ position'[r] = committed
          /\ chunk' = chunk /\ next' = next
      BY <1>4 DEF OnAssign, Consuming, TypeInv, TypeOK
    <2>2. \A o \in 1..(position'[r] - 1) : Settled(o)'
      <3>1. ASSUME NEW o \in 1..(committed - 1) PROVE Settled(o)'
        <4>1. o \in Offsets
          BY LogAssumption DEF TypeInv, TypeOK, Offsets
        <4>. QED  BY <4>1, SettledStable DEF CommittedSettled
      <3>. QED  BY <2>1, <3>1
    <2>3. ASSUME NEW j \in next[r]..Len(chunk[r]), NEW o \in 1..(chunk[r][j] - 1)
          PROVE  Settled(o)' \/ HeldBefore(r, o, j)'
      <3>1. Settled(o) \/ HeldBefore(r, o, j)
        BY <2>1 DEF Good, NothingSkipped
      <3>2. o \in Offsets
        BY ChunkOffsets
      <3>3. HeldBefore(r, o, j) => HeldBefore(r, o, j)'
        BY <2>1 DEF HeldBefore
      <3>. QED  BY <3>1, <3>2, <3>3, SettledStable
    <2>. QED  BY <2>1, <2>2, <2>3 DEF Good, HandlerSettles, NothingSkipped
  <1>5. CASE OnRevoke(r) \/ OnLost(r)
    <2>1. /\ pc[r] = "poll" /\ pc'[r] = "poll" /\ ~assigned'[r]
          /\ chunk' = chunk /\ next' = next /\ position' = position
      BY <1>5 DEF OnRevoke, OnLost, Consuming, TypeInv, TypeOK
    <2>2. NothingSkipped(r)'
      BY <2>1, ChunkKeeps DEF Good
    <2>. QED  BY <2>1, <2>2 DEF Good, HandlerSettles
  <1>6. CASE Collect(r)
    <2>1. pc'[r] = "poll"
      BY <1>6 DEF Collect, Consuming
    <2>. QED  BY <1>6, <2>1, CollectSkipsNothing DEF Good, HandlerSettles
  <1>7. CASE Return(r)
    <2>1. /\ pc[r] = "poll" /\ pc'[r] \in {"poll", "loop"}
          /\ chunk' = chunk /\ position' = position /\ assigned' = assigned /\ next'[r] = 1
      BY <1>7, <1>c DEF Return, TypeInv, TypeOK
    <2>2. next'[r] = next[r]
      BY <2>1 DEF TypeInv, InHandOK
    <2>3. NothingSkipped(r)'
      BY <2>1, <2>2, ChunkKeeps DEF Good
    <2>. QED  BY <2>1, <2>3 DEF Good, HandlerSettles
  <1>. QED  BY <1>1, <1>2, <1>3, <1>4, <1>5, <1>6, <1>7 DEF Poll, Disturb

\* Only Commit moves the group's offset, and only past what was settled before it.
LEMMA CommittedKeeps ==
  ASSUME TypeInv, TypeInv', Grows, [Next]_vars, CommittedSettled, \A r \in Replicas : Good(r)
  PROVE  CommittedSettled'
  <1>1. ASSUME committed' = committed PROVE CommittedSettled'
    <2>1. \A o \in 1..(committed - 1) : o \in Offsets
      BY LogAssumption DEF TypeInv, TypeOK, Offsets
    <2>. QED  BY <1>1, <2>1, SettledStable DEF CommittedSettled
  <1>2. ASSUME NEW r \in Replicas, Commit(r) PROVE CommittedSettled'
    <2>1. CASE owner # r
      BY <1>1, <1>2, <2>1 DEF Commit
    <2>2. CASE owner = r
      <3>1. pc[r] = "commit" /\ committed' = InHand(r) + 1 /\ Settled(InHand(r)) /\ assigned[r]
        BY <1>2, <2>2 DEF Commit, Good, HandlerSettles, TypeInv, InHandOK
      <3>2. next[r] \in 1..Len(chunk[r]) /\ InHand(r) \in Offsets
        BY <3>1, InHandFacts
      <3>3. ASSUME NEW o \in 1..(InHand(r) - 1) PROVE Settled(o)
        <4>1. next[r] \in next[r]..Len(chunk[r])
          BY <3>2, ChunkOffsets
        <4>2. Settled(o) \/ HeldBefore(r, o, next[r])
          BY <3>1, <4>1 DEF Good, NothingSkipped, InHand
        <4>3. ~HeldBefore(r, o, next[r])
          BY ChunkOffsets DEF HeldBefore
        <4>. QED  BY <4>2, <4>3
      <3>4. \A o \in 1..InHand(r) : o \in Offsets /\ Settled(o)
        BY <3>1, <3>2, <3>3, ChunkOffsets
      <3>5. 1..(committed' - 1) = 1..InHand(r)
        BY <3>1, <3>2, ChunkOffsets
      <3>. QED  BY <3>4, <3>5, SettledStable DEF CommittedSettled
    <2>. QED  BY <2>1, <2>2
  <1>3. ASSUME NEW r \in Replicas, Run(r) \/ Disturb(r), ~Commit(r) PROVE committed' = committed
    BY <1>3
    DEF Run, Disturb, Loop, Handle, Start, Poll, OnAssign, OnLost, Collect, Return, OnRevoke, TimeOut,
        Crash, Stop, Leave, SkipRevoked, AbandonChunk, Begin, IgnoreSpan, CountRequest, CheckBilled,
        CheckFails, BillSkips, Dispatch, BillCommits, BillFails, BillAmbiguous, MarkBilled, NotifyAuth,
        RequestRecorded, RequestFails, broker
  <1>. QED  BY <1>1, <1>2, <1>3 DEF Next, Expire, vars, broker

\* A dedup key is only ever written for a span whose debit was made.
LEMMA KeysKeep ==
  ASSUME TypeInv, TypeInv', Grows, [Next]_vars, KeysAreCharged, \A r \in Replicas : Good(r)
  PROVE  KeysAreCharged'
  <1>1. \A i \in Ids : charged[i] > 0 => charged'[i] > 0
    BY DEF Grows, TypeInv, TypeOK
  <1>2. ASSUME billed' \subseteq billed PROVE KeysAreCharged'
    BY <1>1, <1>2 DEF KeysAreCharged, TypeInv, TypeOK
  <1>3. ASSUME NEW r \in Replicas, MarkBilled(r) PROVE KeysAreCharged'
    <2>1. pc[r] = "mark" /\ charged[Span(r).id] > 0 /\ billed' \subseteq billed \union {Span(r).id}
      BY <1>3 DEF MarkBilled, Good, HandlerSettles
    <2>2. Span(r).id \in Ids
      BY <2>1, InHandFacts
    <2>. QED  BY <1>1, <2>1, <2>2 DEF KeysAreCharged, TypeInv, TypeOK
  <1>4. ASSUME NEW r \in Replicas, Run(r) \/ Disturb(r), ~MarkBilled(r) PROVE billed' = billed
    BY <1>4
    DEF Run, Disturb, Loop, Handle, Start, Poll, OnAssign, OnLost, Collect, Return, OnRevoke, TimeOut,
        Crash, Stop, Leave, SkipRevoked, AbandonChunk, Begin, IgnoreSpan, CountRequest, CheckBilled,
        CheckFails, BillSkips, Dispatch, BillCommits, BillFails, BillAmbiguous, NotifyAuth,
        RequestRecorded, RequestFails, Commit, redis
  <1>5. ASSUME NEW i \in Ids, Expire(i) PROVE billed' \subseteq billed
    BY <1>5 DEF Expire
  <1>6. CASE UNCHANGED vars
    BY <1>2, <1>6 DEF vars, redis
  <1>. QED  BY <1>2, <1>3, <1>4, <1>5, <1>6 DEF Next

\* Every step of the system keeps the delivery invariant.
LEMMA DeliveryStep == DeliveryInv /\ [Next]_vars => DeliveryInv'
  <1>. SUFFICES ASSUME DeliveryInv, [Next]_vars PROVE DeliveryInv'
    OBVIOUS
  <1>1. TypeInv /\ TypeInv' /\ Grows
    BY TypeStep, StepGrows DEF DeliveryInv, TypeInv
  <1>2. CASE ~Undisturbed'
    BY <1>1, <1>2 DEF DeliveryInv, TypeInv
  <1>3. CASE Undisturbed'
    <2>1. /\ \A r \in Replicas : Good(r)
          /\ KeysAreCharged /\ CommittedSettled
      BY <1>1, <1>3, SettledStable DEF DeliveryInv, Good, CommittedSettled
    <2>2. KeysAreCharged' /\ CommittedSettled'
      BY <1>1, <2>1, KeysKeep, CommittedKeeps
    <2>3. ASSUME NEW r \in Replicas, Run(r) \/ Disturb(r), NEW x \in Replicas PROVE Good(x)'
      <3>1. CASE x # r
        BY <1>1, <2>1, <2>3, <3>1, OthersUntouched, OthersKeep DEF Good
      <3>2. CASE x = r
        BY <1>1, <1>3, <2>1, <2>3, <3>2, LoopKeeps, PollKeeps DEF Run, Disturb
      <3>. QED  BY <3>1, <3>2
    <2>4. ASSUME (\E i \in Ids : Expire(i)) \/ UNCHANGED vars, NEW x \in Replicas PROVE Good(x)'
      <3>1. pc' = pc /\ UNCHANGED control
        BY <2>4 DEF Expire, vars
      <3>. QED  BY <1>1, <2>1, <3>1, OthersKeep DEF Good, control
    <2>5. \A x \in Replicas : Good(x)'
      BY <2>3, <2>4 DEF Next
    <2>. QED  BY <1>1, <2>2, <2>5 DEF DeliveryInv, TypeInv, Good, CommittedSettled
  <1>. QED  BY <1>2, <1>3

\* What the loop holds, what the handler has done with it and where the group stands
\* fit together in every behaviour, whatever the log, the number of replicas, the
\* chunk size and the faults.
THEOREM DeliveryInvariant == Spec => []DeliveryInv
  <1>1. Init => DeliveryInv
    <2>. SUFFICES ASSUME Init PROVE DeliveryInv
      OBVIOUS
    <2>1. TypeOK /\ InHandOK
      BY TypeInitial DEF TypeInv
    <2>2. ASSUME NEW r \in Replicas PROVE HandlerSettles(r) /\ NothingSkipped(r)
      BY DEF Init, HandlerSettles, NothingSkipped
    <2>3. KeysAreCharged /\ \A o \in 1..(committed - 1) : Settled(o)
      BY DEF Init, KeysAreCharged
    <2>. QED  BY <2>1, <2>2, <2>3 DEF DeliveryInv
  <1>. QED  BY <1>1, DeliveryStep, PTL DEF Spec

\* Whatever the log, the number of replicas, the chunk size and the faults: as long as
\* no chunk was abandoned at its deadline and no dedup read failed, the offset the
\* group has committed never passes a billable span that was neither charged nor
\* reported as dropped, or a countable request without its row.
THEOREM CommittedIsSettledAlways == Spec => []CommittedIsSettled
  <1>1. DeliveryInv => CommittedIsSettled
    BY DEF DeliveryInv, CommittedIsSettled
  <1>. QED  BY <1>1, DeliveryInvariant, PTL

-------------------------------------------------------------------------------
(* How often a span is charged again.                                        *)

\* The group gave the partition away and the replica does not know yet.
TimedOut(r) == assigned[r] /\ owner # r

\* The first message of its chunk that a replica may still debit.
FirstOpen(r) ==
  IF pc[r] = "poll" THEN 1
  ELSE IF pc[r] \in {"mark", "notify", "commit"} THEN next[r] + 1
  ELSE next[r]

\* The messages that replicas that were timed out may still debit.
Stray ==
  {m \in Replicas \X (1..BatchSize) :
     TimedOut(m[1]) /\ FirstOpen(m[1]) <= m[2] /\ m[2] <= Len(chunk[m[1]])}

\* The owner of the partition is at label with a span of id i.
OwnerAt(label, i) == owner \in Replicas /\ pc[owner] = label /\ Span(owner).id = i

\* The spans the owner may debit again: charged, and either the owner has passed the
\* dedup read or nothing stops it there and it is not about to write the key itself.
Unguarded ==
  {i \in Ids : /\ charged[i] > 0 /\ ~OwnerAt("mark", i)
               /\ i \notin billed \/ OwnerAt("bill", i)}

\* Debits made twice and debits that still may be are covered by faults.
DebtBounded ==
  /\ IsFiniteSet(Overcharged) /\ IsFiniteSet(Unguarded) /\ IsFiniteSet(Stray)
  /\ Cardinality(Overcharged) + Cardinality(Unguarded) + Cardinality(Stray) <= RebillingFaults

\* A chunk has at most BatchSize messages, and the owner knows that it is one.
ChunkBounded == \A r \in Replicas : Len(chunk[r]) <= BatchSize
OwnerKnows == \A r \in Replicas : owner = r => assigned[r]

RebillInv == TypeInv /\ ChunkBounded /\ OwnerKnows /\ DebtBounded

-------------------------------------------------------------------------------
(* Counting.                                                                 *)

\* Sets that shrink, grow by one or lose one.
LEMMA SmallerSet ==
  ASSUME NEW S, NEW T, IsFiniteSet(S), T \subseteq S
  PROVE  /\ IsFiniteSet(T) /\ Cardinality(S) \in Nat /\ Cardinality(T) \in Nat
         /\ Cardinality(T) <= Cardinality(S)
  BY FS_Subset, FS_CardinalityType

LEMMA OneMore ==
  ASSUME NEW S, NEW T, NEW x, IsFiniteSet(S), T \subseteq S \union {x}
  PROVE  /\ IsFiniteSet(T) /\ Cardinality(S) \in Nat /\ Cardinality(T) \in Nat
         /\ Cardinality(T) <= Cardinality(S) + 1
  <1>1. IsFiniteSet(S \union {x}) /\ Cardinality(S) \in Nat
    BY FS_AddElement, FS_CardinalityType
  <1>2. Cardinality(S \union {x}) = IF x \in S THEN Cardinality(S) ELSE Cardinality(S) + 1
    BY FS_AddElement
  <1>3. /\ IsFiniteSet(T) /\ Cardinality(T) \in Nat
        /\ Cardinality(T) <= Cardinality(S \union {x}) /\ Cardinality(S \union {x}) \in Nat
    BY <1>1, SmallerSet
  <1>. QED  BY <1>1, <1>2, <1>3

LEMMA OneLess ==
  ASSUME NEW S, NEW T, NEW x \in S, IsFiniteSet(S), T \subseteq S \ {x}
  PROVE  /\ IsFiniteSet(T) /\ Cardinality(S) \in Nat /\ Cardinality(T) \in Nat
         /\ Cardinality(T) + 1 <= Cardinality(S)
  <1>1. IsFiniteSet(S \ {x}) /\ Cardinality(S \ {x}) = Cardinality(S) - 1 /\ Cardinality(S) \in Nat
    BY FS_RemoveElement, FS_CardinalityType
  <1>2. /\ IsFiniteSet(T) /\ Cardinality(T) \in Nat /\ Cardinality(S \ {x}) \in Nat
        /\ Cardinality(T) <= Cardinality(S \ {x})
    BY <1>1, SmallerSet
  <1>. QED  BY <1>1, <1>2

\* A set that grows by the messages of one chunk from index a on.
LEMMA ChunkMore ==
  ASSUME NEW S, NEW T, NEW r, NEW a \in 1..2, IsFiniteSet(S),
         T \subseteq S \union ({r} \X (a..BatchSize))
  PROVE  /\ IsFiniteSet(T) /\ Cardinality(S) \in Nat /\ Cardinality(T) \in Nat
         /\ Cardinality(T) <= Cardinality(S) + BatchSize - a + 1
  <1>. DEFINE I == a..BatchSize
  <1>1. IsFiniteSet(I) /\ Cardinality(I) = BatchSize - a + 1 /\ BatchSize \in Nat
    BY BatchAssumption, FS_Interval
  <1>2. IsFiniteSet({r}) /\ Cardinality({r}) = 1
    BY FS_Singleton
  <1>3. IsFiniteSet({r} \X I) /\ Cardinality({r} \X I) = Cardinality({r}) * Cardinality(I)
    BY <1>1, <1>2, FS_Product
  <1>4. Cardinality({r} \X I) = BatchSize - a + 1
    BY <1>1, <1>2, <1>3
  <1>. DEFINE U == S \union ({r} \X I)
  <1>5. /\ IsFiniteSet(U)
        /\ Cardinality(U) = Cardinality(S) + Cardinality({r} \X I) - Cardinality(S \intersect ({r} \X I))
    BY <1>3, FS_Union
  <1>6. Cardinality(S \intersect ({r} \X I)) \in Nat /\ Cardinality(S) \in Nat
    BY SmallerSet
  <1>7. /\ IsFiniteSet(T) /\ Cardinality(T) \in Nat
        /\ Cardinality(T) <= Cardinality(U) /\ Cardinality(U) \in Nat
    BY <1>5, SmallerSet
  <1>. QED  BY <1>1, <1>4, <1>5, <1>6, <1>7

\* What a fault adds to the bound.
LEMMA BoundStep ==
  ASSUME TypeInv
  PROVE  /\ RebillingFaults \in Nat
         /\ NoFault => RebillingFaults' = RebillingFaults
         /\ \A k \in FaultKinds : Fault(k) =>
              RebillingFaults' = IF k = "lost" THEN RebillingFaults + BatchSize
                                 ELSE IF k \in {"crash", "set", "expire", "ambiguous"}
                                 THEN RebillingFaults + 1 ELSE RebillingFaults
  <1>1. faults \in [FaultKinds -> Nat] /\ BatchSize \in Nat
    BY BatchAssumption DEF TypeInv, TypeOK
  <1>2. \A a, b \in Nat : a * b \in Nat /\ a * (b + 1) = a * b + a
    OBVIOUS
  <1>3. \A k \in {"crash", "set", "expire", "ambiguous", "lost"} : faults[k] \in Nat
    BY <1>1 DEF FaultKinds
  <1>4. BatchSize * faults["lost"] \in Nat
    BY <1>1, <1>2, <1>3
  <1>5. RebillingFaults \in Nat
    BY <1>3, <1>4 DEF RebillingFaults
  <1>6. NoFault => RebillingFaults' = RebillingFaults
    BY DEF NoFault, RebillingFaults
  <1>7. ASSUME NEW k \in FaultKinds, Fault(k)
        PROVE  RebillingFaults' = IF k = "lost" THEN RebillingFaults + BatchSize
                                 ELSE IF k \in {"crash", "set", "expire", "ambiguous"}
                                 THEN RebillingFaults + 1 ELSE RebillingFaults
    <2>1. /\ faults'[k] = faults[k] + 1
          /\ \A j \in FaultKinds : j # k => faults'[j] = faults[j]
      BY <1>1, <1>7 DEF Fault
    <2>2. CASE k = "lost"
      <3>1. /\ faults'["lost"] = faults["lost"] + 1 /\ faults'["crash"] = faults["crash"]
            /\ faults'["set"] = faults["set"] /\ faults'["expire"] = faults["expire"]
            /\ faults'["ambiguous"] = faults["ambiguous"]
        BY <2>1, <2>2 DEF FaultKinds
      <3>2. BatchSize * faults'["lost"] = BatchSize * faults["lost"] + BatchSize
        BY <1>1, <1>2, <1>3, <3>1
      <3>. QED  BY <1>1, <1>3, <1>4, <2>2, <3>1, <3>2 DEF RebillingFaults
    <2>3. CASE k # "lost"
      <3>1. faults'["lost"] = faults["lost"]
        BY <2>1, <2>3 DEF FaultKinds
      <3>2. BatchSize * faults'["lost"] = BatchSize * faults["lost"]
        BY <3>1
      <3>3. /\ faults'["crash"] = IF k = "crash" THEN faults["crash"] + 1 ELSE faults["crash"]
            /\ faults'["set"] = IF k = "set" THEN faults["set"] + 1 ELSE faults["set"]
            /\ faults'["expire"] = IF k = "expire" THEN faults["expire"] + 1 ELSE faults["expire"]
            /\ faults'["ambiguous"] = IF k = "ambiguous" THEN faults["ambiguous"] + 1 ELSE faults["ambiguous"]
        BY <2>1 DEF FaultKinds
      <3>. QED  BY <1>3, <1>4, <2>3, <3>2, <3>3 DEF RebillingFaults
    <2>. QED  BY <2>2, <2>3
  <1>. QED  BY <1>5, <1>6, <1>7

-------------------------------------------------------------------------------
(* What a step does to the three sets.                                       *)

\* Where nothing is debited the debits stay as they are.
LEMMA NoDebit ==
  ASSUME charged' = charged
  PROVE  Overcharged' = Overcharged
  BY DEF Overcharged

\* A debit is the first of its span or one too many.
LEMMA OneDebit ==
  ASSUME TypeInv, NEW i \in Ids, charged' = [charged EXCEPT ![i] = @ + 1]
  PROVE  /\ Overcharged' \subseteq Overcharged \union {<<i, charged[i] + 1>>}
         /\ charged[i] = 0 => Overcharged' \subseteq Overcharged
  <1>1. /\ charged \in [Ids -> Nat] /\ charged'[i] = charged[i] + 1
        /\ \A j \in Ids : j # i => charged'[j] = charged[j]
    BY DEF TypeInv, TypeOK
  <1>2. ASSUME NEW p \in Overcharged'
        PROVE  p \in Overcharged \/ (p = <<i, charged[i] + 1>> /\ charged[i] # 0)
    <2>1. PICK j \in Ids : \E n \in 2..charged'[j] : p = <<j, n>>
      BY <1>2 DEF Overcharged
    <2>2. PICK n \in 2..charged'[j] : p = <<j, n>>
      BY <2>1
    <2>3. charged[j] \in Nat /\ charged'[j] \in Nat
      BY <1>1
    <2>4. CASE n \in 2..charged[j]
      BY <2>2, <2>4 DEF Overcharged
    <2>5. CASE n \notin 2..charged[j]
      <3>1. j = i
        BY <1>1, <2>2, <2>5
      <3>2. n = charged[i] + 1 /\ charged[i] # 0
        BY <1>1, <2>2, <2>3, <2>5, <3>1
      <3>. QED  BY <2>2, <3>1, <3>2
    <2>. QED  BY <2>4, <2>5
  <1>. QED  BY <1>2

\* Only replica r moves.
Alone(r) ==
  \A x \in Replicas : x # r =>
    /\ pc'[x] = pc[x] /\ assigned'[x] = assigned[x]
    /\ chunk'[x] = chunk[x] /\ next'[x] = next[x]

\* The others' spans and first open messages stay what they are.
LEMMA AloneFacts ==
  ASSUME NEW r \in Replicas, Alone(r), NEW x \in Replicas, x # r
  PROVE  Span(x)' = Span(x) /\ FirstOpen(x)' = FirstOpen(x)
  BY DEF Alone, Span, InHand, FirstOpen

\* Only replica r can add a stray message.
LEMMA StrayMove ==
  ASSUME TypeInv, TypeInv', NEW r \in Replicas, Alone(r),
         owner' = owner \/ (owner \in {r, NoReplica} /\ owner' \in {r, NoReplica}),
         TimedOut(r)' => /\ TimedOut(r) /\ FirstOpen(r)' >= FirstOpen(r)
                         /\ Len(chunk'[r]) <= Len(chunk[r])
  PROVE  Stray' \subseteq Stray
  <1>. SUFFICES ASSUME NEW m \in Stray' PROVE m \in Stray
    OBVIOUS
  <1>1. /\ m \in Replicas \X (1..BatchSize) /\ m[1] \in Replicas /\ m[2] \in 1..BatchSize
        /\ TimedOut(m[1])' /\ FirstOpen(m[1])' <= m[2] /\ m[2] <= Len(chunk'[m[1]])
    BY DEF Stray
  <1>2. CASE m[1] # r
    <2>1. TimedOut(m[1])
      BY <1>1, <1>2, ReplicasAssumption DEF TimedOut, Alone
    <2>. QED  BY <1>1, <1>2, <2>1, AloneFacts DEF Stray, Alone
  <1>3. CASE m[1] = r
    <2>1. TimedOut(r) /\ FirstOpen(r)' >= FirstOpen(r) /\ Len(chunk'[r]) <= Len(chunk[r])
      BY <1>1, <1>3
    <2>2. /\ FirstOpen(r) \in Nat /\ FirstOpen(r)' \in Nat
          /\ Len(chunk[r]) \in Nat /\ Len(chunk'[r]) \in Nat /\ m[2] \in Nat
      <3>1. next[r] \in Nat /\ next'[r] \in Nat /\ chunk[r] \in Seq(Offsets) /\ chunk'[r] \in Seq(Offsets)
        BY DEF TypeInv, TypeOK
      <3>. QED  BY <1>1, <3>1, BatchAssumption DEF FirstOpen
    <2>. QED  BY <1>1, <1>3, <2>1, <2>2 DEF Stray
  <1>. QED  BY <1>2, <1>3

\* A replica that was timed out and debits the message in hand is through with it.
LEMMA StrayDebit ==
  ASSUME RebillInv, TypeInv', NEW r \in Replicas, Alone(r), owner' = owner, TimedOut(r),
         pc[r] = "bill", pc'[r] = "mark", chunk' = chunk, next' = next
  PROVE  <<r, next[r]>> \in Stray /\ Stray' \subseteq Stray \ {<<r, next[r]>>}
  <1>0. TypeInv /\ next[r] \in 1..Len(chunk[r]) /\ Len(chunk[r]) <= BatchSize /\ BatchSize \in Nat
    BY InHandFacts, BatchAssumption DEF RebillInv, ChunkBounded
  <1>1. /\ FirstOpen(r) = next[r] /\ FirstOpen(r)' = next[r] + 1
        /\ next[r] \in Nat /\ Len(chunk[r]) \in Nat
    BY <1>0 DEF FirstOpen, TypeInv, TypeOK
  <1>2. next[r] \in 1..BatchSize
    BY <1>0, <1>1
  <1>3. <<r, next[r]>> \in Stray
    BY <1>0, <1>1, <1>2 DEF Stray
  <1>4. Stray' \subseteq Stray
    BY <1>0, <1>1, StrayMove
  <1>5. <<r, next[r]>> \notin Stray'
    BY <1>1 DEF Stray
  <1>. QED  BY <1>3, <1>4, <1>5

\* A step that debits nothing and leaves the owner: only a dedup key that is not
\* written lets a span go.
LEMMA UnguardedMove ==
  ASSUME NEW r \in Replicas, Alone(r), owner' = owner, charged' = charged,
         billed \subseteq billed',
         owner = r /\ pc[r] = "mark" => pc'[r] # "bill" /\ Span(r).id \in billed',
         owner = r /\ pc'[r] = "bill" => pc[r] # "mark" /\ Span(r)'.id \notin billed'
  PROVE  Unguarded' \subseteq Unguarded
  <1>. SUFFICES ASSUME NEW i \in Unguarded' PROVE i \in Unguarded
    OBVIOUS
  <1>1. /\ i \in Ids /\ charged[i] > 0 /\ ~OwnerAt("mark", i)'
        /\ i \notin billed' \/ OwnerAt("bill", i)'
    BY DEF Unguarded
  <1>2. CASE owner # r
    <2>1. \A l : OwnerAt(l, i)' <=> OwnerAt(l, i)
      BY <1>2, AloneFacts DEF OwnerAt, Alone
    <2>. QED  BY <1>1, <2>1 DEF Unguarded
  <1>3. CASE owner = r
    <2>1. i \notin billed'
      BY <1>1, <1>3 DEF OwnerAt
    <2>2. ~OwnerAt("mark", i)
      BY <1>3, <2>1 DEF OwnerAt
    <2>. QED  BY <1>1, <2>1, <2>2 DEF Unguarded
  <1>. QED  BY <1>2, <1>3

\* A step that debits nothing and leaves the new owner, if any, before its dedup read:
\* what the old one was about to write a key for is let go.
LEMMA UnguardedLeft ==
  ASSUME charged' = charged, billed' = billed,
         owner' \in Replicas => pc'[owner'] # "bill"
  PROVE  /\ Unguarded' \subseteq Unguarded \union {Span(owner).id}
         /\ (owner \in Replicas => pc[owner] # "mark") => Unguarded' \subseteq Unguarded
  BY DEF Unguarded, OwnerAt

\* A debit lets at most its own span go, and none that was charged before if another
\* replica is the owner.
LEMMA UnguardedDebit ==
  ASSUME TypeInv, NEW r \in Replicas, Alone(r), owner' = owner, billed' = billed,
         NEW i \in Ids, charged' = [charged EXCEPT ![i] = @ + 1],
         pc[r] = "bill", Span(r).id = i, pc'[r] # "bill", chunk' = chunk, next' = next
  PROVE  /\ Unguarded' \subseteq Unguarded \union {i}
         /\ charged[i] > 0 /\ owner # r => Unguarded' \subseteq Unguarded
         /\ charged[i] > 0 /\ owner = r => i \in Unguarded
         /\ pc'[r] = "mark" /\ owner = r => Unguarded' \subseteq Unguarded \ {i}
  <1>1. /\ charged \in [Ids -> Nat] /\ charged'[i] = charged[i] + 1
        /\ \A j \in Ids : j # i => charged'[j] = charged[j]
    BY DEF TypeInv, TypeOK
  <1>2. Span(r)' = Span(r)
    BY DEF Span, InHand
  <1>3. CASE owner # r
    <2>1. \A l, j : OwnerAt(l, j)' <=> OwnerAt(l, j)
      BY <1>3, AloneFacts DEF OwnerAt, Alone
    <2>. QED  BY <1>1, <1>3, <2>1 DEF Unguarded
  <1>4. CASE owner = r
    <2>1. charged[i] > 0 => i \in Unguarded
      BY <1>4 DEF Unguarded, OwnerAt
    <2>2. ASSUME NEW j \in Unguarded', j # i PROVE j \in Unguarded
      BY <1>1, <1>2, <1>4, <2>2 DEF Unguarded, OwnerAt
    <2>3. pc'[r] = "mark" => i \notin Unguarded'
      BY <1>2, <1>4 DEF Unguarded, OwnerAt
    <2>. QED  BY <1>4, <2>1, <2>2, <2>3
  <1>. QED  BY <1>3, <1>4

-------------------------------------------------------------------------------
(* Every debt is covered.                                                    *)

\* A step that adds to none of the sets.
LEMMA NoNewDebt ==
  ASSUME TypeInv, DebtBounded, charged' = charged, Unguarded' \subseteq Unguarded,
         Stray' \subseteq Stray, NoFault \/ \E k \in FaultKinds : Fault(k)
  PROVE  DebtBounded'
  <1>1. Overcharged' = Overcharged
    BY NoDebit
  <1>2. RebillingFaults \in Nat /\ RebillingFaults' \in Nat /\ RebillingFaults' >= RebillingFaults
    BY BoundStep, BatchAssumption
  <1>3. /\ IsFiniteSet(Overcharged) /\ Cardinality(Overcharged) \in Nat
        /\ IsFiniteSet(Unguarded) /\ IsFiniteSet(Stray)
    BY FS_CardinalityType DEF DebtBounded
  <1>4. /\ IsFiniteSet(Unguarded') /\ Cardinality(Unguarded) \in Nat /\ Cardinality(Unguarded') \in Nat
        /\ Cardinality(Unguarded') <= Cardinality(Unguarded)
    BY <1>3, SmallerSet
  <1>5. /\ IsFiniteSet(Stray') /\ Cardinality(Stray) \in Nat /\ Cardinality(Stray') \in Nat
        /\ Cardinality(Stray') <= Cardinality(Stray)
    BY <1>3, SmallerSet
  <1>. QED  BY <1>1, <1>2, <1>3, <1>4, <1>5 DEF DebtBounded

\* A step that lets one span go, for a fault that pays for it.
LEMMA OneLetGo ==
  ASSUME TypeInv, DebtBounded, charged' = charged, NEW x, Unguarded' \subseteq Unguarded \union {x},
         Stray' \subseteq Stray, \E k \in {"crash", "set", "expire"} : Fault(k)
  PROVE  DebtBounded'
  <1>1. Overcharged' = Overcharged
    BY NoDebit
  <1>2. RebillingFaults \in Nat /\ RebillingFaults' = RebillingFaults + 1
    BY BoundStep DEF FaultKinds
  <1>3. /\ IsFiniteSet(Overcharged) /\ Cardinality(Overcharged) \in Nat
        /\ IsFiniteSet(Unguarded) /\ IsFiniteSet(Stray)
    BY FS_CardinalityType DEF DebtBounded
  <1>4. /\ IsFiniteSet(Unguarded') /\ Cardinality(Unguarded) \in Nat /\ Cardinality(Unguarded') \in Nat
        /\ Cardinality(Unguarded') <= Cardinality(Unguarded) + 1
    BY <1>3, OneMore
  <1>5. /\ IsFiniteSet(Stray') /\ Cardinality(Stray) \in Nat /\ Cardinality(Stray') \in Nat
        /\ Cardinality(Stray') <= Cardinality(Stray)
    BY <1>3, SmallerSet
  <1>. QED  BY <1>1, <1>2, <1>3, <1>4, <1>5 DEF DebtBounded

\* A replica moves on, debits nothing and leaves the partition to its owner.
LEMMA MoveOn ==
  ASSUME RebillInv, TypeInv', NEW r \in Replicas, Alone(r), owner' = owner, charged' = charged,
         billed \subseteq billed', NoFault \/ \E k \in FaultKinds : Fault(k),
         owner = r /\ pc[r] = "mark" => pc'[r] # "bill" /\ Span(r).id \in billed',
         owner = r /\ pc'[r] = "bill" => pc[r] # "mark" /\ Span(r)'.id \notin billed',
         TimedOut(r)' => /\ TimedOut(r) /\ FirstOpen(r)' >= FirstOpen(r)
                         /\ Len(chunk'[r]) <= Len(chunk[r])
  PROVE  DebtBounded'
  <1>1. Unguarded' \subseteq Unguarded
    BY UnguardedMove
  <1>2. Stray' \subseteq Stray
    BY StrayMove DEF RebillInv
  <1>. QED  BY <1>1, <1>2, NoNewDebt DEF RebillInv

\* The group gives the partition to another replica, or to none.
LEMMA HandOver ==
  ASSUME RebillInv, TypeInv', NEW r \in Replicas, Alone(r),
         OnAssign(r) \/ OnRevoke(r) \/ (owner = r /\ (Stop(r) \/ Crash(r)))
  PROVE  DebtBounded'
  <1>0. TypeInv /\ DebtBounded /\ NoReplica \notin Replicas
    BY ReplicasAssumption DEF RebillInv
  <1>1. /\ owner \in {r, NoReplica} /\ owner' \in {r, NoReplica}
        /\ charged' = charged /\ billed' = billed /\ ~TimedOut(r)'
        /\ owner' \in Replicas => pc'[owner'] = "poll"
    <2>1. CASE OnAssign(r)
      BY <1>0, <2>1 DEF OnAssign, Consuming, TimedOut, database, redis
    <2>2. CASE OnRevoke(r)
      BY <1>0, <2>2 DEF OnRevoke, TimedOut, database, redis, TypeInv, TypeOK
    <2>3. CASE owner = r /\ (Stop(r) \/ Crash(r))
      BY <1>0, <2>3 DEF Stop, Crash, Leave, TimedOut, database, redis, TypeInv, TypeOK
    <2>. QED  BY <2>1, <2>2, <2>3
  <1>2. Stray' \subseteq Stray
    BY <1>0, <1>1, StrayMove
  <1>3. /\ Unguarded' \subseteq Unguarded \union {Span(owner).id}
        /\ (owner \in Replicas => pc[owner] # "mark") => Unguarded' \subseteq Unguarded
    BY <1>1, UnguardedLeft
  <1>4. CASE Crash(r)
    <2>1. Fault("crash")
      BY <1>4 DEF Crash
    <2>. QED  BY <1>0, <1>1, <1>2, <1>3, <2>1, OneLetGo
  <1>5. CASE ~Crash(r)
    <2>1. (owner \in Replicas => pc[owner] # "mark") /\ (NoFault \/ \E k \in FaultKinds : Fault(k))
      BY <1>0, <1>5 DEF OnAssign, OnRevoke, Stop, Consuming, FaultKinds
    <2>. QED  BY <1>0, <1>1, <1>2, <1>3, <2>1, NoNewDebt
  <1>. QED  BY <1>4, <1>5

\* A replica that is timed out may still debit its chunk, once each: either itself or,
\* for a span it has debited and not marked, the next owner.
LEMMA TimeOutDebt ==
  ASSUME RebillInv, TypeInv', NEW r \in Replicas, TimeOut(r)
  PROVE  DebtBounded'
  <1>0. TypeInv /\ DebtBounded /\ NoReplica \notin Replicas /\ BatchSize \in Nat \ {0}
    BY ReplicasAssumption, BatchAssumption DEF RebillInv
  <1>1. /\ owner = r /\ owner' = NoReplica /\ pc' = pc /\ chunk' = chunk /\ next' = next
        /\ assigned' = assigned /\ charged' = charged /\ billed' = billed /\ Fault("lost")
    BY DEF TimeOut, control, database, redis
  <1>2. RebillingFaults \in Nat /\ RebillingFaults' = RebillingFaults + BatchSize
    BY <1>0, <1>1, BoundStep DEF FaultKinds
  <1>3. Overcharged' = Overcharged
    BY <1>1, NoDebit
  <1>4. /\ IsFiniteSet(Overcharged) /\ Cardinality(Overcharged) \in Nat
        /\ IsFiniteSet(Unguarded) /\ IsFiniteSet(Stray)
    BY <1>0, FS_CardinalityType DEF DebtBounded
  <1>5. ASSUME NEW m \in Stray', m \notin Stray
        PROVE  m = <<r, m[2]>> /\ m[2] \in 1..BatchSize /\ FirstOpen(r) <= m[2]
    <2>1. /\ m \in Replicas \X (1..BatchSize) /\ TimedOut(m[1])' /\ FirstOpen(m[1]) <= m[2]
          /\ m[2] <= Len(chunk[m[1]])
      BY <1>1, <1>5 DEF Stray, FirstOpen
    <2>2. m[1] = r
      BY <1>1, <1>5, <2>1 DEF Stray, TimedOut
    <2>. QED  BY <2>1, <2>2
  <1>6. CASE pc[r] = "mark"
    <2>1. next[r] \in Nat \ {0} /\ FirstOpen(r) = next[r] + 1
      BY <1>0, <1>6 DEF FirstOpen, TypeInv, TypeOK
    <2>2. Stray' \subseteq Stray \union ({r} \X (2..BatchSize))
      BY <1>0, <1>5, <2>1
    <2>3. /\ IsFiniteSet(Stray') /\ Cardinality(Stray) \in Nat /\ Cardinality(Stray') \in Nat
          /\ Cardinality(Stray') <= Cardinality(Stray) + BatchSize - 2 + 1
      <3>1. 2 \in 1..2
        OBVIOUS
      <3>. QED  BY <1>4, <2>2, <3>1, ChunkMore, Zenon
    <2>4. Unguarded' \subseteq Unguarded \union {Span(owner).id}
      BY <1>0, <1>1, UnguardedLeft
    <2>5. /\ IsFiniteSet(Unguarded') /\ Cardinality(Unguarded) \in Nat /\ Cardinality(Unguarded') \in Nat
          /\ Cardinality(Unguarded') <= Cardinality(Unguarded) + 1
      BY <1>4, <2>4, OneMore
    <2>. QED  BY <1>0, <1>2, <1>3, <1>4, <2>3, <2>5 DEF DebtBounded
  <1>7. CASE pc[r] # "mark"
    <2>2. Stray' \subseteq Stray \union ({r} \X (1..BatchSize))
      BY <1>5
    <2>3. /\ IsFiniteSet(Stray') /\ Cardinality(Stray) \in Nat /\ Cardinality(Stray') \in Nat
          /\ Cardinality(Stray') <= Cardinality(Stray) + BatchSize - 1 + 1
      <3>1. 1 \in 1..2
        OBVIOUS
      <3>. QED  BY <1>4, <2>2, <3>1, ChunkMore, Zenon
    <2>4. Unguarded' \subseteq Unguarded
      BY <1>0, <1>1, <1>7, UnguardedLeft
    <2>5. /\ IsFiniteSet(Unguarded') /\ Cardinality(Unguarded) \in Nat /\ Cardinality(Unguarded') \in Nat
          /\ Cardinality(Unguarded') <= Cardinality(Unguarded)
      BY <1>4, <2>4, SmallerSet
    <2>. QED  BY <1>0, <1>2, <1>3, <1>4, <2>3, <2>5 DEF DebtBounded
  <1>. QED  BY <1>6, <1>7

\* A debit is paid for: it is the first, or its span was let go, or it was stray, or
\* its acknowledgement was lost.
LEMMA DebitDebt ==
  ASSUME RebillInv, TypeInv', NEW r \in Replicas, Alone(r), BillCommits(r) \/ BillAmbiguous(r)
  PROVE  DebtBounded'
  <1>. DEFINE i == Span(r).id
  <1>0. TypeInv /\ DebtBounded /\ pc[r] = "bill" /\ assigned[r]
    BY DEF RebillInv, TypeInv, InHandOK, BillCommits, BillAmbiguous
  <1>1. i \in Ids /\ next[r] \in 1..Len(chunk[r])
    BY <1>0, InHandFacts
  <1>c. \A label : Goto(r, label) => pc'[r] = label
    BY <1>0 DEF Goto, TypeInv, TypeOK
  <1>2. /\ charged' = [charged EXCEPT ![i] = @ + 1] /\ owner' = owner /\ billed' = billed
        /\ chunk' = chunk /\ next' = next /\ assigned' = assigned
    BY DEF BillCommits, BillAmbiguous, Debit, broker, redis
  <1>3. charged[i] \in Nat
    BY <1>0, <1>1 DEF TypeInv, TypeOK
  <1>. HIDE DEF i
  <1>4. /\ IsFiniteSet(Overcharged) /\ IsFiniteSet(Unguarded) /\ IsFiniteSet(Stray)
        /\ Cardinality(Overcharged) \in Nat /\ Cardinality(Unguarded) \in Nat
        /\ Cardinality(Stray) \in Nat
    BY <1>0, FS_CardinalityType DEF DebtBounded
  <1>5. /\ Overcharged' \subseteq Overcharged \union {<<i, charged[i] + 1>>}
        /\ charged[i] = 0 => Overcharged' \subseteq Overcharged
    BY <1>0, <1>1, <1>2, OneDebit
  <1>6. /\ IsFiniteSet(Overcharged') /\ Cardinality(Overcharged') \in Nat
        /\ Cardinality(Overcharged') <= Cardinality(Overcharged) + 1
        /\ charged[i] = 0 => Cardinality(Overcharged') <= Cardinality(Overcharged)
    BY <1>4, <1>5, OneMore, SmallerSet
  <1>7. RebillingFaults \in Nat
    BY <1>0, BoundStep
  <1>8. CASE BillCommits(r)
    <2>1. pc'[r] = "mark" /\ (NoFault \/ Fault("row"))
      BY <1>8, <1>c DEF BillCommits, RecordUsageEvent
    <2>2. RebillingFaults' = RebillingFaults
      BY <1>0, <2>1, BoundStep DEF FaultKinds
    <2>3. /\ Unguarded' \subseteq Unguarded \union {i}
          /\ charged[i] > 0 /\ owner # r => Unguarded' \subseteq Unguarded
          /\ charged[i] > 0 /\ owner = r => i \in Unguarded
          /\ owner = r => Unguarded' \subseteq Unguarded \ {i}
      BY <1>0, <1>1, <1>2, <2>1, UnguardedDebit DEF i
    <2>4. CASE owner = r
      <3>1. Stray' \subseteq Stray
        BY <1>0, <1>2, <2>4, StrayMove DEF TimedOut
      <3>2. /\ IsFiniteSet(Stray') /\ Cardinality(Stray') \in Nat
            /\ Cardinality(Stray') <= Cardinality(Stray)
        BY <1>4, <3>1, SmallerSet
      <3>3. CASE charged[i] = 0
        <4>1. /\ IsFiniteSet(Unguarded') /\ Cardinality(Unguarded') \in Nat
              /\ Cardinality(Unguarded') <= Cardinality(Unguarded)
          BY <1>4, <2>3, <2>4, SmallerSet
        <4>. QED  BY <1>0, <1>4, <1>6, <1>7, <2>2, <3>2, <3>3, <4>1 DEF DebtBounded
      <3>4. CASE charged[i] > 0
        <4>1. /\ IsFiniteSet(Unguarded') /\ Cardinality(Unguarded') \in Nat
              /\ Cardinality(Unguarded') + 1 <= Cardinality(Unguarded)
          BY <1>4, <2>3, <2>4, <3>4, OneLess
        <4>. QED  BY <1>0, <1>4, <1>6, <1>7, <2>2, <3>2, <4>1 DEF DebtBounded
      <3>. QED  BY <1>3, <3>3, <3>4
    <2>5. CASE owner # r
      <3>1. <<r, next[r]>> \in Stray /\ Stray' \subseteq Stray \ {<<r, next[r]>>}
        BY <1>0, <1>2, <2>1, <2>5, StrayDebit DEF TimedOut
      <3>2. /\ IsFiniteSet(Stray') /\ Cardinality(Stray') \in Nat
            /\ Cardinality(Stray') + 1 <= Cardinality(Stray)
        BY <1>4, <3>1, OneLess
      <3>3. /\ IsFiniteSet(Unguarded') /\ Cardinality(Unguarded') \in Nat
            /\ Cardinality(Unguarded') <= Cardinality(Unguarded) + 1
            /\ charged[i] > 0 => Cardinality(Unguarded') <= Cardinality(Unguarded)
        BY <1>4, <2>3, <2>5, OneMore, SmallerSet
      <3>. QED  BY <1>0, <1>3, <1>4, <1>6, <1>7, <2>2, <3>2, <3>3 DEF DebtBounded
    <2>. QED  BY <2>4, <2>5
  <1>9. CASE BillAmbiguous(r)
    <2>1. pc'[r] \in {"check", "commit"} /\ Fault("ambiguous")
      BY <1>9, <1>c DEF BillAmbiguous, HandlerRaised
    <2>2. RebillingFaults' = RebillingFaults + 1
      BY <1>0, <2>1, BoundStep DEF FaultKinds
    <2>3. /\ Unguarded' \subseteq Unguarded \union {i}
          /\ charged[i] > 0 /\ owner # r => Unguarded' \subseteq Unguarded
          /\ charged[i] > 0 /\ owner = r => i \in Unguarded
      BY <1>0, <1>1, <1>2, <2>1, UnguardedDebit DEF i
    <2>4. charged[i] > 0 => Unguarded' \subseteq Unguarded
      BY <2>3
    <2>5. /\ IsFiniteSet(Unguarded') /\ Cardinality(Unguarded') \in Nat
          /\ Cardinality(Unguarded') <= Cardinality(Unguarded) + 1
          /\ charged[i] > 0 => Cardinality(Unguarded') <= Cardinality(Unguarded)
      BY <1>4, <2>3, <2>4, OneMore, SmallerSet
    <2>6. next[r] \in Nat /\ FirstOpen(r) = next[r] /\ FirstOpen(r)' \in {next[r], next[r] + 1}
      BY <1>0, <1>2, <2>1 DEF FirstOpen, TypeInv, TypeOK
    <2>7. Stray' \subseteq Stray
      <3>1. FirstOpen(r)' >= FirstOpen(r) /\ Len(chunk'[r]) <= Len(chunk[r])
        BY <1>0, <1>2, <2>6 DEF TypeInv, TypeOK
      <3>. QED  BY <1>0, <1>2, <3>1, StrayMove DEF TimedOut
    <2>8. /\ IsFiniteSet(Stray') /\ Cardinality(Stray') \in Nat
          /\ Cardinality(Stray') <= Cardinality(Stray)
      BY <1>4, <2>7, SmallerSet
    <2>. QED  BY <1>0, <1>3, <1>4, <1>6, <1>7, <2>2, <2>5, <2>8 DEF DebtBounded
  <1>. QED  BY <1>8, <1>9

\* The steps of a replica that pass a message on, each with what it does to the
\* replica's place.
LEMMA LoopDebt ==
  ASSUME RebillInv, TypeInv', NEW r \in Replicas, Alone(r), Loop(r)
  PROVE  DebtBounded'
  <1>0. /\ TypeInv /\ DebtBounded /\ next[r] \in Nat \ {0} /\ chunk[r] \in Seq(Offsets)
        /\ Len(chunk[r]) \in Nat
    <2>1. TypeInv /\ DebtBounded
      BY DEF RebillInv
    <2>2. next[r] \in Nat \ {0} /\ chunk[r] \in Seq(Offsets)
      BY <2>1 DEF TypeInv, TypeOK
    <2>. QED  BY <2>1, <2>2
  <1>c. \A label : Goto(r, label) => pc'[r] = label
    BY <1>0 DEF Goto, TypeInv, TypeOK
  <1>1. CASE SkipRevoked(r)
    <2>1. /\ pc[r] = "loop" /\ pc'[r] \in {"loop", "poll"} /\ ~TimedOut(r)' /\ owner' = owner
          /\ charged' = charged /\ billed' = billed /\ NoFault
      BY <1>c, <1>1 DEF SkipRevoked, Advance, TimedOut, broker, database, redis
    <2>. QED  BY <2>1, MoveOn
  <1>2. CASE AbandonChunk(r)
    <2>1. /\ pc[r] = "loop" /\ pc'[r] = "poll" /\ owner' = owner /\ assigned' = assigned
          /\ charged' = charged /\ billed' = billed /\ Fault("slow") /\ Len(chunk'[r]) = 0
      BY <1>0, <1>c, <1>2 DEF AbandonChunk, broker, database, redis, TypeInv, TypeOK
    <2>2. TimedOut(r)' => TimedOut(r)
      BY <2>1 DEF TimedOut
    <2>3. Stray' \subseteq Stray
      <3>. SUFFICES ASSUME NEW m \in Stray' PROVE m \in Stray
        OBVIOUS
      <3>1. /\ m \in Replicas \X (1..BatchSize) /\ m[1] \in Replicas /\ m[2] \in 1..BatchSize
            /\ TimedOut(m[1])' /\ FirstOpen(m[1])' <= m[2] /\ m[2] <= Len(chunk'[m[1]])
        BY DEF Stray
      <3>2. m[1] # r
        BY <2>1, <3>1, BatchAssumption
      <3>. QED  BY <2>1, <3>1, <3>2, AloneFacts DEF Stray, Alone, TimedOut
    <2>4. Unguarded' \subseteq Unguarded
      BY <2>1, UnguardedMove
    <2>. QED  BY <1>0, <2>1, <2>3, <2>4, NoNewDebt DEF FaultKinds
  <1>3. ASSUME pc[r] \notin {"down", "poll", "mark", "bill"}, pc'[r] \notin {"poll", "bill", "mark"},
               pc[r] \in {"notify", "commit"} => pc'[r] \in {"notify", "commit"},
               owner' = owner, assigned' = assigned, charged' = charged, billed' = billed,
               chunk' = chunk, next' = next, NoFault \/ \E k \in FaultKinds : Fault(k)
        PROVE  DebtBounded'
    <2>1. FirstOpen(r)' >= FirstOpen(r) /\ Len(chunk'[r]) <= Len(chunk[r])
      BY <1>0, <1>3 DEF FirstOpen
    <2>. QED  BY <1>3, <2>1, MoveOn DEF TimedOut
  <1>4. CASE Begin(r)
    <2>1. /\ pc[r] = "loop" /\ pc'[r] = "check"
          /\ owner' = owner /\ assigned' = assigned /\ charged' = charged /\ billed' = billed
          /\ chunk' = chunk /\ next' = next /\ NoFault
      BY <1>c, <1>4 DEF Begin, broker, database, redis
    <2>. QED  BY <1>3, <2>1
  <1>5. CASE IgnoreSpan(r) \/ CountRequest(r) \/ CheckFails(r)
    <2>1. /\ pc[r] = "check" /\ pc'[r] \in {"commit", "request"}
          /\ owner' = owner /\ assigned' = assigned /\ charged' = charged /\ billed' = billed
          /\ chunk' = chunk /\ next' = next /\ (NoFault \/ Fault("check"))
      BY <1>c, <1>5 DEF IgnoreSpan, CountRequest, CheckFails, Dispatch, broker, control, database, redis
    <2>. QED  BY <1>3, <2>1 DEF FaultKinds
  <1>6. CASE CheckBilled(r)
    <2>1. /\ pc[r] = "check" /\ pc'[r] \in {"commit", "bill"}
          /\ pc'[r] = "bill" => Span(r).id \notin billed
          /\ owner' = owner /\ assigned' = assigned /\ charged' = charged /\ billed' = billed
          /\ chunk' = chunk /\ next' = next /\ NoFault
      BY <1>c, <1>6 DEF CheckBilled, Dispatch, broker, control, database, redis
    <2>2. Span(r)' = Span(r)
      BY <2>1 DEF Span, InHand
    <2>3. FirstOpen(r)' >= FirstOpen(r) /\ Len(chunk'[r]) <= Len(chunk[r])
      BY <1>0, <2>1 DEF FirstOpen
    <2>. QED  BY <2>1, <2>2, <2>3, MoveOn DEF TimedOut
  <1>7. CASE BillSkips(r) \/ BillFails(r) \/ RequestFails(r)
    <2>1. /\ pc[r] \in {"bill", "request"} /\ pc'[r] \in {"check", "commit"}
          /\ owner' = owner /\ assigned' = assigned /\ charged' = charged /\ billed' = billed
          /\ chunk' = chunk /\ next' = next /\ (NoFault \/ Fault("db"))
      BY <1>c, <1>7
      DEF BillSkips, BillFails, RequestFails, HandlerRaised, Dispatch, broker, control, database, redis
    <2>2. FirstOpen(r)' >= FirstOpen(r) /\ Len(chunk'[r]) <= Len(chunk[r])
      BY <1>0, <2>1 DEF FirstOpen
    <2>. QED  BY <2>1, <2>2, MoveOn DEF TimedOut, FaultKinds
  <1>8. CASE NotifyAuth(r) \/ RequestRecorded(r)
    <2>1. /\ pc[r] \in {"notify", "request"} /\ pc'[r] = "commit"
          /\ owner' = owner /\ assigned' = assigned /\ charged' = charged /\ billed' = billed
          /\ chunk' = chunk /\ next' = next /\ (NoFault \/ Fault("notify") \/ Fault("row"))
      BY <1>c, <1>8
      DEF NotifyAuth, RequestRecorded, RecordUsageEvent, broker, control, database, redis
    <2>. QED  BY <1>3, <2>1 DEF FaultKinds
  <1>9. CASE MarkBilled(r)
    <2>1. /\ pc[r] = "mark" /\ pc'[r] = "notify"
          /\ owner' = owner /\ assigned' = assigned /\ charged' = charged /\ billed \subseteq billed'
          /\ chunk' = chunk /\ next' = next
          /\ \/ Span(r).id \in billed' /\ NoFault
             \/ billed' = billed /\ Fault("set")
      BY <1>c, <1>9 DEF MarkBilled, broker, control, database
    <2>2. FirstOpen(r)' >= FirstOpen(r) /\ Len(chunk'[r]) <= Len(chunk[r])
      BY <1>0, <2>1 DEF FirstOpen
    <2>3. CASE owner # r \/ Span(r).id \in billed'
      BY <2>1, <2>2, <2>3, MoveOn DEF TimedOut, FaultKinds
    <2>4. CASE owner = r /\ Span(r).id \notin billed'
      <3>1. Unguarded' \subseteq Unguarded \union {Span(owner).id}
        BY <2>1, <2>4, UnguardedLeft
      <3>2. Stray' \subseteq Stray
        BY <1>0, <2>1, <2>2, StrayMove DEF TimedOut
      <3>. QED  BY <1>0, <2>1, <2>4, <3>1, <3>2, OneLetGo
    <2>. QED  BY <2>3, <2>4
  <1>10. CASE Commit(r)
    <2>1. /\ pc[r] = "commit" /\ pc'[r] \in {"loop", "poll"}
          /\ owner' = owner /\ assigned' = assigned /\ charged' = charged /\ billed' = billed
          /\ NoFault
      BY <1>c, <1>10 DEF Commit, Advance, database, redis
    <2>2. Unguarded' \subseteq Unguarded
      BY <2>1, UnguardedMove
    <2>3. CASE next[r] < Len(chunk[r])
      <3>1. pc'[r] = "loop" /\ next'[r] = next[r] + 1 /\ chunk' = chunk
        BY <1>0, <1>c, <1>10, <2>3 DEF Commit, Advance, TypeInv, TypeOK
      <3>2. FirstOpen(r)' >= FirstOpen(r) /\ Len(chunk'[r]) <= Len(chunk[r])
        BY <1>0, <2>1, <3>1 DEF FirstOpen
      <3>. QED  BY <2>1, <3>1, <3>2, MoveOn DEF TimedOut
    <2>4. CASE ~(next[r] < Len(chunk[r]))
      <3>1. Len(chunk'[r]) = 0
        BY <1>0, <1>10, <2>4 DEF Commit, Advance, TypeInv, TypeOK
      <3>2. Stray' \subseteq Stray
        <4>. SUFFICES ASSUME NEW m \in Stray' PROVE m \in Stray
          OBVIOUS
        <4>1. /\ m \in Replicas \X (1..BatchSize) /\ m[1] \in Replicas /\ m[2] \in 1..BatchSize
              /\ TimedOut(m[1])' /\ FirstOpen(m[1])' <= m[2] /\ m[2] <= Len(chunk'[m[1]])
          BY DEF Stray
        <4>2. m[1] # r
          BY <3>1, <4>1, BatchAssumption
        <4>. QED  BY <2>1, <4>1, <4>2, AloneFacts DEF Stray, Alone, TimedOut
      <3>. QED  BY <1>0, <2>1, <2>2, <3>2, NoNewDebt
    <2>. QED  BY <2>3, <2>4
  <1>11. CASE BillCommits(r) \/ BillAmbiguous(r)
    BY <1>11, DebitDebt
  <1>. QED
    BY <1>1, <1>2, <1>4, <1>5, <1>6, <1>7, <1>8, <1>9, <1>10, <1>11 DEF Loop, Handle

\* Starting, fetching, rebalancing and dying.
LEMMA PollDebt ==
  ASSUME RebillInv, TypeInv', NEW r \in Replicas, Alone(r), Start(r) \/ Poll(r) \/ Disturb(r)
  PROVE  DebtBounded'
  <1>0. TypeInv /\ next[r] \in Nat \ {0} /\ Len(chunk[r]) \in Nat
    <2>1. TypeInv
      BY DEF RebillInv
    <2>2. next[r] \in Nat \ {0} /\ chunk[r] \in Seq(Offsets)
      BY <2>1 DEF TypeInv, TypeOK
    <2>. QED  BY <2>1, <2>2
  <1>c. \A label : Goto(r, label) => pc'[r] = label
    BY <1>0 DEF Goto, TypeInv, TypeOK
  <1>1. CASE Start(r) \/ OnLost(r) \/ Collect(r)
    <2>1. /\ pc[r] \in {"down", "poll"} /\ pc'[r] = "poll" /\ owner' = owner
          /\ charged' = charged /\ billed' = billed /\ NoFault
      BY <1>c, <1>1 DEF Start, OnLost, Collect, Consuming, broker, database, redis
    <2>2. ~TimedOut(r)'
      <3>1. CASE Start(r)
        BY <1>0, <3>1 DEF Start, TimedOut, TypeInv, InHandOK, control
      <3>2. CASE OnLost(r)
        BY <1>0, <3>2 DEF OnLost, TimedOut, TypeInv, TypeOK
      <3>3. CASE Collect(r)
        BY <3>3 DEF Collect, TimedOut, broker
      <3>. QED  BY <1>1, <3>1, <3>2, <3>3
    <2>. QED  BY <2>1, <2>2, MoveOn
  <1>2. CASE Return(r)
    <2>1. /\ pc[r] = "poll" /\ pc'[r] \in {"poll", "loop"} /\ owner' = owner /\ next'[r] = 1
          /\ charged' = charged /\ billed' = billed /\ NoFault /\ chunk' = chunk /\ assigned' = assigned
      BY <1>0, <1>c, <1>2 DEF Return, broker, database, redis, TypeInv, TypeOK
    <2>2. FirstOpen(r)' >= FirstOpen(r) /\ Len(chunk'[r]) <= Len(chunk[r])
      BY <1>0, <2>1 DEF FirstOpen
    <2>. QED  BY <2>1, <2>2, MoveOn DEF TimedOut
  <1>3. CASE TimeOut(r)
    BY <1>3, TimeOutDebt
  <1>4. CASE OnAssign(r) \/ OnRevoke(r)
    BY <1>4, HandOver
  <1>5. CASE Crash(r) \/ Stop(r)
    <2>1. CASE owner = r
      BY <1>5, <2>1, HandOver
    <2>2. CASE owner # r
      <3>1. /\ owner' = owner /\ charged' = charged /\ billed' = billed /\ ~TimedOut(r)'
            /\ Fault("crash") \/ Fault("stop")
        BY <1>0, <1>5, <2>2 DEF Crash, Stop, Leave, TimedOut, database, redis, TypeInv, TypeOK
      <3>. QED  BY <2>2, <3>1, MoveOn DEF FaultKinds
    <2>. QED  BY <2>1, <2>2
  <1>. QED  BY <1>1, <1>2, <1>3, <1>4, <1>5 DEF Poll, Disturb

\* A dedup key that goes lets its span go.
LEMMA ExpireDebt ==
  ASSUME RebillInv, NEW i \in Ids, Expire(i)
  PROVE  DebtBounded'
  <1>1. /\ owner' = owner /\ pc' = pc /\ UNCHANGED control /\ charged' = charged
        /\ billed' = billed \ {i} /\ Fault("expire")
    BY DEF Expire, broker, database
  <1>2. Stray' = Stray
    BY <1>1 DEF Stray, TimedOut, FirstOpen, control
  <1>3. \A l, j : OwnerAt(l, j)' <=> OwnerAt(l, j)
    BY <1>1 DEF OwnerAt, Span, InHand, control
  <1>4. Unguarded' \subseteq Unguarded \union {i}
    BY <1>1, <1>3 DEF Unguarded
  <1>. QED  BY <1>1, <1>2, <1>4, OneLetGo DEF RebillInv

\* Chunks stay within KAFKA_BATCH_SIZE.
LEMMA ChunkBoundStep ==
  ASSUME RebillInv, TypeInv', NEW r \in Replicas, Alone(r), Run(r) \/ Disturb(r)
  PROVE  ChunkBounded' /\ OwnerKnows'
  <1>0. /\ TypeInv /\ chunk[r] \in Seq(Offsets) /\ Len(chunk[r]) \in Nat /\ Len(chunk[r]) <= BatchSize
        /\ BatchSize \in Nat \ {0} /\ NoReplica \notin Replicas
    <2>1. TypeInv /\ Len(chunk[r]) <= BatchSize
      BY DEF RebillInv, ChunkBounded
    <2>2. chunk[r] \in Seq(Offsets)
      BY <2>1 DEF TypeInv, TypeOK
    <2>. QED  BY <2>1, <2>2, BatchAssumption, ReplicasAssumption
  <1>1. Len(chunk'[r]) <= BatchSize
    <2>1. CASE Collect(r)
      <3>1. chunk'[r] = Append(chunk[r], position[r]) /\ Len(chunk[r]) < BatchSize
        BY <1>0, <2>1 DEF Collect, Consuming, TypeInv, TypeOK
      <3>2. Len(chunk'[r]) = Len(chunk[r]) + 1
        BY <1>0, <3>1
      <3>. QED  BY <1>0, <3>1, <3>2
    <2>2. CASE ~Collect(r)
      <3>1. chunk'[r] = chunk[r] \/ chunk'[r] = <<>>
        <4>. USE DEF TypeInv, TypeOK, control
        <4>1. CASE Start(r) \/ Poll(r) \/ OnRevoke(r) \/ TimeOut(r)
          BY <2>2, <4>1 DEF Start, Poll, OnAssign, OnLost, Return, OnRevoke, TimeOut
        <4>2. CASE Crash(r) \/ Stop(r)
          BY <1>0, <4>2 DEF Crash, Stop, Leave
        <4>3. CASE SkipRevoked(r) \/ Commit(r) \/ AbandonChunk(r) \/ Begin(r)
          BY <1>0, <4>3 DEF SkipRevoked, Commit, Advance, AbandonChunk, Begin
        <4>4. CASE Handle(r)
          BY <4>4
          DEF Handle, IgnoreSpan, CountRequest, CheckBilled, CheckFails, BillSkips, Dispatch, BillFails,
              RequestFails, BillAmbiguous, BillCommits, MarkBilled, NotifyAuth, RequestRecorded
        <4>. QED  BY <4>1, <4>2, <4>3, <4>4 DEF Run, Disturb, Loop
      <3>. QED  BY <1>0, <3>1
    <2>. QED  BY <2>1, <2>2
  <1>2. ChunkBounded'
    BY <1>1 DEF ChunkBounded, Alone, RebillInv
  <1>3. \/ owner' = owner /\ assigned'[r] = assigned[r]
        \/ owner' = r /\ assigned'[r]
        \/ owner' = NoReplica
        \/ owner' = owner /\ owner # r
    <2>. USE DEF TypeInv, TypeOK, control, broker
    <2>1. CASE Start(r) \/ Poll(r) \/ OnRevoke(r) \/ TimeOut(r)
      BY <1>0, <2>1 DEF Start, Poll, OnAssign, OnLost, Collect, Return, OnRevoke, TimeOut
    <2>2. CASE Crash(r) \/ Stop(r)
      BY <2>2 DEF Crash, Stop, Leave
    <2>3. CASE SkipRevoked(r) \/ Commit(r) \/ AbandonChunk(r) \/ Begin(r)
      BY <2>3 DEF SkipRevoked, Commit, AbandonChunk, Begin
    <2>4. CASE Handle(r)
      BY <2>4
      DEF Handle, IgnoreSpan, CountRequest, CheckBilled, CheckFails, BillSkips, Dispatch, BillFails,
          RequestFails, BillAmbiguous, BillCommits, MarkBilled, NotifyAuth, RequestRecorded
    <2>. QED  BY <2>1, <2>2, <2>3, <2>4 DEF Run, Disturb, Loop
  <1>4. OwnerKnows'
    BY <1>0, <1>3 DEF OwnerKnows, Alone, RebillInv
  <1>. QED  BY <1>2, <1>4

\* Every step of the system keeps the debts covered.
LEMMA RebillStep == RebillInv /\ [Next]_vars => RebillInv'
  <1>. SUFFICES ASSUME RebillInv, [Next]_vars PROVE RebillInv'
    OBVIOUS
  <1>1. TypeInv /\ TypeInv'
    BY TypeStep DEF RebillInv
  <1>2. ASSUME NEW r \in Replicas, Run(r) \/ Disturb(r) PROVE RebillInv'
    <2>1. Alone(r)
      BY <1>1, <1>2, OthersUntouched DEF Alone
    <2>2. DebtBounded'
      BY <1>1, <1>2, <2>1, LoopDebt, PollDebt DEF Run
    <2>. QED  BY <1>1, <1>2, <2>1, <2>2, ChunkBoundStep DEF RebillInv
  <1>3. ASSUME NEW i \in Ids, Expire(i) PROVE RebillInv'
    <2>1. UNCHANGED <<owner, assigned, chunk>>
      BY <1>3 DEF Expire, broker, control
    <2>. QED  BY <1>1, <1>3, <2>1, ExpireDebt DEF RebillInv, ChunkBounded, OwnerKnows
  <1>4. CASE UNCHANGED vars
    <2>1. /\ UNCHANGED <<owner, pc, assigned, chunk, next, charged, billed, faults>>
      BY <1>4 DEF vars, broker, control, database, redis
    <2>2. Stray' = Stray
      BY <2>1 DEF Stray, TimedOut, FirstOpen
    <2>3. Unguarded' = Unguarded
      BY <2>1 DEF Unguarded, OwnerAt, Span, InHand
    <2>4. DebtBounded'
      BY <1>1, <2>1, <2>2, <2>3, NoNewDebt DEF RebillInv, NoFault
    <2>. QED  BY <1>1, <2>1, <2>4 DEF RebillInv, ChunkBounded, OwnerKnows
  <1>. QED  BY <1>2, <1>3, <1>4 DEF Next

\* However crashes, lost partitions, rebalances, retries, failing calls, expiring dedup
\* keys and duplicate deliveries interleave, for any log, any number of replicas and
\* any chunk size: spans are charged again at most once per crash, failed or expired
\* dedup key and unacknowledged commit, and BatchSize times per lost partition.
THEOREM OverchargeBoundedAlways == Spec => []OverchargeBounded
  <1>1. Init => RebillInv
    <2>. SUFFICES ASSUME Init PROVE RebillInv
      OBVIOUS
    <2>1. TypeInv
      BY TypeInitial
    <2>2. Overcharged = {} /\ Unguarded = {} /\ Stray = {}
      <3>1. Overcharged = {}
        BY DEF Init, Overcharged
      <3>2. Unguarded = {}
        BY DEF Init, Unguarded
      <3>3. Stray = {}
        BY DEF Init, Stray, TimedOut
      <3>. QED  BY <3>1, <3>2, <3>3
    <2>3. IsFiniteSet({}) /\ Cardinality({}) = 0
      BY FS_EmptySet
    <2>4. RebillingFaults \in Nat
      BY <2>1, BoundStep
    <2>5. DebtBounded
      BY <2>2, <2>3, <2>4 DEF DebtBounded
    <2>6. ChunkBounded /\ OwnerKnows
      BY BatchAssumption, ReplicasAssumption DEF Init, ChunkBounded, OwnerKnows
    <2>. QED  BY <2>1, <2>5, <2>6 DEF RebillInv
  <1>2. RebillInv => OverchargeBounded
    <2>. SUFFICES ASSUME RebillInv PROVE OverchargeBounded
      OBVIOUS
    <2>1. /\ Cardinality(Overcharged) \in Nat /\ Cardinality(Unguarded) \in Nat
          /\ Cardinality(Stray) \in Nat /\ RebillingFaults \in Nat
      BY BoundStep, FS_CardinalityType DEF RebillInv, DebtBounded
    <2>. QED  BY <2>1 DEF RebillInv, DebtBounded, OverchargeBounded
  <1>. QED  BY <1>1, <1>2, RebillStep, PTL DEF Spec
===============================================================================
