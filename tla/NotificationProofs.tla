------------------------- MODULE NotificationProofs -------------------------
(***************************************************************************)
(* Proofs about NotificationDelivery: how often a recipient may get the    *)
(* mail of an event, how many events can be lost and that failure rows are *)
(* true, for any log, any number of replicas, any batch size and any       *)
(* faults.                                                                 *)
(***************************************************************************)
EXTENDS NotificationDelivery, FiniteSetTheorems, TLAPS

-----------------------------------------------------------------------------
(* Types                                                                    *)

TypeOK ==
    /\ owner \in Replicas \cup {NoReplica} /\ committed \in 1 .. Len(Log) + 1
    /\ pc \in [Replicas -> PCs] /\ chunk \in [Replicas -> Seq(Offsets)]
    /\ open \in [Replicas -> SUBSET Recipients] /\ reached \in [Replicas -> BOOLEAN]
    /\ claims \subseteq Ids /\ mailed \in [Events \X Recipients -> Nat]
    /\ rows \subseteq Offsets /\ logged \subseteq Offsets
    /\ faults \in [FaultKinds -> Nat]

\* A replica at work has a message in hand, with an event_id where it claims.
Hands ==
    /\ \A r \in Replicas : pc[r] \notin {"down", "poll"} => chunk[r] # <<>>
    /\ \A r \in Replicas : pc[r] = "claim" => Message(r).json /\ Message(r).id # NoId
    /\ \A r \in Replicas : open[r] # {} => pc[r] = "send"

\* The owner works through the partition from the committed offset on.
InOrder ==
    /\ \A r \in Replicas : \A i \in DOMAIN chunk[r] : chunk[r][i] = chunk[r][1] + i - 1
    /\ \A r \in Replicas : owner = r /\ pc[r] \notin {"down", "poll"} => InHand(r) = committed
    /\ \A r \in Replicas : owner = r => pc[r] # "down"

LoopInv == TypeOK /\ Hands /\ InOrder

Identified(o) == Log[o].json /\ Log[o].id # NoId

\* A replica that has reached somebody is still sending or about to commit.
ReachedInv ==
    \A r \in Replicas : reached[r] =>
      /\ pc[r] \in {"send", "commit"}
      /\ \E a \in Recipients : mailed[<<EventInHand(r), a>>] > 0

\* Sends of the event of o to a that are outstanding.
Pending(o, a) == {r \in Replicas : a \in open[r] /\ InHand(r) \in Deliveries(o)}

\* What is left of the right to start sending the event of o.
Grant(o) == IF Log[o].id \in claims THEN 0 ELSE 1

\* A mail that was sent, one that may still be and a claim that can still be granted
\* are covered by the first claim, the failed ones and the expired ones.
Covered ==
    \A o \in Offsets : \A a \in Recipients : Identified(o) =>
      /\ IsFiniteSet(Pending(o, a))
      /\ Mails(o, a) + Cardinality(Pending(o, a)) + Grant(o)
           <= 1 + faults["claim"] + faults["expire"]

\* The group has moved past o, or its claim makes the next replica do so, or one is
\* about to.
Past(o) ==
    \/ o < committed
    \/ Identified(o) /\ Log[o].id \in claims
    \/ \E r \in Replicas : pc[r] = "commit" /\ InHand(r) = o

\* Nobody was told about o, nobody is going to be.
Forgotten == {o \in Offsets : Past(o) /\ ~Handled(o) /\ ~AtWork(o)}
Adrift == {Deliveries(o) : o \in Forgotten}

AdriftBounded == Cardinality(Adrift) <= faults["crash"]

\* No mail arrived after its deadline and no claim failed or was lost.
Clean == faults["late"] + faults["claim"] + faults["expire"] = 0

\* Replica r is sending or recording the identified event in its hand.
Holds(r) == pc[r] \in {"send", "record"} /\ Identified(InHand(r))

\* Nothing says that the event failed, and nobody got its mail.
NoRows(o) == Deliveries(o) \cap (rows \cup logged) = {}
NoMail(o) == \A a \in Recipients : Mails(o, a) = 0

\* While no claim fails or is lost, one replica handles an event, once.
ClaimedOnce ==
    /\ \A r \in Replicas : Holds(r) =>
         /\ Message(r).id \in claims /\ NoRows(InHand(r))
         /\ ~reached[r] => NoMail(InHand(r))
    /\ \A r, u \in Replicas :
         Holds(r) /\ Holds(u) /\ Message(r).id = Message(u).id => r = u
    /\ \A o \in Offsets : Identified(o) /\ Log[o].id \notin claims => NoRows(o) /\ NoMail(o)
    /\ \A o \in rows \cup logged : Identified(o) => NoMail(o)

OnceInv == Clean => ClaimedOnce

DeliveryInv == LoopInv /\ ReachedInv /\ Covered /\ AdriftBounded /\ OnceInv

-----------------------------------------------------------------------------
(* The log                                                                  *)

\* Messages of the log.
LEMMA LogFacts ==
    ASSUME NEW o \in Offsets
    PROVE  /\ Log[o].json \in BOOLEAN /\ Log[o].to \subseteq Recipients
           /\ Log[o].id # NoId => Log[o].id \in Ids
  <1>1. Log[o] \in Messages
    BY DeliveryLog DEF Offsets
  <1> QED BY <1>1 DEF Messages, Recipients, Ids

\* An offset is one of the deliveries of its event, which all share their event.
LEMMA EventFacts ==
    ASSUME NEW o \in Offsets
    PROVE  /\ Deliveries(o) \in Events /\ o \in Deliveries(o) /\ Deliveries(o) \subseteq Offsets
           /\ \A q \in Deliveries(o) : Deliveries(q) = Deliveries(o) /\ (Identified(q) <=> Identified(o))
           /\ Identified(o) => \A q \in Offsets : q \in Deliveries(o) <=> Identified(q) /\ Log[q].id = Log[o].id
  <1>1. Deliveries(o) \in Events /\ o \in Deliveries(o) /\ Deliveries(o) \subseteq Offsets
    BY DEF Events, Deliveries
  <1>2. Identified(o) => \A q \in Offsets : q \in Deliveries(o) <=> Identified(q) /\ Log[q].id = Log[o].id
    BY DEF Deliveries, Identified
  <1>3. ASSUME NEW q \in Deliveries(o) PROVE Deliveries(q) = Deliveries(o) /\ (Identified(q) <=> Identified(o))
    BY <1>3 DEF Deliveries, Identified
  <1> QED BY <1>1, <1>2, <1>3

\* The message in hand is one of the log.
LEMMA InHandFacts ==
    ASSUME LoopInv, NEW r \in Replicas, pc[r] \notin {"down", "poll"}
    PROVE  InHand(r) \in Offsets /\ EventInHand(r) \in Events /\ Len(chunk[r]) > 0
  <1>1. chunk[r] \in Seq(Offsets) /\ chunk[r] # <<>>
    BY DEF LoopInv, TypeOK, Hands
  <1>2. Len(chunk[r]) > 0 /\ chunk[r][1] \in Offsets
    BY <1>1
  <1> QED BY <1>2, EventFacts DEF InHand, EventInHand

\* A fault is counted.
LEMMA FaultFacts ==
    ASSUME TypeOK, NEW k \in FaultKinds, Fault(k)
    PROVE  /\ faults' = [faults EXCEPT ![k] = @ + 1] /\ faults' \in [FaultKinds -> Nat]
           /\ faults'[k] = faults[k] + 1 /\ \A j \in FaultKinds \ {k} : faults'[j] = faults[j]
  <1>1. faults' = [faults EXCEPT ![k] = @ + 1]
    BY DEF Fault
  <1> QED BY <1>1 DEF TypeOK

-----------------------------------------------------------------------------
(* What each step of a replica does                                         *)

\* The other replicas stay as they are.
Others(r) ==
    \A u \in Replicas \ {r} : /\ pc'[u] = pc[u] /\ chunk'[u] = chunk[u]
                              /\ open'[u] = open[u] /\ reached'[u] = reached[u]

\* Where replica r goes with its chunk.
Moves(r, label) == pc'[r] = label /\ pc' \in [Replicas -> PCs] /\ Others(r)

\* StartSends: the sends of the message in hand begin.
LEMMA StartSendsFacts ==
    ASSUME LoopInv, NEW r \in Replicas, pc[r] \notin {"down", "poll"}, StartSends(r)
    PROVE  /\ Moves(r, "send") /\ UNCHANGED <<owner, committed, chunk, reached, mailed, rows, logged>>
           /\ open'[r] \subseteq Message(r).to /\ open' \in [Replicas -> SUBSET Recipients]
  <1>1. InHand(r) \in Offsets
    BY InHandFacts
  <1>2. Message(r).to \subseteq Recipients
    BY <1>1, LogFacts DEF Message
  <1> QED BY <1>2 DEF StartSends, Goto, Moves, Others, LoopInv, TypeOK, PCs, broker, results

\* Advance: the next message of the chunk, or the next fetch.
LEMMA AdvanceFacts ==
    ASSUME LoopInv, NEW r \in Replicas, pc[r] \notin {"down", "poll"}, Advance(r)
    PROVE  /\ pc' \in [Replicas -> PCs] /\ Others(r) /\ open'[r] = {} /\ reached'[r] = FALSE
           /\ chunk' \in [Replicas -> Seq(Offsets)] /\ chunk'[r] = Tail(chunk[r])
           /\ open' \in [Replicas -> SUBSET Recipients] /\ reached' \in [Replicas -> BOOLEAN]
           /\ \/ pc'[r] = "poll" /\ chunk'[r] = <<>>
              \/ pc'[r] = "loop" /\ chunk'[r] # <<>> /\ InHand(r)' = InHand(r) + 1
           /\ \A i \in DOMAIN chunk'[r] : chunk'[r][i] = chunk'[r][1] + i - 1
  <1>1. chunk[r] \in Seq(Offsets) /\ Len(chunk[r]) > 0
    BY InHandFacts DEF LoopInv, TypeOK
  <1>2. Tail(chunk[r]) \in Seq(Offsets)
    BY <1>1
  <1>3. /\ pc' \in [Replicas -> PCs] /\ Others(r) /\ open'[r] = {} /\ reached'[r] = FALSE
        /\ chunk' \in [Replicas -> Seq(Offsets)] /\ chunk'[r] = Tail(chunk[r])
        /\ open' \in [Replicas -> SUBSET Recipients] /\ reached' \in [Replicas -> BOOLEAN]
        /\ pc'[r] = IF Len(chunk[r]) = 1 THEN "poll" ELSE "loop"
    BY <1>2 DEF Advance, Goto, Others, LoopInv, TypeOK, PCs
  <1>4. /\ Len(Tail(chunk[r])) = Len(chunk[r]) - 1
        /\ \A i \in 1 .. Len(chunk[r]) - 1 : Tail(chunk[r])[i] = chunk[r][i + 1]
    BY <1>1
  <1>5. \A i \in 1 .. Len(chunk[r]) : chunk[r][i] = chunk[r][1] + i - 1
    BY <1>1 DEF LoopInv, InOrder
  <1>6. chunk[r][1] \in Nat
    BY <1>1 DEF Offsets
  <1>7. \A i \in 1 .. Len(chunk[r]) - 1 : Tail(chunk[r])[i] = chunk[r][1] + i
    <2>1. SUFFICES ASSUME NEW i \in 1 .. Len(chunk[r]) - 1 PROVE Tail(chunk[r])[i] = chunk[r][1] + i
      OBVIOUS
    <2>2. PICK n \in Nat : n = Len(chunk[r])
      BY <1>1
    <2>3. i \in 1 .. n - 1 /\ n \in Nat
      BY <2>1, <2>2
    <2>4. i + 1 \in 1 .. n /\ i \in Nat
      BY <2>3
    <2>5. Tail(chunk[r])[i] = chunk[r][i + 1] /\ chunk[r][i + 1] = chunk[r][1] + (i + 1) - 1
      BY <1>4, <1>5, <2>2, <2>3, <2>4
    <2> QED BY <1>6, <2>4, <2>5
  <1>8. CASE Len(chunk[r]) = 1
    <2>1. Len(Tail(chunk[r])) = 0
      BY <1>4, <1>8
    <2>2. Tail(chunk[r]) = <<>>
      <3>1. PICK t \in Seq(Offsets) : t = Tail(chunk[r])
        BY <1>2
      <3>2. t = <<>>
        BY <2>1, <3>1
      <3> QED BY <3>1, <3>2
    <2>3. DOMAIN Tail(chunk[r]) = {}
      BY <2>2
    <2> QED BY <1>3, <1>8, <2>2, <2>3
  <1>9. CASE Len(chunk[r]) # 1
    <2>0. Len(chunk[r]) \in Nat /\ Len(chunk[r]) > 1 /\ 1 \in 1 .. Len(chunk[r]) - 1
      <3>1. PICK n \in Nat : n = Len(chunk[r])
        BY <1>1
      <3>2. n \in Nat /\ n # 1 /\ n > 0
        BY <1>1, <1>9, <3>1
      <3>3. n > 1
        BY <3>2
      <3>4. 1 \in 1 .. n - 1
        BY <3>2, <3>3
      <3> QED BY <3>1, <3>3, <3>4
    <2>1. Len(Tail(chunk[r])) > 0 /\ Tail(chunk[r])[1] = chunk[r][1] + 1
      BY <1>4, <1>7, <2>0
    <2>2. \A i \in DOMAIN chunk'[r] : chunk'[r][i] = chunk'[r][1] + i - 1
      <3>1. DOMAIN chunk'[r] = 1 .. Len(chunk[r]) - 1
        BY <1>2, <1>3, <1>4
      <3>2. PICK n \in Nat : n = chunk[r][1]
        BY <1>6
      <3>3. \A i \in 1 .. Len(chunk[r]) - 1 : n + i = (n + 1) + i - 1
        BY <2>0, <3>2
      <3> QED BY <1>3, <1>7, <2>1, <3>1, <3>2, <3>3
    <2> QED BY <1>2, <1>3, <1>9, <2>1, <2>2 DEF InHand
  <1> QED BY <1>8, <1>9

-----------------------------------------------------------------------------
(* Every step, as the proofs see it                                         *)

\* A step of replica r at its message, or around it.
Quietly == UNCHANGED <<mailed, rows, logged>>
SameGroup == UNCHANGED <<owner, committed>>
Stays(r) == UNCHANGED <<chunk, open, reached>>

\* Claims and sends start; a claim is granted when it is new, or when Redis fails.
Granted(r) ==
    /\ pc[r] \in {"loop", "claim"} /\ Moves(r, "send") /\ SameGroup /\ Quietly
    /\ UNCHANGED <<chunk, reached>>
    /\ open'[r] \subseteq Recipients /\ open' \in [Replicas -> SUBSET Recipients]
    /\ \/ pc[r] = "loop" /\ ~Identified(InHand(r)) /\ UNCHANGED <<claims, faults>>
       \/ /\ pc[r] = "claim" /\ Message(r).id \notin claims
          /\ claims' = claims \cup {Message(r).id} /\ UNCHANGED faults
       \/ pc[r] = "claim" /\ Fault("claim") /\ claims' \in {claims, claims \cup {Message(r).id}}

\* The sends are decided: confirmed, failed, or late.
Resolved(r, a) ==
    /\ pc[r] = "send" /\ a \in open[r] /\ a \in Recipients
    /\ open' = [open EXCEPT ![r] = @ \ {a}]
    /\ UNCHANGED <<owner, committed, pc, chunk, claims, rows, logged>>
    /\ \/ /\ mailed' = [mailed EXCEPT ![<<EventInHand(r), a>>] = @ + 1]
          /\ reached' = [reached EXCEPT ![r] = TRUE] /\ UNCHANGED faults
       \/ Fault("smtp") /\ UNCHANGED <<mailed, reached>>
       \/ /\ Fault("late") /\ mailed' = [mailed EXCEPT ![<<EventInHand(r), a>>] = @ + 1]
          /\ UNCHANGED reached

\* The loop goes on without a send, a claim or a row: to claim or record what it has
\* taken, to commit what was claimed before, or with what the sends have given.
GoesOn(r) ==
    /\ SameGroup /\ Quietly /\ Stays(r) /\ UNCHANGED <<claims, faults>>
    /\ \/ pc[r] = "down" /\ Moves(r, "poll")
       \/ pc[r] = "loop" /\ Identified(InHand(r)) /\ Moves(r, "claim")
       \/ pc[r] = "loop" /\ ~Identified(InHand(r)) /\ Moves(r, "record")
       \/ pc[r] = "claim" /\ Message(r).id \in claims /\ Moves(r, "commit")
       \/ pc[r] = "send" /\ open[r] = {} /\ reached[r] /\ Moves(r, "commit")
       \/ pc[r] = "send" /\ open[r] = {} /\ ~reached[r] /\ Moves(r, "record")

\* A failure is recorded, in a row or in the log of errors.
Records(r) ==
    /\ pc[r] = "record" /\ Moves(r, "commit") /\ SameGroup /\ Stays(r) /\ UNCHANGED <<claims, mailed>>
    /\ \/ logged' = logged \cup {InHand(r)} /\ UNCHANGED rows
       \/ rows' = rows \cup {InHand(r)} /\ UNCHANGED logged
    /\ UNCHANGED faults \/ Fault("row")

\* The process dies.
Dies(r) ==
    /\ pc[r] # "down" /\ Fault("crash") /\ Moves(r, "down") /\ Quietly
    /\ UNCHANGED <<committed, claims>>
    /\ owner' = IF owner = r THEN NoReplica ELSE owner
    /\ chunk' = [chunk EXCEPT ![r] = <<>>] /\ open' = [open EXCEPT ![r] = {}]
    /\ reached' = [reached EXCEPT ![r] = FALSE]

\* Messages are fetched, from the committed offset on.
Fetches(r) ==
    /\ pc[r] = "poll" /\ Moves(r, "loop") /\ Quietly
    /\ UNCHANGED <<committed, open, reached, claims, faults>> /\ owner' = r
    /\ chunk'[r] # <<>> /\ chunk' \in [Replicas -> Seq(Offsets)]
    /\ \A i \in DOMAIN chunk'[r] : chunk'[r][i] = committed + i - 1

\* Nothing of this is touched but the group or the claims.
Around ==
    /\ UNCHANGED <<committed, pc, chunk, open, reached, mailed, rows, logged>>
    /\ \/ UNCHANGED <<owner, claims, faults>>
       \/ owner' = NoReplica /\ Fault("lost") /\ UNCHANGED claims
       \/ UNCHANGED owner /\ Fault("expire") /\ \E i \in claims : claims' = claims \ {i}

Steps ==
    \/ \E r \in Replicas : \/ Granted(r) \/ GoesOn(r) \/ Records(r) \/ Dies(r) \/ Fetches(r)
                           \/ (pc[r] = "commit" /\ Commit(r))
                           \/ \E a \in Recipients : Resolved(r, a)
    \/ Around

\* A replica that only moves on.
LEMMA GotoFacts ==
    ASSUME TypeOK, NEW r \in Replicas, NEW label \in PCs, Goto(r, label), UNCHANGED <<chunk, open, reached>>
    PROVE  Moves(r, label)
BY DEF Goto, Moves, Others, TypeOK

\* Every step is one of these.
LEMMA StepKinds ==
    ASSUME LoopInv, [Next]_vars
    PROVE  Steps
  <1> USE DEF LoopInv, PCs
  <1>1. ASSUME NEW r \in Replicas, Start(r) PROVE Steps
    BY <1>1, GotoFacts DEF Start, Steps, GoesOn, SameGroup, Quietly, Stays, NoFault, broker, work, results
  <1>2. ASSUME NEW r \in Replicas, Crash(r) PROVE Steps
    <2>1. Moves(r, "down")
      BY <1>2 DEF Crash, Goto, Moves, Others, TypeOK
    <2> QED BY <1>2, <2>1 DEF Crash, Steps, Dies, Quietly, results
  <1>3. ASSUME NEW r \in Replicas, TakeAway(r) PROVE Steps
    BY <1>3 DEF TakeAway, Steps, Around, work, results
  <1>4. ASSUME NEW r \in Replicas, Fetch(r) PROVE Steps
    <2>1. PICK n \in 1 .. BatchSize :
             /\ committed + n - 1 <= Len(Log)
             /\ chunk' = [chunk EXCEPT ![r] = [i \in 1 .. n |-> committed + i - 1]]
      BY <1>4 DEF Fetch
    <2>2. [i \in 1 .. n |-> committed + i - 1] \in Seq(Offsets) /\ n \in Nat \ {0}
      <3>1. n \in Nat \ {0} /\ committed \in Nat \ {0} /\ committed + n - 1 <= Len(Log) /\ Len(Log) \in Nat
        BY <2>1, DeliveryBatch, DeliveryLog DEF TypeOK
      <3>2. \A i \in 1 .. n : committed + i - 1 \in 1 .. Len(Log)
        BY <3>1
      <3> QED BY <3>1, <3>2 DEF Offsets
    <2>3. /\ chunk' \in [Replicas -> Seq(Offsets)] /\ chunk'[r] = [i \in 1 .. n |-> committed + i - 1]
          /\ \A u \in Replicas \ {r} : chunk'[u] = chunk[u]
      BY <2>1, <2>2 DEF TypeOK
    <2>4. chunk'[r] # <<>>
      <3>1. Len(chunk'[r]) = n
        BY <2>2, <2>3
      <3> QED BY <2>2, <3>1
    <2>5. Moves(r, "loop")
      BY <1>4, <2>3 DEF Fetch, Goto, Moves, Others, TypeOK
    <2> QED BY <1>4, <2>3, <2>4, <2>5 DEF Fetch, Steps, Fetches, Quietly, NoFault, results
  <1>5. ASSUME NEW r \in Replicas, Begin(r) PROVE Steps
    <2>1. pc[r] = "loop" /\ UNCHANGED <<claims, faults>> /\ InHand(r) \in Offsets /\ Message(r).json \in BOOLEAN
      BY <1>5, InHandFacts, LogFacts DEF Begin, NoFault, Message
    <2>2. CASE StartSends(r) /\ Message(r).id = NoId
      <3>1. Granted(r)
        BY <2>1, <2>2, StartSendsFacts DEF Granted, SameGroup, Quietly, Identified, Message, Moves, TypeOK
      <3> QED BY <3>1 DEF Steps
    <2>3. CASE /\ Message(r).json => Message(r).id # NoId
               /\ Goto(r, IF Message(r).json THEN "claim" ELSE "record")
               /\ UNCHANGED <<broker, work, throttled, results>>
      <3>1. GoesOn(r)
        BY <2>1, <2>3, GotoFacts
        DEF GoesOn, SameGroup, Quietly, Stays, Identified, Message, broker, work, results
      <3> QED BY <3>1 DEF Steps
    <2> QED BY <1>5, <2>2, <2>3 DEF Begin
  <1>6. ASSUME NEW r \in Replicas, Claim(r) \/ ClaimFails(r) PROVE Steps
    <2>1. pc[r] = "claim" /\ StartSends(r)
      BY <1>6 DEF Claim, ClaimFails
    <2>2. Granted(r)
      BY <1>6, <2>1, StartSendsFacts DEF Claim, ClaimFails, NoFault, Granted, SameGroup, Quietly, Moves, TypeOK
    <2> QED BY <2>2 DEF Steps
  <1>7. ASSUME NEW r \in Replicas, Skip(r) PROVE Steps
    BY <1>7, GotoFacts DEF Skip, Steps, GoesOn, SameGroup, Quietly, Stays, NoFault, broker, work
  <1>8. ASSUME NEW r \in Replicas, NEW a \in Recipients, Sent(r, a) PROVE Steps
    BY <1>8 DEF Sent, Steps, Resolved, NoFault, broker
  <1>9. ASSUME NEW r \in Replicas, Gathered(r) PROVE Steps
    BY <1>9, GotoFacts DEF Gathered, Steps, GoesOn, SameGroup, Quietly, Stays, NoFault, broker, work, results, TypeOK
  <1>10. ASSUME NEW r \in Replicas, Record(r) PROVE Steps
    <2>1. /\ pc[r] = "record" /\ Goto(r, "commit") /\ UNCHANGED <<owner, committed, chunk, open, reached, claims, mailed>>
      BY <1>10 DEF Record, broker, work
    <2>2. Moves(r, "commit")
      BY <2>1, GotoFacts
    <2>3. /\ \/ logged' = logged \cup {InHand(r)} /\ UNCHANGED rows
             \/ rows' = rows \cup {InHand(r)} /\ UNCHANGED logged
          /\ UNCHANGED faults \/ Fault("row")
      BY <1>10 DEF Record, NoFault
    <2> QED BY <2>1, <2>2, <2>3 DEF Steps, Records, SameGroup, Stays
  <1>11. ASSUME NEW r \in Replicas, Commit(r) PROVE Steps
    BY <1>11 DEF Commit, Steps
  <1>12. ASSUME NEW i \in Ids, Expire(i) PROVE Steps
    BY <1>12 DEF Expire, Steps, Around, broker, work, results
  <1>13. ASSUME NEW r \in Replicas, WindowEnds(r) PROVE Steps
    BY <1>13 DEF WindowEnds, Steps, Around, broker, work, results, NoFault
  <1>14. CASE UNCHANGED vars
    BY <1>14 DEF vars, Steps, Around, broker, work, results
  <1> QED BY <1>1, <1>2, <1>3, <1>4, <1>5, <1>6, <1>7, <1>8, <1>9, <1>10, <1>11, <1>12, <1>13, <1>14
          DEF Next, Run, Handle, Done

-----------------------------------------------------------------------------
(* The loop                                                                 *)

\* What a commit does.
LEMMA CommitFacts ==
    ASSUME LoopInv, NEW r \in Replicas, Commit(r)
    PROVE  /\ pc[r] = "commit" /\ InHand(r) \in Offsets
           /\ pc' \in [Replicas -> PCs] /\ Others(r) /\ open'[r] = {} /\ reached'[r] = FALSE
           /\ chunk' \in [Replicas -> Seq(Offsets)]
           /\ open' \in [Replicas -> SUBSET Recipients] /\ reached' \in [Replicas -> BOOLEAN]
           /\ \/ pc'[r] = "poll" /\ chunk'[r] = <<>>
              \/ pc'[r] = "loop" /\ chunk'[r] # <<>> /\ InHand(r)' = InHand(r) + 1
           /\ \A i \in DOMAIN chunk'[r] : chunk'[r][i] = chunk'[r][1] + i - 1
           /\ committed' = IF owner = r THEN InHand(r) + 1 ELSE committed
           /\ UNCHANGED <<owner, claims, mailed, rows, logged, faults>>
BY AdvanceFacts, InHandFacts DEF Commit, NoFault, results

\* Every step keeps the types.
LEMMA TypesStep ==
    ASSUME LoopInv, [Next]_vars
    PROVE  TypeOK'
  <1> USE DEF LoopInv
  <1>0. /\ "claim" \in FaultKinds /\ "smtp" \in FaultKinds /\ "late" \in FaultKinds /\ "row" \in FaultKinds
        /\ "crash" \in FaultKinds /\ "lost" \in FaultKinds /\ "expire" \in FaultKinds
    BY DEF FaultKinds
  <1>1. ASSUME NEW r \in Replicas, Granted(r) PROVE TypeOK'
    <2>1. InHand(r) \in Offsets /\ (pc[r] = "claim" => Message(r).id \in Ids)
      BY <1>1, InHandFacts, LogFacts DEF Granted, Hands, Message
    <2>2. claims' \subseteq Ids
      BY <1>1, <2>1 DEF Granted, TypeOK
    <2>3. faults' \in [FaultKinds -> Nat]
      BY <1>0, <1>1, FaultFacts DEF Granted, TypeOK
    <2> QED BY <1>1, <2>2, <2>3 DEF Granted, Moves, SameGroup, Quietly, TypeOK
  <1>2. ASSUME NEW r \in Replicas, GoesOn(r) PROVE TypeOK'
    BY <1>2 DEF GoesOn, Moves, SameGroup, Quietly, Stays, TypeOK
  <1>3. ASSUME NEW r \in Replicas, Records(r) PROVE TypeOK'
    <2>1. InHand(r) \in Offsets
      BY <1>3, InHandFacts DEF Records
    <2>2. faults' \in [FaultKinds -> Nat]
      BY <1>0, <1>3, FaultFacts DEF Records, TypeOK
    <2> QED BY <1>3, <2>1, <2>2 DEF Records, Moves, SameGroup, Stays, TypeOK
  <1>4. ASSUME NEW r \in Replicas, Dies(r) PROVE TypeOK'
    <2>1. faults' \in [FaultKinds -> Nat]
      BY <1>0, <1>4, FaultFacts DEF Dies
    <2> QED BY <1>4, <2>1 DEF Dies, Moves, Quietly, TypeOK
  <1>5. ASSUME NEW r \in Replicas, Fetches(r) PROVE TypeOK'
    BY <1>5 DEF Fetches, Moves, Quietly, TypeOK
  <1>6. ASSUME NEW r \in Replicas, Commit(r) PROVE TypeOK'
    <2>1. committed' \in 1 .. Len(Log) + 1
      <3>1. InHand(r) \in Offsets /\ committed' = IF owner = r THEN InHand(r) + 1 ELSE committed
        BY <1>6, CommitFacts
      <3>2. Len(Log) \in Nat /\ InHand(r) \in 1 .. Len(Log)
        BY <3>1, DeliveryLog DEF Offsets
      <3>3. committed \in 1 .. Len(Log) + 1
        BY DEF TypeOK
      <3>4. InHand(r) + 1 \in 1 .. Len(Log) + 1
        BY <3>2
      <3> QED BY <3>1, <3>3, <3>4
    <2> QED BY <1>6, <2>1, CommitFacts DEF TypeOK
  <1>7. ASSUME NEW r \in Replicas, NEW a \in Recipients, Resolved(r, a) PROVE TypeOK'
    <2>1. faults' \in [FaultKinds -> Nat]
      BY <1>0, <1>7, FaultFacts DEF Resolved, TypeOK
    <2>2. <<EventInHand(r), a>> \in Events \X Recipients
      BY <1>7, InHandFacts DEF Resolved
    <2>3. mailed' \in [Events \X Recipients -> Nat]
      <3>1. mailed \in [Events \X Recipients -> Nat]
        BY DEF TypeOK
      <3>2. mailed' = mailed \/ mailed' = [mailed EXCEPT ![<<EventInHand(r), a>>] = @ + 1]
        BY <1>7 DEF Resolved
      <3>3. mailed[<<EventInHand(r), a>>] + 1 \in Nat
        BY <2>2, <3>1
      <3> QED BY <3>1, <3>2, <3>3
    <2> QED BY <1>7, <2>1, <2>3 DEF Resolved, TypeOK
  <1>8. CASE Around
    <2>1. faults' \in [FaultKinds -> Nat]
      BY <1>0, <1>8, FaultFacts DEF Around, TypeOK
    <2> QED BY <1>8, <2>1 DEF Around, TypeOK
  <1> QED BY <1>1, <1>2, <1>3, <1>4, <1>5, <1>6, <1>7, <1>8, StepKinds DEF Steps

\* Every step keeps the loop in order.
LEMMA LoopStep ==
    ASSUME LoopInv, [Next]_vars
    PROVE  LoopInv'
  <1> USE DEF LoopInv
  <1>0. TypeOK'
    BY TypesStep
  <1>1. ASSUME NEW r \in Replicas, Granted(r) PROVE Hands' /\ InOrder'
    BY <1>1 DEF Granted, Moves, Others, SameGroup, Hands, InOrder, InHand, Message
  <1>2. ASSUME NEW r \in Replicas, GoesOn(r) PROVE Hands' /\ InOrder'
    BY <1>2 DEF GoesOn, Moves, Others, SameGroup, Stays, Hands, InOrder, InHand, Message, Identified
  <1>3. ASSUME NEW r \in Replicas, Records(r) PROVE Hands' /\ InOrder'
    BY <1>3 DEF Records, Moves, Others, SameGroup, Stays, Hands, InOrder, InHand, Message
  <1>4. ASSUME NEW r \in Replicas, Dies(r) PROVE Hands' /\ InOrder'
    <2>1. /\ chunk'[r] = <<>> /\ open'[r] = {} /\ pc'[r] = "down" /\ owner' # r
          /\ \A u \in Replicas \ {r} : pc'[u] = pc[u] /\ chunk'[u] = chunk[u] /\ open'[u] = open[u]
          /\ UNCHANGED committed /\ \A u \in Replicas : owner' = u => owner = u
      BY <1>4, DeliveryReplicas DEF Dies, Moves, Others, TypeOK
    <2> QED BY <2>1 DEF Hands, InOrder, InHand, Message
  <1>5. ASSUME NEW r \in Replicas, Fetches(r) PROVE Hands' /\ InOrder'
    <2>1. chunk'[r] \in Seq(Offsets) /\ chunk'[r] # <<>>
      BY <1>5 DEF Fetches
    <2>2. chunk'[r][1] = committed /\ \A i \in DOMAIN chunk'[r] : chunk'[r][i] = chunk'[r][1] + i - 1
      <3>1. 1 \in DOMAIN chunk'[r] /\ committed \in Nat
        BY <2>1 DEF TypeOK
      <3>2. \A i \in DOMAIN chunk'[r] : chunk'[r][i] = committed + i - 1
        BY <1>5 DEF Fetches
      <3>3. chunk'[r][1] = committed
        BY <3>1, <3>2
      <3> QED BY <3>2, <3>3
    <2>3. /\ pc'[r] = "loop" /\ UNCHANGED <<open, committed>> /\ owner' = r /\ open'[r] = {}
          /\ \A u \in Replicas \ {r} : pc'[u] = pc[u] /\ chunk'[u] = chunk[u] /\ open'[u] = open[u]
      BY <1>5 DEF Fetches, Moves, Others, Hands
    <2>4. Hands'
      BY <2>1, <2>3 DEF Hands, InHand, Message
    <2>5. \A u \in Replicas : owner' = u => u = r
      BY <2>3
    <2>6. InOrder'
      BY <2>2, <2>3, <2>5 DEF InOrder, InHand
    <2> QED BY <2>4, <2>6
  <1>6. ASSUME NEW r \in Replicas, Commit(r) PROVE Hands' /\ InOrder'
    <2>1. /\ pc[r] = "commit" /\ open'[r] = {}
          /\ \A u \in Replicas \ {r} : pc'[u] = pc[u] /\ chunk'[u] = chunk[u] /\ open'[u] = open[u]
          /\ \/ pc'[r] = "poll"
             \/ pc'[r] = "loop" /\ chunk'[r] # <<>> /\ chunk'[r][1] = chunk[r][1] + 1
          /\ \A i \in DOMAIN chunk'[r] : chunk'[r][i] = chunk'[r][1] + i - 1
          /\ committed' = IF owner = r THEN chunk[r][1] + 1 ELSE committed
          /\ UNCHANGED owner
      BY <1>6, CommitFacts DEF Others, InHand
    <2>2. Hands'
      BY <2>1 DEF Hands, InHand, Message
    <2>3. ASSUME NEW u \in Replicas, u # r
          PROVE  /\ \A i \in DOMAIN chunk'[u] : chunk'[u][i] = chunk'[u][1] + i - 1
                 /\ owner' = u => pc'[u] # "down"
                 /\ owner' = u /\ pc'[u] \notin {"down", "poll"} => chunk'[u][1] = committed'
      BY <2>1, <2>3 DEF InOrder, InHand
    <2>4. InOrder'
      BY <2>1, <2>3 DEF InOrder, InHand
    <2> QED BY <2>2, <2>4
  <1>7. ASSUME NEW r \in Replicas, NEW a \in Recipients, Resolved(r, a) PROVE Hands' /\ InOrder'
    <2>1. \A u \in Replicas : open'[u] \subseteq open[u]
      BY <1>7 DEF Resolved, TypeOK
    <2> QED BY <1>7, <2>1 DEF Resolved, Hands, InOrder, InHand, Message
  <1>8. ASSUME Around PROVE Hands' /\ InOrder'
    <2>1. UNCHANGED <<committed, pc, chunk, open>> /\ \A u \in Replicas : owner' = u => owner = u
      BY <1>8, DeliveryReplicas DEF Around
    <2>2. Hands'
      BY <2>1 DEF Hands, InHand, Message
    <2>3. InOrder'
      BY <2>1 DEF InOrder, InHand
    <2> QED BY <2>2, <2>3
  <1> QED BY <1>0, <1>1, <1>2, <1>3, <1>4, <1>5, <1>6, <1>7, <1>8, StepKinds DEF Steps

-----------------------------------------------------------------------------
(* What was sent and recorded                                               *)

\* Two offsets carry the same event exactly when one is a delivery of the other's.
LEMMA SameEvent ==
    ASSUME NEW o \in Offsets, NEW q \in Offsets
    PROVE  /\ Deliveries(q) = Deliveries(o) <=> q \in Deliveries(o)
           /\ q \in Deliveries(o) => (Identified(q) <=> Identified(o))
           /\ Identified(o) => (q \in Deliveries(o) <=> Identified(q) /\ Log[q].id = Log[o].id)
BY EventFacts

\* A send adds at most the one mail it is about.
LEMMA MailFacts ==
    ASSUME LoopInv, NEW r \in Replicas, NEW a \in Recipients, Resolved(r, a)
    PROVE  /\ \A e \in Events, b \in Recipients : mailed[<<e, b>>] \in Nat /\ mailed'[<<e, b>>] \in Nat
           /\ \A e \in Events, b \in Recipients :
                \/ mailed'[<<e, b>>] = mailed[<<e, b>>]
                \/ e = EventInHand(r) /\ b = a /\ mailed'[<<e, b>>] = mailed[<<e, b>>] + 1
           /\ mailed' # mailed => mailed'[<<EventInHand(r), a>>] > 0
           /\ faults["late"]' = faults["late"] /\ mailed' # mailed => reached'[r]
  <1>1. mailed \in [Events \X Recipients -> Nat] /\ reached \in [Replicas -> BOOLEAN] /\ faults \in [FaultKinds -> Nat]
    BY DEF LoopInv, TypeOK
  <1>2. \A e \in Events, b \in Recipients : mailed[<<e, b>>] \in Nat
    BY <1>1
  <1>3. <<EventInHand(r), a>> \in Events \X Recipients
    BY InHandFacts DEF Resolved
  <1>4. CASE mailed' = mailed
    BY <1>2, <1>4
  <1>5. CASE mailed' = [mailed EXCEPT ![<<EventInHand(r), a>>] = @ + 1]
    <2>1. \A m \in Events \X Recipients :
            mailed'[m] = IF m = <<EventInHand(r), a>> THEN mailed[m] + 1 ELSE mailed[m]
      BY <1>1, <1>5
    <2>2. \A e \in Events, b \in Recipients :
            mailed'[<<e, b>>] = IF e = EventInHand(r) /\ b = a THEN mailed[<<e, b>>] + 1 ELSE mailed[<<e, b>>]
      BY <2>1
    <2>3. mailed'[<<EventInHand(r), a>>] > 0
      BY <1>2, <1>3, <2>2
    <2>4. mailed' # mailed /\ faults'["late"] = faults["late"] => reached'[r]
      <3>1. "late" \in FaultKinds
        BY DEF FaultKinds
      <3>2. Fault("late") => faults'["late"] # faults["late"]
        BY <1>1, <3>1, FaultFacts DEF LoopInv
      <3> QED BY <1>1, <3>2 DEF Resolved
    <2> QED BY <1>2, <2>2, <2>3, <2>4
  <1> QED BY <1>4, <1>5 DEF Resolved

\* Mails, rows and error lines are never taken back.
LEMMA Monotone ==
    ASSUME LoopInv, Steps
    PROVE  /\ \A e \in Events, a \in Recipients : mailed[<<e, a>>] > 0 => mailed'[<<e, a>>] > 0
           /\ rows \subseteq rows' /\ logged \subseteq logged'
  <1>1. ASSUME NEW r \in Replicas, NEW b \in Recipients, Resolved(r, b)
        PROVE  \A e \in Events, a \in Recipients : mailed[<<e, a>>] > 0 => mailed'[<<e, a>>] > 0
    <2>1. SUFFICES ASSUME NEW e \in Events, NEW a \in Recipients, mailed[<<e, a>>] > 0
                   PROVE  mailed'[<<e, a>>] > 0
      OBVIOUS
    <2>2. mailed[<<e, a>>] \in Nat /\ (mailed'[<<e, a>>] = mailed[<<e, a>>] \/ mailed'[<<e, a>>] = mailed[<<e, a>>] + 1)
      BY <1>1, MailFacts
    <2> QED BY <2>1, <2>2
  <1>2. ASSUME NEW r \in Replicas, NEW b \in Recipients, Resolved(r, b)
        PROVE  rows \subseteq rows' /\ logged \subseteq logged'
    BY <1>2 DEF Resolved
  <1>3. ASSUME NEW r \in Replicas, Commit(r)
        PROVE  UNCHANGED <<mailed, rows, logged>>
    BY <1>3 DEF Commit, results
  <1>4. ASSUME NEW r \in Replicas, Granted(r) \/ GoesOn(r) \/ Dies(r) \/ Fetches(r)
        PROVE  UNCHANGED <<mailed, rows, logged>>
    BY <1>4 DEF Granted, GoesOn, Dies, Fetches, Quietly
  <1>5. ASSUME NEW r \in Replicas, Records(r)
        PROVE  UNCHANGED mailed /\ rows \subseteq rows' /\ logged \subseteq logged'
    BY <1>5 DEF Records
  <1>6. ASSUME Around PROVE UNCHANGED <<mailed, rows, logged>>
    BY <1>6 DEF Around
  <1> QED BY <1>1, <1>2, <1>3, <1>4, <1>5, <1>6 DEF Steps

\* Every step keeps reached true to what was sent.
LEMMA ReachedStep ==
    ASSUME LoopInv, ReachedInv, Steps
    PROVE  ReachedInv'
  <1> USE DEF LoopInv
  <1>0. SUFFICES ASSUME NEW u \in Replicas, reached'[u]
                 PROVE  /\ pc'[u] \in {"send", "commit"}
                        /\ \E a \in Recipients : mailed'[<<EventInHand(u)', a>>] > 0
    BY DEF ReachedInv
  <1>1. ASSUME reached[u], pc'[u] \in {"send", "commit"}, chunk'[u] = chunk[u]
        PROVE  \E a \in Recipients : mailed'[<<EventInHand(u)', a>>] > 0
    <2>1. PICK a \in Recipients : mailed[<<EventInHand(u), a>>] > 0
      BY <1>1 DEF ReachedInv
    <2>2. pc[u] \in {"send", "commit"}
      BY <1>1 DEF ReachedInv
    <2>3. EventInHand(u) \in Events /\ EventInHand(u)' = EventInHand(u)
      BY <1>1, <2>2, InHandFacts DEF EventInHand, InHand
    <2> QED BY <2>1, <2>3, Monotone
  <1>2. ASSUME NEW r \in Replicas, Granted(r) \/ GoesOn(r) \/ Records(r)
        PROVE  reached[u] /\ pc'[u] \in {"send", "commit"} /\ chunk'[u] = chunk[u]
    BY <1>0, <1>2 DEF Granted, GoesOn, Records, Moves, Others, Stays, ReachedInv
  <1>3. ASSUME NEW r \in Replicas, Dies(r) \/ Fetches(r)
        PROVE  reached[u] /\ pc'[u] \in {"send", "commit"} /\ chunk'[u] = chunk[u]
    BY <1>0, <1>3 DEF Dies, Fetches, Moves, Others, ReachedInv, TypeOK
  <1>4. ASSUME NEW r \in Replicas, Commit(r)
        PROVE  reached[u] /\ pc'[u] \in {"send", "commit"} /\ chunk'[u] = chunk[u]
    BY <1>0, <1>4, CommitFacts DEF Others, ReachedInv
  <1>5. ASSUME NEW r \in Replicas, NEW b \in Recipients, Resolved(r, b), u = r, ~reached[u]
        PROVE  /\ pc'[u] \in {"send", "commit"}
               /\ \E a \in Recipients : mailed'[<<EventInHand(u)', a>>] > 0
    <2>1. pc'[u] = "send" /\ chunk'[u] = chunk[u] /\ reached' # reached
      BY <1>0, <1>5 DEF Resolved
    <2>2. <<EventInHand(r), b>> \in Events \X Recipients /\ mailed \in [Events \X Recipients -> Nat]
      BY <1>5, InHandFacts DEF Resolved, TypeOK
    <2>3. mailed' = [mailed EXCEPT ![<<EventInHand(r), b>>] = @ + 1]
      BY <1>5, <2>1 DEF Resolved
    <2>4. mailed'[<<EventInHand(r), b>>] = mailed[<<EventInHand(r), b>>] + 1 /\ mailed[<<EventInHand(r), b>>] \in Nat
      BY <2>2, <2>3
    <2>5. mailed'[<<EventInHand(r), b>>] > 0
      BY <2>4
    <2> QED BY <1>5, <2>1, <2>5 DEF EventInHand, InHand
  <1>6. ASSUME NEW r \in Replicas, NEW b \in Recipients, Resolved(r, b), u # r \/ reached[u]
        PROVE  reached[u] /\ pc'[u] \in {"send", "commit"} /\ chunk'[u] = chunk[u]
    <2>1. pc' = pc /\ chunk' = chunk /\ (reached[u] \/ u # r)
      BY <1>6 DEF Resolved
    <2>2. reached[u]
      BY <1>0, <1>6 DEF Resolved, TypeOK
    <2> QED BY <2>1, <2>2 DEF ReachedInv
  <1>7. ASSUME Around PROVE reached[u] /\ pc'[u] \in {"send", "commit"} /\ chunk'[u] = chunk[u]
    BY <1>0, <1>7 DEF Around, ReachedInv
  <1> QED BY <1>1, <1>2, <1>3, <1>4, <1>5, <1>6, <1>7 DEF Steps

\* Faults are counted, never taken back.
LEMMA FaultsGrow ==
    ASSUME LoopInv, Steps
    PROVE  \A k \in FaultKinds : faults[k] \in Nat /\ faults'[k] \in Nat /\ faults'[k] >= faults[k]
  <1>1. faults \in [FaultKinds -> Nat] /\ TypeOK
    BY DEF LoopInv, TypeOK
  <1>2. ASSUME NEW j \in FaultKinds, Fault(j)
        PROVE  \A k \in FaultKinds : faults'[k] \in Nat /\ faults'[k] >= faults[k]
    <2>1. SUFFICES ASSUME NEW k \in FaultKinds PROVE faults'[k] \in Nat /\ faults'[k] >= faults[k]
      OBVIOUS
    <2>2. faults[k] \in Nat /\ (faults'[k] = faults[k] \/ faults'[k] = faults[k] + 1)
      BY <1>1, <1>2, FaultFacts
    <2> QED BY <2>2
  <1>3. ASSUME UNCHANGED faults
        PROVE  \A k \in FaultKinds : faults'[k] \in Nat /\ faults'[k] >= faults[k]
    BY <1>1, <1>3
  <1>4. UNCHANGED faults \/ \E j \in FaultKinds : Fault(j)
    <2>1. /\ "claim" \in FaultKinds /\ "smtp" \in FaultKinds /\ "late" \in FaultKinds /\ "row" \in FaultKinds
          /\ "crash" \in FaultKinds /\ "lost" \in FaultKinds /\ "expire" \in FaultKinds
      BY DEF FaultKinds
    <2>2. ASSUME NEW r \in Replicas, Granted(r) \/ GoesOn(r) \/ Records(r) \/ Dies(r) \/ Fetches(r) \/ Commit(r)
          PROVE  UNCHANGED faults \/ \E j \in FaultKinds : Fault(j)
      BY <2>1, <2>2 DEF Granted, GoesOn, Records, Dies, Fetches, Commit, NoFault
    <2>3. ASSUME NEW r \in Replicas, NEW a \in Recipients, Resolved(r, a)
          PROVE  UNCHANGED faults \/ \E j \in FaultKinds : Fault(j)
      BY <2>1, <2>3 DEF Resolved
    <2>4. ASSUME Around PROVE UNCHANGED faults \/ \E j \in FaultKinds : Fault(j)
      BY <2>1, <2>4 DEF Around
    <2> QED BY <2>2, <2>3, <2>4 DEF Steps
  <1> QED BY <1>1, <1>2, <1>3, <1>4

-----------------------------------------------------------------------------
(* How often a recipient gets the mail of an event                          *)

\* Sets that shrink, or grow by one.
LEMMA SmallerSet ==
    ASSUME NEW S, NEW T, IsFiniteSet(S), T \subseteq S
    PROVE  /\ IsFiniteSet(T) /\ Cardinality(S) \in Nat /\ Cardinality(T) \in Nat
           /\ Cardinality(T) <= Cardinality(S)
BY FS_Subset, FS_CardinalityType

LEMMA OneMore ==
    ASSUME NEW S, NEW T, NEW x, IsFiniteSet(S), T \subseteq S \cup {x}
    PROVE  /\ IsFiniteSet(T) /\ Cardinality(S) \in Nat /\ Cardinality(T) \in Nat
           /\ Cardinality(T) <= Cardinality(S) + 1
  <1>1. IsFiniteSet(S \cup {x}) /\ Cardinality(S) \in Nat
    BY FS_AddElement, FS_CardinalityType
  <1>2. Cardinality(S \cup {x}) = IF x \in S THEN Cardinality(S) ELSE Cardinality(S) + 1
    BY FS_AddElement
  <1>3. /\ IsFiniteSet(T) /\ Cardinality(T) \in Nat
        /\ Cardinality(T) <= Cardinality(S \cup {x}) /\ Cardinality(S \cup {x}) \in Nat
    BY <1>1, SmallerSet
  <1> QED BY <1>1, <1>2, <1>3

LEMMA OneLess ==
    ASSUME NEW S, NEW T, NEW x \in S, IsFiniteSet(S), T \subseteq S \ {x}
    PROVE  /\ IsFiniteSet(T) /\ Cardinality(S) \in Nat /\ Cardinality(T) \in Nat
           /\ Cardinality(T) + 1 <= Cardinality(S)
  <1>1. IsFiniteSet(S \ {x}) /\ Cardinality(S \ {x}) = Cardinality(S) - 1 /\ Cardinality(S) \in Nat
    BY FS_RemoveElement, FS_CardinalityType
  <1>2. /\ IsFiniteSet(T) /\ Cardinality(T) \in Nat /\ Cardinality(S \ {x}) \in Nat
        /\ Cardinality(T) <= Cardinality(S \ {x})
    BY <1>1, SmallerSet
  <1> QED BY <1>1, <1>2

\* No send is added unless replica r starts one of this event.
LEMMA PendingKept ==
    ASSUME NEW r \in Replicas, Others(r), NEW o, NEW a,
           \/ open'[r] = {}
           \/ open'[r] \subseteq open[r] /\ chunk'[r] = chunk[r]
           \/ chunk'[r] = chunk[r] /\ InHand(r) \notin Deliveries(o)
    PROVE  Pending(o, a)' \subseteq Pending(o, a)
BY DEF Others, Pending, InHand, Deliveries, Offsets

\* A step that starts no send of the event and gives no mail or claim back.
LEMMA CoveredKept ==
    ASSUME LoopInv, Covered, Steps, NEW o \in Offsets, NEW a \in Recipients, Identified(o),
           Pending(o, a)' \subseteq Pending(o, a), Mails(o, a)' = Mails(o, a), claims \subseteq claims'
    PROVE  /\ IsFiniteSet(Pending(o, a)')
           /\ Mails(o, a)' + Cardinality(Pending(o, a)') + Grant(o)' <= 1 + faults'["claim"] + faults'["expire"]
  <1>1. /\ IsFiniteSet(Pending(o, a))
        /\ Mails(o, a) + Cardinality(Pending(o, a)) + Grant(o) <= 1 + faults["claim"] + faults["expire"]
    BY DEF Covered
  <1>2. /\ IsFiniteSet(Pending(o, a)') /\ Cardinality(Pending(o, a)) \in Nat /\ Cardinality(Pending(o, a)') \in Nat
        /\ Cardinality(Pending(o, a)') <= Cardinality(Pending(o, a))
    BY <1>1, SmallerSet
  <1>3. Grant(o) \in Nat /\ Grant(o)' \in Nat /\ Grant(o)' <= Grant(o)
    BY DEF Grant
  <1>4. "claim" \in FaultKinds /\ "expire" \in FaultKinds
    BY DEF FaultKinds
  <1>5. /\ faults["claim"] \in Nat /\ faults'["claim"] \in Nat /\ faults'["claim"] >= faults["claim"]
        /\ faults["expire"] \in Nat /\ faults'["expire"] \in Nat /\ faults'["expire"] >= faults["expire"]
    BY <1>4, FaultsGrow
  <1>6. Mails(o, a) \in Nat
    BY EventFacts DEF Mails, LoopInv, TypeOK
  <1> QED BY <1>1, <1>2, <1>3, <1>5, <1>6

\* Every step keeps the mails covered.
LEMMA CoveredStep ==
    ASSUME LoopInv, Covered, Steps
    PROVE  Covered'
  <1> USE DEF LoopInv
  <1>0. SUFFICES ASSUME NEW o \in Offsets, NEW a \in Recipients, Identified(o)
                 PROVE  /\ IsFiniteSet(Pending(o, a)')
                        /\ Mails(o, a)' + Cardinality(Pending(o, a)') + Grant(o)'
                             <= 1 + faults'["claim"] + faults'["expire"]
    BY DEF Covered, Identified, Offsets, Recipients
  <1> DEFINE Goal == /\ IsFiniteSet(Pending(o, a)')
                     /\ Mails(o, a)' + Cardinality(Pending(o, a)') + Grant(o)'
                          <= 1 + faults'["claim"] + faults'["expire"]
             Kept == /\ Pending(o, a)' \subseteq Pending(o, a) /\ Mails(o, a)' = Mails(o, a)
                     /\ claims \subseteq claims'
  <1>a. ASSUME Kept PROVE Goal
    BY <1>0, <1>a, CoveredKept
  <1>b. /\ IsFiniteSet(Pending(o, a)) /\ Cardinality(Pending(o, a)) \in Nat
        /\ Mails(o, a) + Cardinality(Pending(o, a)) + Grant(o) <= 1 + faults["claim"] + faults["expire"]
        /\ Mails(o, a) \in Nat /\ Grant(o) \in {0, 1} /\ Grant(o)' \in {0, 1}
    <2>1. IsFiniteSet(Pending(o, a))
      BY <1>0 DEF Covered
    <2>2. Mails(o, a) \in Nat
      BY EventFacts DEF Mails, TypeOK
    <2> QED BY <1>0, <2>1, <2>2, FS_CardinalityType DEF Covered, Grant
  <1>c. /\ "claim" \in FaultKinds /\ "expire" \in FaultKinds
        /\ faults["claim"] \in Nat /\ faults'["claim"] \in Nat /\ faults'["claim"] >= faults["claim"]
        /\ faults["expire"] \in Nat /\ faults'["expire"] \in Nat /\ faults'["expire"] >= faults["expire"]
    <2>1. "claim" \in FaultKinds /\ "expire" \in FaultKinds
      BY DEF FaultKinds
    <2> QED BY <2>1, FaultsGrow
  <1>1. ASSUME NEW r \in Replicas, Granted(r) PROVE Goal
    <2>1. /\ Others(r) /\ chunk' = chunk /\ Mails(o, a)' = Mails(o, a) /\ InHand(r) \in Offsets
          /\ claims \subseteq claims'
      BY <1>1, InHandFacts DEF Granted, Moves, Quietly, Mails
    <2>2. CASE InHand(r) \notin Deliveries(o)
      <3>1. Pending(o, a)' \subseteq Pending(o, a)
        BY <2>1, <2>2, PendingKept
      <3> QED BY <1>a, <2>1, <3>1
    <2>3. CASE InHand(r) \in Deliveries(o)
      <3>1. Identified(InHand(r)) /\ Message(r).id = Log[o].id /\ pc[r] = "claim"
        BY <1>0, <1>1, <2>1, <2>3, SameEvent DEF Granted, Message
      <3>2. Pending(o, a)' \subseteq Pending(o, a) \cup {r}
        BY <2>1 DEF Pending, Others, InHand, Deliveries, Offsets
      <3>3. /\ IsFiniteSet(Pending(o, a)') /\ Cardinality(Pending(o, a)') \in Nat
            /\ Cardinality(Pending(o, a)') <= Cardinality(Pending(o, a)) + 1
        BY <1>b, <3>2, OneMore
      <3>4. \/ Grant(o) = 1 /\ Grant(o)' = 0
            \/ faults'["claim"] = faults["claim"] + 1 /\ Grant(o)' <= Grant(o)
        BY <1>1, <1>c, <3>1, FaultFacts DEF Granted, Grant
      <3> QED BY <1>b, <1>c, <2>1, <3>3, <3>4
    <2> QED BY <2>2, <2>3
  <1>2. ASSUME NEW r \in Replicas, GoesOn(r) \/ Records(r) PROVE Goal
    <2>1. Others(r) /\ UNCHANGED <<mailed, claims, open, chunk>>
      BY <1>2 DEF GoesOn, Records, Moves, Quietly, Stays
    <2>2. Pending(o, a)' \subseteq Pending(o, a)
      BY <2>1, PendingKept
    <2> QED BY <1>a, <2>1, <2>2 DEF Mails, Deliveries, Offsets
  <1>3. ASSUME NEW r \in Replicas, Dies(r) \/ Fetches(r) \/ Commit(r) PROVE Goal
    <2>1. Others(r) /\ UNCHANGED <<mailed, claims>> /\ open'[r] = {}
      BY <1>3, CommitFacts DEF Dies, Fetches, Moves, Quietly, Hands, TypeOK
    <2>2. Pending(o, a)' \subseteq Pending(o, a)
      BY <2>1, PendingKept
    <2> QED BY <1>a, <2>1, <2>2 DEF Mails, Deliveries, Offsets
  <1>4. ASSUME NEW r \in Replicas, NEW b \in Recipients, Resolved(r, b) PROVE Goal
    <2>1. /\ pc[r] = "send" /\ b \in open[r] /\ open' = [open EXCEPT ![r] = @ \ {b}]
          /\ UNCHANGED <<chunk, claims>> /\ InHand(r) \in Offsets
      BY <1>4, InHandFacts DEF Resolved
    <2>2. open'[r] = open[r] \ {b} /\ \A u \in Replicas : open'[u] \subseteq open[u]
      BY <2>1 DEF TypeOK
    <2>3. Pending(o, a)' \subseteq Pending(o, a)
      BY <2>1, <2>2 DEF Pending, InHand, Deliveries, Offsets
    <2>4. CASE Mails(o, a)' = Mails(o, a)
      BY <1>a, <2>1, <2>3, <2>4
    <2>5. CASE Mails(o, a)' # Mails(o, a)
      <3>1. Deliveries(o) = EventInHand(r) /\ b = a /\ Mails(o, a)' = Mails(o, a) + 1
        <4>1. Mails(o, a)' = mailed'[<<Deliveries(o), a>>] /\ Mails(o, a) = mailed[<<Deliveries(o), a>>]
          BY DEF Mails, Deliveries, Offsets
        <4>2. Deliveries(o) \in Events
          BY EventFacts
        <4>3. \/ mailed'[<<Deliveries(o), a>>] = mailed[<<Deliveries(o), a>>]
              \/ /\ Deliveries(o) = EventInHand(r) /\ a = b
                 /\ mailed'[<<Deliveries(o), a>>] = mailed[<<Deliveries(o), a>>] + 1
          BY <1>4, <4>2, MailFacts
        <4> QED BY <2>5, <4>1, <4>3
      <3>2. InHand(r) \in Deliveries(o)
        BY <2>1, <3>1, SameEvent DEF EventInHand
      <3>3. r \in Pending(o, a)
        BY <2>1, <3>1, <3>2 DEF Pending
      <3>4. Pending(o, a)' \subseteq Pending(o, a) \ {r}
        BY <2>2, <2>3, <3>1 DEF Pending
      <3>5. /\ IsFiniteSet(Pending(o, a)') /\ Cardinality(Pending(o, a)') \in Nat
            /\ Cardinality(Pending(o, a)') + 1 <= Cardinality(Pending(o, a))
        BY <1>b, <3>3, <3>4, OneLess
      <3>6. Grant(o)' = Grant(o)
        BY <2>1 DEF Grant
      <3> QED BY <1>b, <1>c, <3>1, <3>5, <3>6
    <2> QED BY <2>4, <2>5
  <1>5. ASSUME Around PROVE Goal
    <2>1. Pending(o, a)' = Pending(o, a) /\ Mails(o, a)' = Mails(o, a)
      BY <1>5 DEF Around, Pending, Mails, InHand, Deliveries, Offsets
    <2>2. CASE claims' = claims
      BY <1>a, <2>1, <2>2
    <2>3. CASE claims' # claims
      <3>1. faults'["expire"] = faults["expire"] + 1
        BY <1>5, <1>c, <2>3, FaultFacts DEF Around
      <3> QED BY <1>b, <1>c, <2>1, <3>1
    <2> QED BY <2>2, <2>3
  <1> QED BY <1>1, <1>2, <1>3, <1>4, <1>5 DEF Steps

-----------------------------------------------------------------------------
(* How many events are lost                                                 *)

\* What was handled stays handled.
LEMMA HandledStays ==
    ASSUME LoopInv, Steps, NEW o \in Offsets, Handled(o)
    PROVE  Handled(o)'
  <1>1. Handled(o)' <=> \/ Deliveries(o) \cap (rows' \cup logged') # {}
                        \/ \E a \in Recipients : mailed'[<<Deliveries(o), a>>] > 0
    BY DEF Handled, Mails, Deliveries, Offsets, Recipients
  <1>2. Deliveries(o) \in Events
    BY EventFacts
  <1> QED BY <1>1, <1>2, Monotone DEF Handled, Mails

\* Whoever has a message in hand that is recorded or was mailed has handled its event.
LEMMA HandledInHand ==
    ASSUME NEW r \in Replicas, NEW o \in Offsets, InHand(r) \in Deliveries(o),
           \/ InHand(r) \in rows' \cup logged'
           \/ \E a \in Recipients : mailed'[<<EventInHand(r), a>>] > 0
    PROVE  Handled(o)'
  <1>1. Handled(o)' <=> \/ Deliveries(o) \cap (rows' \cup logged') # {}
                        \/ \E a \in Recipients : mailed'[<<Deliveries(o), a>>] > 0
    BY DEF Handled, Mails, Deliveries, Offsets, Recipients
  <1>2. EventInHand(r) = Deliveries(o)
    BY EventFacts DEF EventInHand
  <1> QED BY <1>1, <1>2

\* An event becomes forgotten only when the process at work on it dies.
LEMMA ForgottenStep ==
    ASSUME LoopInv, ReachedInv, Steps, NEW o \in Offsets, Past(o)', ~Handled(o)', ~AtWork(o)'
    PROVE  /\ Past(o) /\ ~Handled(o)
           /\ AtWork(o) => \E r \in Replicas : /\ Dies(r) /\ pc[r] \in {"send", "record"}
                                               /\ InHand(r) \in Deliveries(o)
  <1> USE DEF LoopInv
  <1>a. ~Handled(o)
    BY HandledStays
  <1>b. /\ Past(o)' <=> \/ o < committed'
                        \/ Identified(o) /\ Log[o].id \in claims'
                        \/ \E r \in Replicas : pc'[r] = "commit" /\ chunk'[r][1] = o
        /\ AtWork(o)' <=> \E r \in Replicas : pc'[r] \in {"send", "record"} /\ chunk'[r][1] \in Deliveries(o)
    BY DEF Past, AtWork, InHand, Identified, Deliveries, Offsets
  <1>c. /\ Past(o) <=> \/ o < committed
                       \/ Identified(o) /\ Log[o].id \in claims
                       \/ \E r \in Replicas : pc[r] = "commit" /\ chunk[r][1] = o
        /\ AtWork(o) <=> \E r \in Replicas : pc[r] \in {"send", "record"} /\ chunk[r][1] \in Deliveries(o)
    BY DEF Past, AtWork, InHand
  <1>d. o \in Deliveries(o)
    BY EventFacts
  <1>1. ASSUME NEW r \in Replicas, Granted(r) PROVE Past(o) /\ ~AtWork(o)
    <2>1. /\ UNCHANGED <<committed, chunk>> /\ pc[r] \in {"loop", "claim"} /\ pc'[r] = "send"
          /\ \A u \in Replicas \ {r} : pc'[u] = pc[u]
      BY <1>1 DEF Granted, Moves, Others, SameGroup
    <2>2. ASSUME Identified(o), Log[o].id \in claims' PROVE Log[o].id \in claims
      <3>1. CASE pc[r] = "claim" /\ Message(r).id = Log[o].id
        <4>1. InHand(r) \in Offsets /\ Identified(InHand(r))
          BY <3>1, InHandFacts DEF Hands, Message, Identified
        <4>2. InHand(r) \in Deliveries(o)
          BY <2>2, <3>1, <4>1, SameEvent DEF Message
        <4> QED BY <1>b, <2>1, <4>2 DEF InHand
      <3> QED BY <1>1, <2>2, <3>1 DEF Granted
    <2> QED BY <1>b, <1>c, <2>1, <2>2
  <1>2. ASSUME NEW r \in Replicas, GoesOn(r) PROVE Past(o) /\ ~AtWork(o)
    <2>1. /\ UNCHANGED <<committed, chunk, claims, mailed>> /\ \A u \in Replicas \ {r} : pc'[u] = pc[u]
      BY <1>2 DEF GoesOn, Moves, Others, SameGroup, Stays, Quietly
    <2>2. ASSUME reached[r], chunk[r][1] \in Deliveries(o) PROVE FALSE
      <3>1. \E a \in Recipients : mailed'[<<EventInHand(r), a>>] > 0
        BY <2>1, <2>2 DEF ReachedInv
      <3> QED BY <2>2, <3>1, HandledInHand DEF InHand
    <2>3. ASSUME pc'[r] = "commit", chunk[r][1] = o PROVE Identified(o) /\ Log[o].id \in claims
      BY <1>2, <1>d, <2>2, <2>3 DEF GoesOn, Moves, Hands, Message, InHand, Identified
    <2>4. ASSUME pc[r] \in {"send", "record"}, chunk[r][1] \in Deliveries(o)
          PROVE  pc'[r] \in {"send", "record"}
      BY <1>2, <2>2, <2>4 DEF GoesOn, Moves
    <2>5. Past(o)
      BY <1>b, <1>c, <2>1, <2>3
    <2>6. ~AtWork(o)
      BY <1>b, <1>c, <2>1, <2>4
    <2> QED BY <2>5, <2>6
  <1>3. ASSUME NEW r \in Replicas, Records(r) PROVE Past(o) /\ ~AtWork(o)
    <2>1. /\ UNCHANGED <<committed, chunk, claims>> /\ \A u \in Replicas \ {r} : pc'[u] = pc[u]
          /\ InHand(r) \in rows' \cup logged'
      BY <1>3 DEF Records, Moves, Others, SameGroup, Stays
    <2>2. chunk[r][1] \notin Deliveries(o)
      BY <2>1, HandledInHand DEF InHand
    <2> QED BY <1>b, <1>c, <1>d, <2>1, <2>2
  <1>4. ASSUME NEW r \in Replicas, Fetches(r) PROVE Past(o) /\ ~AtWork(o)
    <2>1. /\ UNCHANGED <<committed, claims>> /\ pc[r] = "poll" /\ pc'[r] = "loop"
          /\ \A u \in Replicas \ {r} : pc'[u] = pc[u] /\ chunk'[u] = chunk[u]
      BY <1>4 DEF Fetches, Moves, Others
    <2> QED BY <1>b, <1>c, <2>1
  <1>5. ASSUME NEW r \in Replicas, Commit(r) PROVE Past(o) /\ ~AtWork(o)
    <2>1. /\ UNCHANGED claims /\ pc[r] = "commit" /\ pc'[r] \in {"poll", "loop"}
          /\ \A u \in Replicas \ {r} : pc'[u] = pc[u] /\ chunk'[u] = chunk[u]
          /\ committed' = IF owner = r THEN chunk[r][1] + 1 ELSE committed
          /\ owner = r => chunk[r][1] = committed
      BY <1>5, CommitFacts DEF Others, InOrder, InHand
    <2>2. o < committed' => o < committed \/ chunk[r][1] = o
      <3>1. o \in Nat /\ committed \in Nat
        BY DEF Offsets, TypeOK
      <3> QED BY <2>1, <3>1
    <2> QED BY <1>b, <1>c, <2>1, <2>2
  <1>6. ASSUME NEW r \in Replicas, NEW a \in Recipients, Resolved(r, a) PROVE Past(o) /\ ~AtWork(o)
    BY <1>6, <1>b, <1>c DEF Resolved
  <1>7. ASSUME Around PROVE Past(o) /\ ~AtWork(o)
    BY <1>7, <1>b, <1>c DEF Around
  <1>8. ASSUME NEW r \in Replicas, Dies(r)
        PROVE  Past(o) /\ (AtWork(o) => pc[r] \in {"send", "record"} /\ InHand(r) \in Deliveries(o))
    <2>1. /\ UNCHANGED <<committed, claims>> /\ pc'[r] = "down"
          /\ \A u \in Replicas \ {r} : pc'[u] = pc[u] /\ chunk'[u] = chunk[u]
      BY <1>8 DEF Dies, Moves, Others
    <2> QED BY <1>b, <1>c, <2>1 DEF InHand
  <1> QED BY <1>a, <1>1, <1>2, <1>3, <1>4, <1>5, <1>6, <1>7, <1>8 DEF Steps

\* The log is finite, and so is what can be lost of it.
LEMMA AdriftFinite == IsFiniteSet(Events) /\ (TypeOK => IsFiniteSet(Adrift) /\ Lost \subseteq Adrift)
  <1>1. IsFiniteSet(Offsets)
    <2>1. Len(Log) \in Nat
      BY DeliveryLog
    <2> QED BY <2>1, FS_Interval DEF Offsets
  <1>2. IsFiniteSet(SUBSET Offsets)
    BY <1>1, FS_SUBSET
  <1>3. Events \subseteq SUBSET Offsets
    BY EventFacts DEF Events
  <1>4. Adrift \subseteq Events
    BY DEF Adrift, Forgotten, Events
  <1>5. ASSUME TypeOK PROVE Lost \subseteq Adrift
    <2>1. Len(Log) \in Nat /\ committed \in 1 .. Len(Log) + 1
      BY <1>5, DeliveryLog DEF TypeOK
    <2>2. \A q \in 1 .. committed - 1 : q \in Offsets /\ q < committed
      BY <2>1 DEF Offsets
    <2>3. \A q \in 1 .. committed - 1 : ~Handled(q) /\ ~AtWork(q) => q \in Forgotten
      BY <2>2 DEF Forgotten, Past
    <2> QED BY <2>3 DEF Lost, Adrift
  <1> QED BY <1>2, <1>3, <1>4, <1>5, FS_Subset

\* Every step keeps the loss bounded by the crashes.
LEMMA AdriftStep ==
    ASSUME LoopInv, ReachedInv, AdriftBounded, Steps, TypeOK'
    PROVE  AdriftBounded'
  <1>a. /\ Adrift' = {Deliveries(o) : o \in Forgotten'}
        /\ \A o \in Forgotten' : o \in Offsets /\ Past(o)' /\ ~Handled(o)' /\ ~AtWork(o)'
    BY DEF Adrift, Forgotten, Deliveries, Offsets
  <1>b. "crash" \in FaultKinds
    BY DEF FaultKinds
  <1>c. /\ faults["crash"] \in Nat /\ faults'["crash"] \in Nat /\ faults'["crash"] >= faults["crash"]
        /\ IsFiniteSet(Adrift) /\ Cardinality(Adrift) \in Nat /\ Cardinality(Adrift) <= faults["crash"]
    BY <1>b, FaultsGrow, AdriftFinite, FS_CardinalityType DEF AdriftBounded, LoopInv
  <1>1. CASE \E r \in Replicas : Dies(r)
    <2>1. PICK r \in Replicas : Dies(r)
      BY <1>1
    <2>2. \A u \in Replicas : Dies(u) => u = r
      BY <2>1 DEF Dies, Moves, Others
    <2>3. \A o \in Forgotten' : o \in Forgotten \/ Deliveries(o) = EventInHand(r)
      <3>1. SUFFICES ASSUME NEW o \in Forgotten', o \notin Forgotten PROVE Deliveries(o) = EventInHand(r)
        OBVIOUS
      <3>2. o \in Offsets /\ pc[r] \in {"send", "record"} /\ InHand(r) \in Deliveries(o)
        BY <1>a, <2>2, <3>1, ForgottenStep DEF Forgotten
      <3> QED BY <3>2, EventFacts DEF EventInHand
    <2>4. Adrift' \subseteq Adrift \cup {EventInHand(r)}
      BY <1>a, <2>3 DEF Adrift
    <2>5. faults'["crash"] = faults["crash"] + 1
      BY <1>b, <2>1, FaultFacts DEF Dies, LoopInv
    <2>6. Cardinality(Adrift') \in Nat /\ Cardinality(Adrift') <= Cardinality(Adrift) + 1
      BY <1>c, <2>4, OneMore
    <2> QED BY <1>c, <2>5, <2>6 DEF AdriftBounded
  <1>2. CASE ~\E r \in Replicas : Dies(r)
    <2>1. \A o \in Forgotten' : o \in Forgotten
      BY <1>2, <1>a, ForgottenStep DEF Forgotten
    <2>2. Adrift' \subseteq Adrift
      BY <1>a, <2>1 DEF Adrift
    <2>3. Cardinality(Adrift') \in Nat /\ Cardinality(Adrift') <= Cardinality(Adrift)
      BY <1>c, <2>2, SmallerSet
    <2> QED BY <1>c, <2>3 DEF AdriftBounded
  <1> QED BY <1>1, <1>2

-----------------------------------------------------------------------------
(* That failure rows are true                                               *)

\* While the claims work, whoever holds an event was granted its claim, alone.
LEMMA OnceStep ==
    ASSUME LoopInv, ReachedInv, OnceInv, Steps
    PROVE  OnceInv'
  <1> USE DEF LoopInv
  <1>a. SUFFICES ASSUME Clean' PROVE ClaimedOnce'
    BY DEF OnceInv
  <1>b. /\ "late" \in FaultKinds /\ "claim" \in FaultKinds /\ "expire" \in FaultKinds
    BY DEF FaultKinds
  <1>c. /\ faults'["late"] = faults["late"] /\ faults'["claim"] = faults["claim"]
        /\ faults'["expire"] = faults["expire"] /\ Clean /\ ClaimedOnce
        /\ faults["late"] \in Nat /\ faults["claim"] \in Nat /\ faults["expire"] \in Nat
    <2>1. /\ faults["late"] \in Nat /\ faults'["late"] \in Nat /\ faults'["late"] >= faults["late"]
          /\ faults["claim"] \in Nat /\ faults'["claim"] \in Nat /\ faults'["claim"] >= faults["claim"]
          /\ faults["expire"] \in Nat /\ faults'["expire"] \in Nat /\ faults'["expire"] >= faults["expire"]
      BY <1>b, FaultsGrow
    <2>2. faults'["late"] + faults'["claim"] + faults'["expire"] = 0
      BY <1>a DEF Clean
    <2>3. faults'["late"] = 0 /\ faults'["claim"] = 0 /\ faults'["expire"] = 0
      <3>1. PICK x \in Nat, y \in Nat, z \in Nat :
               x = faults'["late"] /\ y = faults'["claim"] /\ z = faults'["expire"]
        BY <2>1
      <3>2. x + y + z = 0
        BY <2>2, <3>1
      <3>3. x = 0 /\ y = 0 /\ z = 0
        BY <3>2
      <3> QED BY <3>1, <3>3
    <2>4. faults["late"] = 0 /\ faults["claim"] = 0 /\ faults["expire"] = 0
      BY <2>1, <2>3
    <2>5. Clean
      BY <2>4 DEF Clean
    <2> QED BY <2>1, <2>3, <2>4, <2>5 DEF OnceInv
  <1>d. ~Fault("late") /\ ~Fault("claim") /\ ~Fault("expire")
    BY <1>b, <1>c, FaultFacts
  <1> DEFINE NR(o) == Deliveries(o) \cap (rows' \cup logged') = {}
             NM(o) == \A a \in Recipients : mailed'[<<Deliveries(o), a>>] = 0
  <1>f. \A u \in Replicas : /\ InHand(u)' = chunk'[u][1] /\ Message(u)' = Log[chunk'[u][1]]
                            /\ Holds(u)' <=> pc'[u] \in {"send", "record"} /\ Identified(chunk'[u][1])
    BY DEF InHand, Message, Holds, Identified
  <1>g. \A u \in Replicas : /\ InHand(u) = chunk[u][1] /\ Message(u) = Log[chunk[u][1]]
                            /\ Holds(u) <=> pc[u] \in {"send", "record"} /\ Identified(chunk[u][1])
    BY DEF InHand, Message, Holds
  <1>h. \A u \in Replicas : Holds(u) =>
          /\ Log[chunk[u][1]].id \in claims /\ NoRows(chunk[u][1])
          /\ ~reached[u] => NoMail(chunk[u][1])
    BY <1>c, <1>g DEF ClaimedOnce
  <1>i. \A u, w \in Replicas :
          Holds(u) /\ Holds(w) /\ Log[chunk[u][1]].id = Log[chunk[w][1]].id => u = w
    BY <1>c, <1>g DEF ClaimedOnce
  <1>j. /\ \A o \in Offsets : Identified(o) /\ Log[o].id \notin claims => NoRows(o) /\ NoMail(o)
        /\ \A o \in rows \cup logged : Identified(o) => NoMail(o)
    BY <1>c DEF ClaimedOnce
  <1>k. ASSUME /\ \A u \in Replicas : Holds(u)' =>
                    /\ Log[chunk'[u][1]].id \in claims' /\ NR(chunk'[u][1])
                    /\ ~reached'[u] => NM(chunk'[u][1]),
               \A u, w \in Replicas :
                 Holds(u)' /\ Holds(w)' /\ Log[chunk'[u][1]].id = Log[chunk'[w][1]].id => u = w,
               \A o \in Offsets : Identified(o) /\ Log[o].id \notin claims' => NR(o) /\ NM(o),
               \A o \in rows' \cup logged' : Identified(o) => NM(o)
        PROVE  ClaimedOnce'
    <2>1. \A u \in Replicas : Holds(u)' =>
            /\ Message(u)'.id \in claims' /\ NoRows(InHand(u))'
            /\ ~reached'[u] => NoMail(InHand(u))'
      BY <1>k, <1>f DEF NoRows, NoMail, Mails, InHand
    <2>2. \A u, w \in Replicas :
            Holds(u)' /\ Holds(w)' /\ Message(u)'.id = Message(w)'.id => u = w
      BY <1>k, <1>f
    <2>3. /\ \A o \in Offsets : Identified(o) /\ Log[o].id \notin claims' => NoRows(o)' /\ NoMail(o)'
          /\ \A o \in rows' \cup logged' : Identified(o) => NoMail(o)'
      BY <1>k DEF NoRows, NoMail, Mails
    <2> QED BY <2>1, <2>2, <2>3 DEF ClaimedOnce, Identified
  <1>l. ASSUME UNCHANGED <<mailed, rows, logged, claims>>,
               \A u \in Replicas : Holds(u)' =>
                 Holds(u) /\ chunk'[u][1] = chunk[u][1] /\ (reached[u] => reached'[u])
        PROVE  ClaimedOnce'
    <2>1. \A o : (NR(o) <=> NoRows(o)) /\ (NM(o) <=> NoMail(o))
      BY <1>l DEF NoRows, NoMail, Mails
    <2>2. \A u \in Replicas : Holds(u)' =>
            /\ Log[chunk'[u][1]].id \in claims' /\ NR(chunk'[u][1])
            /\ ~reached'[u] => NM(chunk'[u][1])
      BY <1>h, <1>l, <2>1
    <2>3. \A u, w \in Replicas :
            Holds(u)' /\ Holds(w)' /\ Log[chunk'[u][1]].id = Log[chunk'[w][1]].id => u = w
      BY <1>i, <1>l
    <2>4. /\ \A o \in Offsets : Identified(o) /\ Log[o].id \notin claims' => NR(o) /\ NM(o)
          /\ \A o \in rows' \cup logged' : Identified(o) => NM(o)
      BY <1>j, <1>l, <2>1
    <2> QED BY <1>k, <2>2, <2>3, <2>4
  <1>1. ASSUME NEW r \in Replicas, Granted(r) PROVE ClaimedOnce'
    <2>1. /\ UNCHANGED <<mailed, rows, logged, chunk, reached>> /\ pc'[r] = "send"
          /\ \A u \in Replicas \ {r} : pc'[u] = pc[u]
      BY <1>1 DEF Granted, Moves, Others, Quietly
    <2>2. CASE pc[r] = "loop"
      <3>1. UNCHANGED claims /\ ~Identified(chunk[r][1])
        BY <1>1, <1>g, <2>2 DEF Granted
      <3> QED BY <1>f, <1>g, <1>l, <2>1, <3>1
    <2>3. CASE pc[r] = "claim"
      <3>1. /\ Log[chunk[r][1]].id \notin claims /\ claims' = claims \cup {Log[chunk[r][1]].id}
            /\ Identified(chunk[r][1]) /\ chunk[r][1] \in Offsets
        BY <1>1, <1>d, <1>g, <2>3, InHandFacts DEF Granted, Hands, Identified
      <3>2. \A o : (NR(o) <=> NoRows(o)) /\ (NM(o) <=> NoMail(o))
        BY <2>1 DEF NoRows, NoMail, Mails
      <3>3. \A u \in Replicas : Holds(u)' => Holds(u) \/ u = r
        BY <1>f, <1>g, <2>1
      <3>4. NoRows(chunk[r][1]) /\ NoMail(chunk[r][1])
        BY <1>j, <3>1
      <3>5. \A u \in Replicas : Holds(u)' =>
              /\ Log[chunk'[u][1]].id \in claims' /\ NR(chunk'[u][1])
              /\ ~reached'[u] => NM(chunk'[u][1])
        BY <1>h, <2>1, <3>1, <3>2, <3>3, <3>4
      <3>6. \A u, w \in Replicas :
              Holds(u)' /\ Holds(w)' /\ Log[chunk'[u][1]].id = Log[chunk'[w][1]].id => u = w
        BY <1>h, <1>i, <2>1, <3>1, <3>3
      <3>7. /\ \A o \in Offsets : Identified(o) /\ Log[o].id \notin claims' => NR(o) /\ NM(o)
            /\ \A o \in rows' \cup logged' : Identified(o) => NM(o)
        BY <1>j, <2>1, <3>1, <3>2
      <3> QED BY <1>k, <3>5, <3>6, <3>7
    <2> QED BY <1>1, <2>2, <2>3 DEF Granted
  <1>2. ASSUME NEW r \in Replicas, GoesOn(r) PROVE ClaimedOnce'
    <2>1. /\ UNCHANGED <<mailed, rows, logged, claims, chunk, reached>>
          /\ \A u \in Replicas \ {r} : pc'[u] = pc[u]
      BY <1>2 DEF GoesOn, Moves, Others, Quietly, Stays
    <2>2. Holds(r)' => Holds(r)
      BY <1>2, <1>f, <1>g, <2>1 DEF GoesOn, Moves
    <2> QED BY <1>f, <1>g, <1>l, <2>1, <2>2
  <1>3. ASSUME NEW r \in Replicas, Dies(r) \/ Fetches(r) \/ Commit(r) PROVE ClaimedOnce'
    <2>1. /\ UNCHANGED <<mailed, rows, logged, claims>> /\ pc'[r] \in {"down", "poll", "loop"}
          /\ \A u \in Replicas \ {r} : pc'[u] = pc[u] /\ chunk'[u] = chunk[u] /\ reached'[u] = reached[u]
      BY <1>3, CommitFacts DEF Dies, Fetches, Moves, Others, Quietly
    <2> QED BY <1>f, <1>g, <1>l, <2>1
  <1>4. ASSUME Around PROVE ClaimedOnce'
    <2>1. UNCHANGED <<mailed, rows, logged, claims, pc, chunk, reached>>
      BY <1>4, <1>d DEF Around
    <2> QED BY <1>f, <1>g, <1>l, <2>1
  <1>5. ASSUME NEW r \in Replicas, Records(r) PROVE ClaimedOnce'
    <2>1. /\ UNCHANGED <<mailed, claims, chunk, reached>> /\ pc[r] = "record" /\ pc'[r] = "commit"
          /\ \A u \in Replicas \ {r} : pc'[u] = pc[u]
          /\ rows' \cup logged' = rows \cup logged \cup {chunk[r][1]} /\ ~reached[r]
      BY <1>5, <1>g DEF Records, Moves, Others, Stays, ReachedInv
    <2>2. chunk[r][1] \in Offsets
      BY <1>g, <2>1, InHandFacts
    <2>3. ASSUME NEW o \in Offsets, Identified(o), chunk[r][1] \in Deliveries(o)
          PROVE  Holds(r) /\ Log[o].id = Log[chunk[r][1]].id
      BY <1>g, <2>1, <2>2, <2>3, SameEvent
    <2>4. \A o : NM(o) <=> NoMail(o)
      BY <2>1 DEF NoMail, Mails
    <2>5. ASSUME NEW o, NoRows(o), chunk[r][1] \notin Deliveries(o) PROVE NR(o)
      BY <2>1, <2>5 DEF NoRows
    <2>6. ASSUME NEW u \in Replicas, Holds(u)'
          PROVE  /\ Holds(u) /\ u # r /\ Log[chunk'[u][1]].id \in claims' /\ NR(chunk'[u][1])
                 /\ ~reached'[u] => NM(chunk'[u][1])
      <3>1. Holds(u) /\ u # r /\ Identified(chunk[u][1])
        BY <1>f, <1>g, <2>1, <2>6
      <3>2. chunk[u][1] \in Offsets
        BY <1>g, <3>1, InHandFacts
      <3>3. chunk[r][1] \notin Deliveries(chunk[u][1])
        BY <1>i, <2>3, <3>1, <3>2
      <3> QED BY <1>h, <2>1, <2>4, <2>5, <3>1, <3>3
    <2>7. \A u, w \in Replicas :
            Holds(u)' /\ Holds(w)' /\ Log[chunk'[u][1]].id = Log[chunk'[w][1]].id => u = w
      BY <1>i, <2>1, <2>6
    <2>8. ASSUME NEW o \in Offsets, Identified(o), Log[o].id \notin claims'
          PROVE  NR(o) /\ NM(o)
      BY <1>h, <1>j, <2>1, <2>3, <2>4, <2>5, <2>8
    <2>9. ASSUME NEW o \in rows' \cup logged', Identified(o) PROVE NM(o)
      <3>1. CASE o = chunk[r][1]
        BY <1>g, <1>h, <2>1, <2>4, <2>9, <3>1
      <3> QED BY <1>j, <2>1, <2>4, <2>9, <3>1
    <2> QED BY <1>k, <2>6, <2>7, <2>8, <2>9
  <1>6. ASSUME NEW r \in Replicas, NEW a \in Recipients, Resolved(r, a) PROVE ClaimedOnce'
    <2>1. /\ UNCHANGED <<pc, claims, chunk, rows, logged>> /\ pc[r] = "send"
          /\ \A u \in Replicas : reached[u] => reached'[u]
          /\ \A u \in Replicas \ {r} : reached'[u] = reached[u]
      BY <1>6 DEF Resolved, TypeOK
    <2>2. chunk[r][1] \in Offsets
      BY <1>g, <2>1, InHandFacts
    <2>3. CASE mailed' = mailed
      BY <1>f, <1>g, <1>l, <2>1, <2>3
    <2>4. CASE mailed' # mailed
      <3>1. reached'[r]
        BY <1>6, <1>c, <2>4, MailFacts
      <3>2. ASSUME NEW o \in Offsets, Identified(o), NoMail(o), ~(Holds(r) /\ Log[o].id = Log[chunk[r][1]].id)
            PROVE  NM(o)
        <4>1. chunk[r][1] \notin Deliveries(o)
          BY <1>g, <2>1, <2>2, <3>2, SameEvent
        <4>2. Deliveries(o) # EventInHand(r) /\ Deliveries(o) \in Events
          BY <1>g, <2>2, <4>1, SameEvent, EventFacts DEF EventInHand
        <4>3. \A b \in Recipients : mailed'[<<Deliveries(o), b>>] = mailed[<<Deliveries(o), b>>]
          BY <1>6, <4>2, MailFacts
        <4> QED BY <3>2, <4>3 DEF NoMail, Mails
      <3>3. \A o : NR(o) <=> NoRows(o)
        BY <2>1 DEF NoRows
      <3>4. ASSUME NEW u \in Replicas, Holds(u)'
            PROVE  /\ Holds(u) /\ Log[chunk'[u][1]].id \in claims' /\ NR(chunk'[u][1])
                   /\ ~reached'[u] => NM(chunk'[u][1])
        <4>1. Holds(u) /\ Identified(chunk[u][1])
          BY <1>f, <1>g, <2>1, <3>4
        <4>2. chunk[u][1] \in Offsets
          BY <1>g, <4>1, InHandFacts
        <4>3. ~reached'[u] => NM(chunk[u][1])
          BY <1>h, <1>i, <2>1, <3>1, <3>2, <4>1, <4>2
        <4> QED BY <1>h, <2>1, <3>3, <4>1, <4>3
      <3>5. \A u, w \in Replicas :
              Holds(u)' /\ Holds(w)' /\ Log[chunk'[u][1]].id = Log[chunk'[w][1]].id => u = w
        BY <1>i, <2>1, <3>4
      <3>6. ASSUME NEW o \in Offsets, Identified(o), Log[o].id \notin claims'
            PROVE  NR(o) /\ NM(o)
        BY <1>h, <1>j, <2>1, <3>2, <3>3, <3>6
      <3>7. ASSUME NEW o \in rows' \cup logged', Identified(o) PROVE NM(o)
        <4>1. o \in Offsets /\ o \in rows \cup logged /\ NoMail(o)
          BY <1>j, <2>1, <3>7 DEF TypeOK
        <4>2. Holds(r) => Log[o].id # Log[chunk[r][1]].id
          BY <1>g, <1>h, <2>2, <3>7, <4>1, SameEvent DEF NoRows
        <4> QED BY <3>2, <3>7, <4>1, <4>2
      <3> QED BY <1>k, <3>4, <3>5, <3>6, <3>7
    <2> QED BY <2>3, <2>4
  <1> QED BY <1>1, <1>2, <1>3, <1>4, <1>5, <1>6 DEF Steps

-----------------------------------------------------------------------------
(* The theorems                                                             *)

\* The invariant holds when nothing is started and nothing has been sent.
LEMMA DeliveryInit ==
    ASSUME Init
    PROVE  DeliveryInv
  <1>1. LoopInv
    <2>1. Len(Log) \in Nat
      BY DeliveryLog
    <2>2. TypeOK
      BY <2>1 DEF Init, TypeOK, PCs
    <2>3. Hands /\ InOrder
      BY DeliveryReplicas DEF Init, Hands, InOrder
    <2> QED BY <2>2, <2>3 DEF LoopInv
  <1>2. ReachedInv
    BY DEF Init, ReachedInv
  <1>3. \A k \in FaultKinds : faults[k] = 0
    BY DEF Init
  <1>4. \A o \in Offsets, a \in Recipients : Mails(o, a) = 0
    BY EventFacts DEF Init, Mails
  <1>5. Covered
    <2>1. SUFFICES ASSUME NEW o \in Offsets, NEW a \in Recipients
                   PROVE  /\ IsFiniteSet(Pending(o, a))
                          /\ Mails(o, a) + Cardinality(Pending(o, a)) + Grant(o)
                               <= 1 + faults["claim"] + faults["expire"]
      BY DEF Covered
    <2>2. Pending(o, a) = {}
      BY DEF Init, Pending
    <2>3. faults["claim"] = 0 /\ faults["expire"] = 0 /\ Grant(o) = 1
      BY <1>3 DEF FaultKinds, Grant, Init
    <2> QED BY <1>4, <2>2, <2>3, FS_EmptySet
  <1>6. AdriftBounded
    <2>1. Forgotten = {}
      <3>1. \A o \in Offsets : ~Past(o)
        BY DEF Init, Past, Offsets
      <3> QED BY <3>1 DEF Forgotten
    <2>2. Adrift = {} /\ faults["crash"] = 0
      BY <1>3, <2>1 DEF Adrift, FaultKinds
    <2> QED BY <2>2, FS_EmptySet DEF AdriftBounded
  <1>7. OnceInv
    BY <1>4 DEF Init, OnceInv, ClaimedOnce, Holds, NoRows, NoMail
  <1> QED BY <1>1, <1>2, <1>5, <1>6, <1>7 DEF DeliveryInv

\* Every step keeps the invariant.
LEMMA DeliveryStep ==
    ASSUME DeliveryInv, [Next]_vars
    PROVE  DeliveryInv'
  <1>1. LoopInv /\ ReachedInv /\ Covered /\ AdriftBounded /\ OnceInv /\ Steps
    BY StepKinds DEF DeliveryInv
  <1>2. LoopInv' /\ TypeOK'
    BY <1>1, LoopStep DEF LoopInv
  <1>3. ReachedInv' /\ Covered' /\ AdriftBounded' /\ OnceInv'
    BY <1>1, <1>2, ReachedStep, CoveredStep, AdriftStep, OnceStep
  <1> QED BY <1>2, <1>3 DEF DeliveryInv

\* The e-mail consumer keeps its invariant: the owner works in order from the committed
\* offset, claims cover what is sent, crashes what is lost, and while claims work one
\* replica handles an event.
THEOREM DeliveryInvariant == Spec => []DeliveryInv
  <1>1. Init => DeliveryInv
    BY DeliveryInit
  <1>2. DeliveryInv /\ [Next]_vars => DeliveryInv'
    BY DeliveryStep
  <1> QED BY <1>1, <1>2, PTL DEF Spec

\* A recipient gets the mail of an event at most once, and once more for each time Redis
\* failed to answer _claim or lost the key, whatever crashes, rebalances and duplicates
\* on the topic there are.
THEOREM DuplicatesBoundedAlways == Spec => []DuplicatesBounded
  <1>1. ASSUME DeliveryInv PROVE DuplicatesBounded
    <2>1. SUFFICES ASSUME NEW o \in Offsets, NEW a \in Recipients, Identified(o)
                   PROVE  Mails(o, a) <= 1 + faults["claim"] + faults["expire"]
      BY DEF DuplicatesBounded, Identified
    <2>2. /\ IsFiniteSet(Pending(o, a))
          /\ Mails(o, a) + Cardinality(Pending(o, a)) + Grant(o) <= 1 + faults["claim"] + faults["expire"]
      BY <1>1, <2>1 DEF DeliveryInv, Covered
    <2>3. Mails(o, a) \in Nat /\ Cardinality(Pending(o, a)) \in Nat /\ Grant(o) \in Nat
      BY <1>1, <2>2, EventFacts, FS_CardinalityType DEF DeliveryInv, LoopInv, TypeOK, Mails, Grant
    <2>4. faults["claim"] \in Nat /\ faults["expire"] \in Nat
      BY <1>1 DEF DeliveryInv, LoopInv, TypeOK, FaultKinds
    <2> QED BY <2>2, <2>3, <2>4
  <1> QED BY <1>1, DeliveryInvariant, PTL

\* At most one event is lost for each crash, the one its process had claimed: the
\* offset is committed only after the event was delivered or recorded.
THEOREM LossBoundedAlways == Spec => []LossBounded
  <1>1. ASSUME DeliveryInv PROVE LossBounded
    <2>1. Lost \subseteq Adrift /\ IsFiniteSet(Adrift) /\ Cardinality(Adrift) <= faults["crash"]
      BY <1>1, AdriftFinite DEF DeliveryInv, LoopInv, AdriftBounded
    <2>2. /\ Cardinality(Lost) \in Nat /\ Cardinality(Adrift) \in Nat
          /\ Cardinality(Lost) <= Cardinality(Adrift)
      BY <2>1, SmallerSet
    <2>3. faults["crash"] \in Nat
      BY <1>1 DEF DeliveryInv, LoopInv, TypeOK, FaultKinds
    <2> QED BY <2>1, <2>2, <2>3 DEF LossBounded
  <1> QED BY <1>1, DeliveryInvariant, PTL

\* No failure row reports an event that somebody got, unless a mail arrived after its
\* deadline or a claim failed or was lost.
THEOREM RowsAreTrueAlways == Spec => []RowsAreTrue
  <1>1. ASSUME DeliveryInv PROVE RowsAreTrue
    BY <1>1 DEF DeliveryInv, OnceInv, Clean, ClaimedOnce, NoMail, Identified, RowsAreTrue
  <1> QED BY <1>1, DeliveryInvariant, PTL
=============================================================================
