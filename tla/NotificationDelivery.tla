------------------------- MODULE NotificationDelivery -------------------------
(***************************************************************************)
(* The e-mail consumer: services/kafka-consumers,                          *)
(* consumers/notifications_consumer, reading one partition of the          *)
(* notification topic with the replicas of one group.                      *)
(*                                                                         *)
(*   poll -> loop -> claim -> send -> (record ->) commit -> loop ...       *)
(*                       \-> commit (already claimed)                      *)
(*                                                                         *)
(* The group is taken from PpuConsumer at a coarser grain.  Rebalance      *)
(* callbacks run only inside consume(), so a replica that was timed out    *)
(* works through its chunk without knowing, and its commits are refused.   *)
(* Every message is committed before the next is taken, so the owner's     *)
(* next fetch starts at the committed offset; what a revocation inside     *)
(* consume() leaves in the chunk is skipped by the fence and so is never   *)
(* taken here.                                                             *)
(***************************************************************************)
EXTENDS Integers, Sequences, FiniteSets, FiniteSetsExt

CONSTANTS
  Replicas,    \* consumer processes of the group
  NoReplica,   \* the partition is assigned to nobody
  Log,         \* the partition: the messages, all produced already
  BatchSize,   \* KAFKA_BATCH_SIZE
  MaxFaults,   \* bound: how often each kind of fault may happen
  MaxTogether  \* bound: how many faults may happen in all

\* json: it parses as an object.  id: event_id, or NoId.  email: EMAIL is one of its
\* channels.  to: its recipients.
NoId == ""
Messages == [json: BOOLEAN, id: STRING, email: BOOLEAN, to: SUBSET STRING]

Offsets == 1..Len(Log)
Ids == {Log[o].id : o \in Offsets} \ {NoId}
Recipients == UNION {Log[o].to : o \in Offsets}

\* The offsets that carry the same event.
Deliveries(o) ==
  IF Log[o].json /\ Log[o].id # NoId
  THEN {q \in Offsets : Log[q].json /\ Log[q].id = Log[o].id}
  ELSE {o}
Events == {Deliveries(o) : o \in Offsets}

\* crash: process death.  lost: the group times the replica out or takes the
\* partition.  claim: the Redis SET raises.  expire: the claim's key is gone.  smtp:
\* a send fails.  late: a send outlives its deadline although the mail arrives.  row:
\* the failure row cannot be written.
FaultKinds == {"crash", "lost", "claim", "expire", "smtp", "late", "row"}

ASSUME DeliveryReplicas == NoReplica \notin Replicas
ASSUME DeliveryLog == Log \in Seq(Messages)
ASSUME DeliveryBatch == BatchSize \in Nat \ {0}
ASSUME DeliveryFaults == MaxFaults \in [FaultKinds -> Nat] /\ MaxTogether \in Nat

VARIABLES
  owner,       \* which replica the partition is assigned to
  committed,   \* the group's committed offset: the next message to read
  pc,          \* where each replica's loop stands
  chunk,       \* its messages, the one in hand first
  open,        \* recipients whose send is outstanding
  reached,     \* a send of the message in hand was confirmed
  throttled,   \* FailureLogger._throttle: kinds of failure with a recent row
  claims,      \* Redis: the delivered:* keys
  mailed,      \* how often each recipient got the mail of each event
  rows,        \* offsets with a row in notification_alert_failure_log
  logged,      \* offsets with an error line, or a count in the next row, instead
  faults       \* how often each kind of fault has happened

broker == <<owner, committed>>
work == <<chunk, open, reached>>
results == <<mailed, rows, logged>>
vars == <<broker, pc, work, throttled, claims, results, faults>>

PCs == {"down", "poll", "loop", "claim", "send", "record", "commit"}

Init ==
  /\ owner = NoReplica
  /\ committed = 1
  /\ pc = [r \in Replicas |-> "down"]
  /\ chunk = [r \in Replicas |-> <<>>]
  /\ open = [r \in Replicas |-> {}]
  /\ reached = [r \in Replicas |-> FALSE]
  /\ throttled = [r \in Replicas |-> {}]
  /\ claims = {}
  /\ mailed = [m \in Events \X Recipients |-> 0]
  /\ rows = {} /\ logged = {}
  /\ faults = [k \in FaultKinds |-> 0]

\* The message replica r has in hand.
InHand(r) == chunk[r][1]
Message(r) == Log[InHand(r)]
EventInHand(r) == Deliveries(InHand(r))

Fault(k) ==
  /\ faults[k] < MaxFaults[k]
  /\ MapThenSumSet(LAMBDA j : faults[j], FaultKinds) < MaxTogether
  /\ faults' = [faults EXCEPT ![k] = @ + 1]
NoFault == UNCHANGED faults

Goto(r, label) == pc' = [pc EXCEPT ![r] = label]

-------------------------------------------------------------------------------
(* The process and the group.                                                *)

Start(r) ==
  /\ pc[r] = "down"
  /\ Goto(r, "poll")
  /\ NoFault
  /\ UNCHANGED <<broker, work, throttled, claims, results>>

\* The process ends: a kill, an error that run() lets through, or SIGTERM at the top
\* of the loop, where there is nothing in hand.
Crash(r) ==
  /\ pc[r] # "down"
  /\ Fault("crash")
  /\ Goto(r, "down")
  /\ owner' = IF owner = r THEN NoReplica ELSE owner
  /\ chunk' = [chunk EXCEPT ![r] = <<>>]
  /\ open' = [open EXCEPT ![r] = {}]
  /\ reached' = [reached EXCEPT ![r] = FALSE]
  /\ throttled' = [throttled EXCEPT ![r] = {}]
  /\ UNCHANGED <<committed, claims, results>>

\* The coordinator takes the partition away; the replica learns at its next fetch.
TakeAway(r) ==
  /\ owner = r
  /\ Fault("lost")
  /\ owner' = NoReplica
  /\ UNCHANGED <<committed, pc, work, throttled, claims, results>>

\* consume_batch, with the assignment it may bring: up to BatchSize messages from
\* the committed offset on.
Fetch(r) ==
  /\ pc[r] = "poll" /\ owner \in {r, NoReplica}
  /\ owner' = r
  /\ \E n \in 1..BatchSize :
       /\ committed + n - 1 <= Len(Log)
       /\ chunk' = [chunk EXCEPT ![r] = [i \in 1..n |-> committed + i - 1]]
  /\ Goto(r, "loop")
  /\ NoFault
  /\ UNCHANGED <<committed, open, reached, throttled, claims, results>>

-------------------------------------------------------------------------------
(* The handler.                                                              *)

\* _deliver: one send per recipient, all started at once; none without the channel.
StartSends(r) ==
  /\ Goto(r, "send")
  /\ open' = [open EXCEPT ![r] = IF Message(r).email THEN Message(r).to ELSE {}]
  /\ UNCHANGED <<broker, chunk, reached, throttled, results>>

\* The envelope is parsed: a malformed one is recorded, one without an event_id is
\* sent without a claim.
Begin(r) ==
  /\ pc[r] = "loop"
  /\ \/ /\ Message(r).json => Message(r).id # NoId
        /\ Goto(r, IF Message(r).json THEN "claim" ELSE "record")
        /\ UNCHANGED <<broker, work, throttled, results>>
     \/ Message(r).json /\ Message(r).id = NoId /\ StartSends(r)
  /\ NoFault
  /\ UNCHANGED claims

\* Mistake: a plain SET, which always succeeds.
ClaimPlainSet(r) ==
  /\ pc[r] = "claim"
  /\ claims' = claims \union {Message(r).id}
  /\ StartSends(r)
  /\ NoFault

\* _claim: SET NX on the event_id.
Claim(r) ==
  /\ pc[r] = "claim" /\ Message(r).id \notin claims
  /\ claims' = claims \union {Message(r).id}
  /\ StartSends(r)
  /\ NoFault

\* Redis raises, before or after it has executed the SET: delivered without dedup.
ClaimFails(r) ==
  /\ pc[r] = "claim"
  /\ Fault("claim")
  /\ claims' \in {claims, claims \union {Message(r).id}}
  /\ StartSends(r)

\* The message in hand is done with; the loop takes the next one or fetches.
Advance(r) ==
  /\ chunk' = [chunk EXCEPT ![r] = Tail(@)]
  /\ open' = [open EXCEPT ![r] = {}]
  /\ reached' = [reached EXCEPT ![r] = FALSE]
  /\ Goto(r, IF Len(chunk[r]) = 1 THEN "poll" ELSE "loop")

\* Mistake: the loop goes on without committing what it skips.
SkipUncommitted(r) ==
  /\ pc[r] = "claim" /\ Message(r).id \in claims
  /\ Advance(r)
  /\ NoFault
  /\ UNCHANGED <<broker, throttled, claims, mailed, rows, logged>>

\* "Redelivery of an already handled event - skipping".
Skip(r) ==
  /\ pc[r] = "claim" /\ Message(r).id \in claims
  /\ Goto(r, "commit")
  /\ NoFault
  /\ UNCHANGED <<broker, work, throttled, claims, mailed, rows, logged>>

\* emailer.send: confirmed; failed (rendering, SMTP); or past its deadline though
\* the mail arrives.
Sent(r, a) ==
  /\ pc[r] = "send" /\ a \in open[r]
  /\ open' = [open EXCEPT ![r] = @ \ {a}]
  /\ \/ /\ mailed' = [mailed EXCEPT ![<<EventInHand(r), a>>] = @ + 1]
        /\ reached' = [reached EXCEPT ![r] = TRUE]
        /\ NoFault
     \/ Fault("smtp") /\ UNCHANGED <<mailed, reached>>
     \/ /\ Fault("late")
        /\ mailed' = [mailed EXCEPT ![<<EventInHand(r), a>>] = @ + 1]
        /\ UNCHANGED reached
  /\ UNCHANGED <<broker, pc, chunk, throttled, claims, rows, logged>>

\* Mistake: the outcome of the sends is not looked at.
GatheredBlindly(r) ==
  /\ pc[r] = "send" /\ open[r] = {}
  /\ Goto(r, "commit")
  /\ NoFault
  /\ UNCHANGED <<broker, work, throttled, claims, results>>

\* Mistake: the first recipient reached does not count.
GatheredInverted(r) ==
  /\ pc[r] = "send" /\ open[r] = {}
  /\ Goto(r, IF reached[r] THEN "record" ELSE "commit")
  /\ NoFault
  /\ UNCHANGED <<broker, work, throttled, claims, results>>

\* Delivered when any recipient was reached, else a failure (no channel, nobody to
\* send to, or every send failed).
Gathered(r) ==
  /\ pc[r] = "send" /\ open[r] = {}
  /\ Goto(r, IF reached[r] THEN "commit" ELSE "record")
  /\ NoFault
  /\ UNCHANGED <<broker, work, throttled, claims, results>>

\* failures.record: a failure without an event_id is throttled, per kind of failure
\* (invalid envelope or failed delivery) and process; a row that cannot be written is an error line.
Record(r) ==
  LET kind == Message(r).json
      anonymous == ~Message(r).json \/ Message(r).id = NoId
  IN
  /\ pc[r] = "record"
  /\ Goto(r, "commit")
  /\ IF anonymous /\ kind \in throttled[r]
     THEN /\ logged' = logged \union {InHand(r)} /\ NoFault
          /\ UNCHANGED <<rows, throttled>>
     ELSE /\ throttled' = IF anonymous THEN [throttled EXCEPT ![r] = @ \union {kind}]
                          ELSE throttled
          /\ \/ rows' = rows \union {InHand(r)} /\ NoFault /\ UNCHANGED logged
             \/ Fault("row") /\ logged' = logged \union {InHand(r)} /\ UNCHANGED rows
  /\ UNCHANGED <<broker, work, claims, mailed>>

\* record_processed; a replica that lost the partition is refused, and goes on.
Commit(r) ==
  /\ pc[r] = "commit"
  /\ committed' = IF owner = r THEN InHand(r) + 1 ELSE committed
  /\ Advance(r)
  /\ NoFault
  /\ UNCHANGED <<owner, throttled, claims, results>>

-------------------------------------------------------------------------------
(* Redis and the clock.                                                      *)

\* DELIVERY_CLAIM_TTL_SECONDS runs out, or Redis loses the key.
Expire(i) ==
  /\ i \in claims
  /\ Fault("expire")
  /\ claims' = claims \ {i}
  /\ UNCHANGED <<broker, pc, work, throttled, results>>

\* DEFAULT_FAILURE_THROTTLE_S has passed.
WindowEnds(r) ==
  /\ throttled[r] # {}
  /\ throttled' = [throttled EXCEPT ![r] = {}]
  /\ NoFault
  /\ UNCHANGED <<broker, pc, work, claims, results>>

Handle(r) ==
  \/ Begin(r) \/ Claim(r) \/ ClaimFails(r) \/ Skip(r)
  \/ (\E a \in Recipients : Sent(r, a)) \/ Gathered(r) \/ Record(r) \/ Commit(r)

Run(r) == Start(r) \/ Fetch(r) \/ Handle(r)

\* Everything is read and nobody has anything in hand.
Done == committed > Len(Log) /\ (\A r \in Replicas : pc[r] = "poll") /\ UNCHANGED vars

Next ==
  \/ \E r \in Replicas : Run(r) \/ Crash(r) \/ TakeAway(r) \/ WindowEnds(r)
  \/ \E i \in Ids : Expire(i)
  \/ Done

\* A replica's loop keeps running and a dead one is started again.
Fairness == \A r \in Replicas : WF_vars(Run(r))

Spec == Init /\ [][Next]_vars /\ Fairness

-------------------------------------------------------------------------------
(* Properties.                                                               *)

\* How often a got the mail of the event of o.
Mails(o, a) == mailed[<<Deliveries(o), a>>]

\* Somebody got the mail, or a failure row, a count in one or an error line says why
\* nobody did.
Handled(o) ==
  \/ Deliveries(o) \cap (rows \union logged) # {}
  \/ \E a \in Recipients : Mails(o, a) > 0

\* A replica is at work on the event, claimed or recorded but not yet sent.
AtWork(o) ==
  \E r \in Replicas : pc[r] \in {"send", "record"} /\ InHand(r) \in Deliveries(o)

\* The claim taken before sending catches redeliveries after crashes and rebalances,
\* and duplicates on the topic: a recipient gets the mail of an event again only
\* once for each time Redis failed to answer or lost the key.
DuplicatesBounded ==
  \A o \in Offsets : \A a \in Recipients :
    Log[o].json /\ Log[o].id # NoId =>
      Mails(o, a) <= 1 + faults["claim"] + faults["expire"]

\* Events the group has moved past that nobody was told about.
Lost == {Deliveries(o) : o \in {q \in 1..(committed - 1) : ~Handled(q) /\ ~AtWork(q)}}

\* The message is committed only after it was delivered or recorded: a crash loses at
\* most the one event its process had claimed, and nothing else loses any.
LossBounded == Cardinality(Lost) <= faults["crash"]

\* "An event counts as delivered when the email reached at least one recipient.  When
\* it did not, one row goes to notification_alert_failure_log": the rows do not
\* report an event that was delivered, unless a mail arrived after its deadline or
\* the event was handled twice.
RowsAreTrue ==
  faults["late"] + faults["claim"] + faults["expire"] = 0 =>
    \A o \in rows \union logged :
      Log[o].json /\ Log[o].id # NoId => \A a \in Recipients : Mails(o, a) = 0

\* One stuck or failing event never holds up the ones behind it for ever.
AllCommitted == <>(committed = Len(Log) + 1)
===============================================================================
