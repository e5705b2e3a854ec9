------------------------ MODULE MCNotificationDelivery ------------------------
(* Instances of NotificationDelivery for TLC.                                *)
EXTENDS NotificationDelivery, TLC

CONSTANTS r1, r2

MCReplicas == {r1, r2}

Event(id, to) == [json |-> TRUE, id |-> id, email |-> TRUE, to |-> to]
Malformed == [json |-> FALSE, id |-> NoId, email |-> FALSE, to |-> {}]

\* An event for two people, published twice, and between the two messages that cannot
\* be delivered: a malformed one, and one without event_id and e-mail channel.
LogMixed ==
  <<Event("e", {"a", "b"}), Malformed, [Event(NoId, {"a"}) EXCEPT !.email = FALSE],
    Event("e", {"a", "b"})>>

LogOne == <<Event("e", {"a"})>>

MCFaults == [k \in FaultKinds |-> 1]
CrashOnly == [k \in FaultKinds |-> IF k = "crash" THEN 1 ELSE 0]
===============================================================================
