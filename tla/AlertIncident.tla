----------------------------- MODULE AlertIncident -----------------------------
(***************************************************************************)
(* What a BAND notification promises for one (notification, tenant,        *)
(* subject), whatever caches and pods are behind it: an incident opens     *)
(* when a band is reached, climbs, and is closed only for rows that reset. *)
(* Each band of an incident raises at most one alert, and a raised alert   *)
(* stays pending until it is sent, recorded as failed, or lost with the    *)
(* process that raised it.                                                 *)
(***************************************************************************)
EXTENDS Naturals, Sequences

CONSTANTS
  NBands,    \* bands are 1..NBands, in ascending order
  Resets     \* spec.resets: monitoring rows close again, usage rows do not

VARIABLES
  open,      \* an incident is open
  incident,  \* how many incidents were opened
  band,      \* the highest band of the latest incident
  pending,   \* alerts raised and not yet dealt with
  sent,      \* alerts handed to Kafka, in order
  failed,    \* alerts with a failure row
  lost       \* alerts whose process died, or never learnt that it had raised them

vars == <<open, incident, band, pending, sent, failed, lost>>

Init ==
  /\ open = FALSE /\ incident = 0 /\ band = 0
  /\ pending = {} /\ sent = <<>> /\ failed = {} /\ lost = {}

\* Band b is reached: a new incident, or the open one climbs.
Climb(b) ==
  /\ open => b > band
  /\ open' = TRUE
  /\ incident' = IF open THEN incident ELSE incident + 1
  /\ band' = b

Raise(b) ==
  /\ Climb(b)
  /\ pending' = pending \union {[inc |-> incident', band |-> b]}
  /\ UNCHANGED <<sent, failed, lost>>

\* The alert is raised, but its process never learns of it.
RaiseUnheard(b) ==
  /\ Climb(b)
  /\ lost' = lost \union {[inc |-> incident', band |-> b]}
  /\ UNCHANGED <<pending, sent, failed>>

Rearm ==
  /\ Resets /\ open
  /\ open' = FALSE
  /\ UNCHANGED <<incident, band, pending, sent, failed, lost>>

Send(a) ==
  /\ pending' = pending \ {a}
  /\ sent' = Append(sent, a)
  /\ UNCHANGED <<open, incident, band, failed, lost>>

Fail(a) ==
  /\ pending' = pending \ {a}
  /\ failed' = failed \union {a}
  /\ UNCHANGED <<open, incident, band, sent, lost>>

Lose(a) ==
  /\ pending' = pending \ {a}
  /\ lost' = lost \union {a}
  /\ UNCHANGED <<open, incident, band, sent, failed>>

Next ==
  \/ \E b \in 1..NBands : Raise(b) \/ RaiseUnheard(b)
  \/ Rearm
  \/ \E a \in pending : Send(a) \/ Fail(a) \/ Lose(a)

Spec == Init /\ [][Next]_vars
================================================================================
