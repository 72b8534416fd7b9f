----------------------------- MODULE EventRelay -----------------------------
(***************************************************************************)
(* What the transactional outbox promises of the events business commands  *)
(* emit: the outside world hears of an event only if its command is        *)
(* committed, possibly more than once, and MK-Pro takes an event for       *)
(* delivered only if the outside world has heard of it.                    *)
(***************************************************************************)
CONSTANT Events

VARIABLES published, delivered, acknowledged

relay == <<published, delivered, acknowledged>>

Init == published = {} /\ delivered = {} /\ acknowledged = {}

Publish(e) ==
    /\ published' = published \cup {e}
    /\ UNCHANGED <<delivered, acknowledged>>

Deliver(e) ==
    /\ e \in published
    /\ delivered' = delivered \cup {e}
    /\ UNCHANGED <<published, acknowledged>>

Acknowledge(e) ==
    /\ e \in delivered
    /\ acknowledged' = acknowledged \cup {e}
    /\ UNCHANGED <<published, delivered>>

\* An operator, or a sender that is behind the times, has it sent again.
Reopen(e) ==
    /\ acknowledged' = acknowledged \ {e}
    /\ UNCHANGED <<published, delivered>>

Next == \E e \in Events : Publish(e) \/ Deliver(e) \/ Acknowledge(e) \/ Reopen(e)

Spec == Init /\ [][Next]_relay
=============================================================================
