--------------------------- MODULE DigestDelivery ---------------------------
(***************************************************************************)
(* What the morning digest promises, without saying how: for each local   *)
(* date one digest is published once, as an ordered series of parts, and  *)
(* its parts reach the chat in that order, each at least once.  A part is *)
(* recorded only after a copy of it was accepted, a recorded part is never *)
(* sent again, and the date is closed only when every part is recorded.   *)
(* The scheduler and its tables (module Notification) implement this.     *)
(***************************************************************************)
EXTENDS Naturals

CONSTANTS
    Days,       \* local dates
    MaxParts,   \* most parts a digest may have
    Payloads    \* what a part may carry

VARIABLES
    digest,     \* digest[d]: the published parts of d, by index; empty before
    delivered,  \* delivered[d][k]: copies of part k accepted by the chat
    recorded,   \* recorded[d]: parts known to have been delivered
    closed      \* dates whose digest is complete

vars == <<digest, delivered, recorded, closed>>

PartIds == 1..MaxParts
Digests == UNION {[1..n -> Payloads] : n \in PartIds}

Init ==
    /\ digest = [d \in Days |-> <<>>]
    /\ delivered = [d \in Days |-> [k \in PartIds |-> 0]]
    /\ recorded = [d \in Days |-> {}]
    /\ closed = {}

\* A digest is never replaced once it is published.
Publish(d, parts) ==
    /\ digest[d] = <<>>
    /\ digest' = [digest EXCEPT ![d] = parts]
    /\ UNCHANGED <<delivered, recorded, closed>>

\* The chat receives a copy of the first part that is not recorded yet.
Deliver(d, k) ==
    /\ k \in DOMAIN digest[d] \ recorded[d]
    /\ \A j \in DOMAIN digest[d] : j < k => j \in recorded[d]
    /\ delivered' = [delivered EXCEPT ![d][k] = @ + 1]
    /\ UNCHANGED <<digest, recorded, closed>>

Record(d, k) ==
    /\ k \in DOMAIN digest[d] \ recorded[d]
    /\ delivered[d][k] > 0
    /\ recorded' = [recorded EXCEPT ![d] = @ \union {k}]
    /\ UNCHANGED <<digest, delivered, closed>>

Close(d) ==
    /\ digest[d] # <<>>
    /\ DOMAIN digest[d] \subseteq recorded[d]
    /\ d \notin closed
    /\ closed' = closed \union {d}
    /\ UNCHANGED <<digest, delivered, recorded>>

Next ==
    \E d \in Days :
        \/ \E parts \in Digests : Publish(d, parts)
        \/ \E k \in PartIds : Deliver(d, k)
        \/ \E k \in PartIds : Record(d, k)
        \/ Close(d)

Spec == Init /\ [][Next]_vars
=============================================================================
