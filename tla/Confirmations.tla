---------------------------- MODULE Confirmations ----------------------------
(***************************************************************************)
(* What a confirmed change of the backlog promises, without saying how: a  *)
(* confirmation takes effect at most once, however often it is pressed or  *)
(* its update delivered; it takes effect in one step with the receipt that *)
(* remembers it and with the mark on its update; it rewrites the row its   *)
(* receipt names and no other, and only if that row is still at the        *)
(* version the user confirmed.  The user is told of success in that step.  *)
(* The services, their receipts and the screens (module BacklogServices)   *)
(* implement this.                                                         *)
(***************************************************************************)
EXTENDS Naturals

CONSTANTS
    Entities,   \* what a row may be of
    Rows,       \* rows, each with a version
    Actions,    \* what a confirmation may ask for
    Nonces,     \* confirmations
    Updates,    \* updates that deliver them
    None        \* no row, no receipt, no one

VARIABLES
    rows,       \* rows[e]: the row of e, if there is one
    receipts,   \* receipts[n]: what confirmation n has done
    processed,  \* updates that are done with
    offered,    \* confirmations on offer, each with the version it is of
    told        \* the confirmation that was just answered with success

vars == <<rows, receipts, processed, offered, told>>

Present == {e \in Entities : rows[e] # None}

Init ==
    /\ rows \in [Entities -> Rows \union {None}]
    /\ receipts = [n \in Nonces |-> None]
    /\ processed = {}
    /\ offered = {}
    /\ told = None

\* Offers come and go.  A new one is of a version that a row has now, or of
\* none.
Offer ==
    /\ offered' \subseteq Nonces \X Nat
    /\ \A c \in offered' \ offered :
           c[2] = 0 \/ \E e \in Present : c[2] = rows[e].version
    /\ told' = None
    /\ UNCHANGED <<rows, receipts, processed>>

\* Only e is written, if it was at version v or was not there, and to a
\* version that no row has had before it.
Rewrite(e, v) ==
    /\ rows' \in [Entities -> Rows \union {None}]
    /\ \A f \in Entities : rows'[f] # rows[f] =>
           /\ f = e
           /\ e \in Present => rows[e].version = v
           /\ rows'[e] # None => \A g \in Present : rows[g].version < rows'[e].version

Apply(u, n, v, action, e) ==
    /\ <<n, v>> \in offered /\ receipts[n] = None /\ u \notin processed
    /\ Rewrite(e, v)
    /\ receipts' = [receipts EXCEPT ![n] = [action |-> action, entity |-> e]]
    /\ processed' = processed \union {u}
    /\ told' = n
    /\ UNCHANGED offered

\* An update that changes nothing is done with, or may come again.
TurnAway(u) ==
    /\ processed' \in {processed, processed \union {u}}
    /\ told' = None
    /\ UNCHANGED <<rows, receipts, offered>>

Next ==
    \/ Offer
    \/ \E u \in Updates :
        \/ TurnAway(u)
        \/ \E c \in offered, action \in Actions, e \in Entities :
               Apply(u, c[1], c[2], action, e)

Spec == Init /\ [][Next]_vars
=============================================================================
