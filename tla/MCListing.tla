----------------------------- MODULE MCListing -----------------------------
(* Instances of Listing for TLC.  In the future bucket the deadline and the  *)
(* quadrant disagree, two rows are ranked by their creation, and two have    *)
(* characters of two units.                                                  *)
EXTENDS Listing

Item(p, q, d, c, u) == [project |-> p, quadrant |-> q, deadline |-> d, created |-> c,
                        runes |-> 3, units |-> u, status |-> "active"]

SomeRows ==
    {Item("p1", 4, 0, 2, 3), Item("p1", 2, 2, 1, 5),
     Item("p2", 1, 3, 1, 3), Item("p1", 1, 3, 0, 5)}
=============================================================================
