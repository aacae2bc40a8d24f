------------------------------- MODULE Orders -------------------------------
(***************************************************************************)
(* Sorting, as ORDER BY and Go's sort package do it for Listing.  An order *)
(* is a set of pairs, the smaller first.                                   *)
(***************************************************************************)
EXTENDS Integers, Sequences, FiniteSets

\* The first key in which u and v differ decides.
Lexical(u, v) == \E k \in DOMAIN u : u[k] < v[k] /\ \A m \in 1..k - 1 : u[m] = v[m]

\* The elements of S that R puts before i.
Ahead(S, R, i) == {j \in S : <<j, i>> \in R}

\* The elements of S in the order R: the k-th has k - 1 elements ahead of it.
\* It is the only sequence a sort can return, as the orders are total.
Sorted(S, R) ==
    [k \in 1..Cardinality(S) |-> CHOOSE i \in S : Cardinality(Ahead(S, R, i)) = k - 1]
=============================================================================
