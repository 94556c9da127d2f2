------------------------------ MODULE Ascending ------------------------------
(***************************************************************************)
(* The members of a finite set of numbers, in ascending order: what a      *)
(* filter of a list keeps, by place, and what a query ordered by id        *)
(* returns.                                                                *)
(***************************************************************************)
EXTENDS Integers, FiniteSets

Ascends(f) == \A i, j \in DOMAIN f : i < j => f[i] < f[j]

\* f is the sequence of the members of S, in ascending order.
Lists(f, S) ==
    /\ f \in [1..Cardinality(S) -> S]
    /\ \A x \in S : \E i \in DOMAIN f : f[i] = x
    /\ Ascends(f)

InOrder(S) == CHOOSE f \in [1..Cardinality(S) -> S] : Lists(f, S)
=============================================================================
