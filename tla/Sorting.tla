------------------------------ MODULE Sorting ------------------------------
(***************************************************************************)
(* Array.prototype.sort of JavaScript, which is stable.                    *)
(***************************************************************************)
EXTENDS Integers, FiniteSets

\* The positions of n elements in sorted order: one that goes Before another comes
\* first, and elements that are equal in this respect keep their order.
StableOrder(n, Before(_, _)) ==
  LET Precedes(i, j) == Before(i, j) \/ (~Before(j, i) /\ i < j)
  IN [k \in 1..n |-> CHOOSE i \in 1..n : Cardinality({j \in 1..n : Precedes(j, i)}) = k - 1]
=============================================================================
