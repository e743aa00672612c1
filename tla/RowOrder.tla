------------------------------ MODULE RowOrder ------------------------------
(***************************************************************************)
(* The order of lists.  Routes sort rows by a chain of comparisons; here a *)
(* row has a rank, with a number for each comparison of the chain, the     *)
(* larger number first.  Rows of one list differ in rank.                  *)
(***************************************************************************)
EXTENDS Integers, FiniteSets

\* The larger tuple first, component by component.
Before(a, b) == \E i \in DOMAIN a : a[i] > b[i] /\ \A j \in 1..i - 1 : a[j] = b[j]

NumberBefore(r, S, rank) == Cardinality({s \in S : Before(rank[s], rank[r])})

Ordered(S, rank) == [i \in 1..Cardinality(S) |-> CHOOSE r \in S : NumberBefore(r, S, rank) = i - 1]

\* The first n of the list.
Leading(S, rank, n) == {r \in S : NumberBefore(r, S, rank) < n}
=============================================================================
