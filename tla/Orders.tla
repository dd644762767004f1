-------------------------------- MODULE Orders ---------------------------------
(* Sets of numbers in ascending order, and sequences sorted and filtered.      *)
(* InOrder(S) is SetToSortSeq(S, <), Sorted(s) is SortSeq(s, <), and Kept(s, S) *)
(* is SelectSeq(s, LAMBDA d : d \in S), defined by counting so that            *)
(* OrdersProofs can reason about them.                                         *)
EXTENDS Integers, FiniteSets, Sequences

\* How many members of S come before d.
Rank(S, d) == Cardinality({e \in S : e < d})

InOrder(S) == [i \in 1..Cardinality(S) |-> CHOOSE d \in S : Rank(S, d) = i - 1]

\* The first n of them.
FirstOf(n, S) ==
    LET s == InOrder(S) IN IF Len(s) <= n THEN s ELSE SubSeq(s, 1, n)

\* The elements of s that are in S.
Kept(s, S) ==
    LET at == InOrder({i \in DOMAIN s : s[i] \in S})
    IN [k \in DOMAIN at |-> s[at[k]]]

\* The place of s[j] among the elements of s; equal ones keep their order.
Place(s, j) == Cardinality({i \in DOMAIN s : s[i] < s[j] \/ (s[i] = s[j] /\ i <= j)})

Sorted(s) == [k \in DOMAIN s |-> s[CHOOSE j \in DOMAIN s : Place(s, j) = k]]
===============================================================================
