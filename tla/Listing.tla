------------------------------ MODULE Listing ------------------------------
(***************************************************************************)
(* How what is kept in the order of its arrival is listed: a loop goes     *)
(* through it, takes what matches, and stops at a limit.                   *)
(*                                                                         *)
(*   src/internal/store/store.go    Search                                 *)
(*   src/internal/anomaly/feed.go   Recent                                 *)
(*   src/internal/query/rag.go      WhyDidFail, over the ranked hits       *)
(*                                                                         *)
(* What matches is given by the set of its positions.                      *)
(***************************************************************************)
EXTENDS Integers, Sequences, FiniteSets

Least(a, b) == IF a < b THEN a ELSE b

\* Positions in the order in which a loop meets them.
InOrder(ids) ==
  CHOOSE s \in [1..Cardinality(ids) -> ids] : \A i, j \in DOMAIN s : i < j => s[i] < s[j]

\* The first n that a loop from the end meets. Faulty: a loop from the start.
OldestFirst(ids, n) ==
  [i \in 1..Least(n, Cardinality(ids)) |-> InOrder(ids)[i]]
NewestFirst(ids, n) ==
  [i \in 1..Least(n, Cardinality(ids)) |-> InOrder(ids)[Cardinality(ids) + 1 - i]]
=============================================================================
