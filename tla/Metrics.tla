------------------------------ MODULE Metrics ------------------------------
(***************************************************************************)
(* A histogram of the metrics registry: created by the first observation,  *)
(* filled by any number of goroutines, rendered as cumulative buckets.     *)
(*                                                                         *)
(*   src/internal/metrics/metrics.go   Observe, newHistogram, observe,     *)
(*                                     render                              *)
(*                                                                         *)
(* Observe takes two locks one after the other: the registry's to find the *)
(* histogram, the histogram's to fill it. The sum is left out.             *)
(***************************************************************************)
EXTENDS Integers, Sequences, FiniteSets, FiniteSetsExt

CONSTANTS
  Observers,   \* the goroutines, each of which observes one value
  Bounds,      \* the upper bounds of the buckets, rising
  Values       \* what may be observed

VARIABLES
  heap,    \* the histograms allocated so far
  hist,    \* the one in the registry, 0 if none
  found,   \* the one each observer found, 0 before
  value    \* history: what it observed, -1 before

vars == <<heap, hist, found, value>>

Buckets == 1..(Len(Bounds) + 1)

Init ==
  /\ heap = <<>>
  /\ hist = 0
  /\ found = [o \in Observers |-> 0]
  /\ value = [o \in Observers |-> -1]

newHistogram == [counts |-> [i \in Buckets |-> 0], total |-> 0]

\* The histogram of the registry, made if there is none. Faulty: always made.
AllocateAlways ==
  /\ heap' = Append(heap, newHistogram)
  /\ hist' = Len(heap')
LookUp ==
  \/ /\ hist = 0
     /\ heap' = Append(heap, newHistogram)
     /\ hist' = Len(heap')
  \/ /\ hist # 0
     /\ UNCHANGED <<heap, hist>>

Find(o) ==
  /\ found[o] = 0
  /\ LookUp
  /\ found' = [found EXCEPT ![o] = hist']
  /\ UNCHANGED value

\* The first bucket whose bound the value does not exceed; the last has none.
BucketOf(v) ==
  Min({i \in DOMAIN Bounds : Bounds[i] >= v} \cup {Len(Bounds) + 1})

observe(o, v) ==
  /\ found[o] # 0
  /\ value[o] = -1
  /\ heap' = [heap EXCEPT ![found[o]].counts[BucketOf(v)] = @ + 1,
                          ![found[o]].total = @ + 1]
  /\ value' = [value EXCEPT ![o] = v]
  /\ UNCHANGED <<hist, found>>

Next == \E o \in Observers : Find(o) \/ \E v \in Values : observe(o, v)

Spec == Init /\ [][Next]_vars

-----------------------------------------------------------------------------

\* What a bucket is rendered as: its own count on top of those below.
Rendered(h, n) ==
  LET cum[i \in 0..n] == IF i = 0 THEN 0 ELSE cum[i - 1] + h.counts[i] IN cum[n]

\* Every bucket counts the values up to its bound, the last one and the count
\* all of them.
Exact ==
  LET observed == {o \in Observers : value[o] # -1} IN
  /\ observed # {} => hist # 0
  /\ hist # 0 =>
       /\ \A i \in DOMAIN Bounds :
            Rendered(heap[hist], i) = Cardinality({o \in observed : value[o] <= Bounds[i]})
       /\ Rendered(heap[hist], Len(Bounds) + 1) = Cardinality(observed)
       /\ heap[hist].total = Cardinality(observed)
=============================================================================
