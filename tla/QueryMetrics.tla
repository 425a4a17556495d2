---------------------------- MODULE QueryMetrics ----------------------------
(***************************************************************************)
(* The query layer with its latency histogram: whatever an endpoint        *)
(* answers, the wrapper around it observes how long that took.             *)
(*                                                                         *)
(*   src/internal/query/handler.go   timed                                 *)
(*   src/cmd/ingest/main.go          OnLatency, one histogram for all      *)
(***************************************************************************)
EXTENDS QueryService

CONSTANTS
  Bounds,   \* the upper bounds of the buckets, rising (1, 5, 10 ... 5000 ms)
  Values    \* latencies

ASSUME QueryMetricsAssumption ==
  /\ Bounds \in Seq(Nat)
  /\ \A i, j \in DOMAIN Bounds : i < j => Bounds[i] < Bounds[j]
  /\ Values \subseteq Nat

VARIABLES heap, hist, found, value   \* as in Metrics

registry == <<heap, hist, found, value>>

Latency == INSTANCE Metrics WITH Observers <- Requests

TimedInit == Init /\ Latency!Init

Query == Next /\ UNCHANGED registry

\* fn has returned, with any status.
Timed(r) ==
  /\ rpc[r] \in {"answered", "forbidden", "refused"}
  /\ UNCHANGED vars
  /\ \/ Latency!Find(r)
     \/ \E v \in Values : Latency!observe(r, v)

TimedNext == Query \/ \E r \in Requests : Timed(r)

TimedSpec == TimedInit /\ [][TimedNext]_<<vars, registry>>

-----------------------------------------------------------------------------

\* Whoever scrapes, at any moment: the bucket of a bound shows exactly the
\* latencies observed so far that do not exceed it, the last bucket and the count
\* all of them. None is lost between the requests that race to create the
\* histogram.
HistogramExact == Latency!Exact
=============================================================================
