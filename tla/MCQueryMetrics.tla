--------------------------- MODULE MCQueryMetrics ---------------------------
(* Values for model-checking QueryMetrics: two buckets and the rest; latencies *)
(* at a bound, between two bounds and above all of them.                       *)
EXTENDS QueryMetrics, MCQueryService

MCBounds == <<1, 5>>
MCValues == {1, 3, 6}
=============================================================================
