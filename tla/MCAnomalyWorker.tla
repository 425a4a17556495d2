-------------------------- MODULE MCAnomalyWorker --------------------------
(* Values for model-checking AnomalyWorker: a series of each of two tenants,  *)
(* batches with no, one and several errors.                                   *)
EXTENDS AnomalyWorker, TLC

CONSTANTS p, q, acme, globex

MCSeries   == {p, q}
MCTenants  == {acme, globex}
MCTenantOf == (p :> acme) @@ (q :> globex)

Entry(k, e) == [series |-> k, error |-> e]
MCBatches ==
  {<<Entry(p, FALSE)>>, <<Entry(p, TRUE)>>, <<Entry(p, TRUE), Entry(p, TRUE)>>,
   <<Entry(q, TRUE)>>, <<Entry(q, FALSE), Entry(p, FALSE)>>}
=============================================================================
