--------------------------- MODULE MCQueryService ---------------------------
(* Values for model-checking QueryService: one document, topics that are alike *)
(* only to themselves, identities of each role, of one tenant and of another.  *)
EXTENDS QueryService, TLC

CONSTANTS acme, globex, bob, carol, dave, timeout

MCTenants  == {acme, globex}
Identity(a, t, role) == [actor |-> a, tenant |-> t, role |-> role]
MCIdentities ==
  {Identity(bob, acme, "responder"), Identity(carol, acme, "viewer"),
   Identity(dave, globex, "admin")}
MCScore == [a \in Topics |-> [b \in Topics |-> IF a = b THEN 2 ELSE 0]]
MCSeeds == <<[tenant |-> acme, topic |-> timeout]>>
=============================================================================
