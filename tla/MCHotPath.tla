----------------------------- MODULE MCHotPath -----------------------------
(* Values for model-checking HotPath: requests of up to two entries, one    *)
(* with an invalid entry behind a valid one, and the empty array.             *)
EXTENDS HotPath, TLC

Good  == TRUE
Bad   == FALSE

\* Bodies for the safety run.
MCBodies == {<<Good, Good>>, <<Good, Bad>>, <<>>}

\* Bodies for the liveness run, which is costlier per state.
MCFewBodies == {<<Good, Good>>, <<Bad>>}

Symmetry == Permutations(Requests)
=============================================================================
