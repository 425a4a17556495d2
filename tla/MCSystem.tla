----------------------------- MODULE MCSystem -----------------------------
(* Values for model-checking System: requests of two valid entries with      *)
(* different contents.                                                       *)
EXTENDS System, TLC

Good  == TRUE

MCBodies == {<<Good, Good>>}

CONSTANTS a, b

MCContents  == {a, b}
MCContentOf == [e \in Entries |-> IF e.idx = 1 THEN a ELSE b]
=============================================================================
