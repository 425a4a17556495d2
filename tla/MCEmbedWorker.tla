-------------------------- MODULE MCEmbedWorker --------------------------
(* Values for model-checking EmbedWorker: two contents, batches that repeat   *)
(* one of them, and a tick shorter than a batch.                              *)
EXTENDS EmbedWorker, TLC

CONSTANTS a, b

MCContents == {a, b}
MCBatches  == {<<a>>, <<a, b>>, <<b, b, a>>}
=============================================================================
