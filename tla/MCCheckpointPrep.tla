--------------------------- MODULE MCCheckpointPrep ---------------------------
(***************************************************************************)
(* Instances for model checking CheckpointPrep: bases of two, three and    *)
(* five shards, an MTP head of two tensors, a draft with one weight file.  *)
(***************************************************************************)
EXTENDS CheckpointPrep

MCBaseCounts == {2, 3, 5}
MCWeights == {"model.safetensors"}
=============================================================================
