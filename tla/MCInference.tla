----------------------------- MODULE MCInference ------------------------------
(***************************************************************************)
(* Instances of Inference for TLC.                                         *)
(***************************************************************************)
EXTENDS Inference

BufferSymmetry == Permutations(Buffers)
=============================================================================
