-------------------------- MODULE MCCameraPipeline --------------------------
(***************************************************************************)
(* Instances of CameraPipeline for TLC: buffers are interchangeable.       *)
(***************************************************************************)
EXTENDS CameraPipeline, TLC

BufferSymmetry == Permutations(Buffers)
=============================================================================
