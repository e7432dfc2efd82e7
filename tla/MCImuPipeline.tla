---------------------------- MODULE MCImuPipeline ----------------------------
(***************************************************************************)
(* Instances of ImuPipeline for TLC.                                       *)
(***************************************************************************)
EXTENDS ImuPipeline
=============================================================================
