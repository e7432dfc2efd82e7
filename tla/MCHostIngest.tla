---------------------------- MODULE MCHostIngest -----------------------------
(***************************************************************************)
(* Instances of HostIngest for TLC.                                        *)
(***************************************************************************)
EXTENDS HostIngest
=============================================================================
