----------------------------- MODULE MCHostServer -----------------------------
(***************************************************************************)
(* Instances of HostServer for TLC.                                        *)
(***************************************************************************)
EXTENDS HostServer
=============================================================================
