--------------------------- MODULE MCSinkShutdown ---------------------------
(***************************************************************************)
(* Instances of SinkShutdown for TLC.                                      *)
(***************************************************************************)
EXTENDS SinkShutdown
=============================================================================
