--------------------------- MODULE MCStateMachine ---------------------------
(***************************************************************************)
(* Instances of StateMachine for TLC.                                      *)
(***************************************************************************)
EXTENDS StateMachine
=============================================================================
