--------------------------- MODULE MCRegisterChain ---------------------------
(***************************************************************************)
(* Instances of RegisterChain for TLC.                                     *)
(***************************************************************************)
EXTENDS RegisterChain
=============================================================================
