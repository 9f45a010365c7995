-------------------------- MODULE MCControlChannel --------------------------
(***************************************************************************)
(* The command channel with a short history: the numbers of the bounds are *)
(* in the configurations.                                                  *)
(***************************************************************************)
EXTENDS ControlChannel
=============================================================================
