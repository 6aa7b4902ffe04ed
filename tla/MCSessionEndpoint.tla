-------------------------- MODULE MCSessionEndpoint --------------------------
(***************************************************************************)
(* Small instances of SessionEndpoint.                                     *)
(***************************************************************************)
EXTENDS SessionEndpoint
=============================================================================
