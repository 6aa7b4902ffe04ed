------------------------------- MODULE MCRoom -------------------------------
(***************************************************************************)
(* A small instance of Room.  The sessions are not declared symmetric:     *)
(* the run also checks a liveness property.                                *)
(***************************************************************************)
EXTENDS Room
=============================================================================
