--------------------------- MODULE MCRGAReplication ---------------------------
(***************************************************************************)
(* Small instances of RGAReplication.  Replica ids are integers because    *)
(* their order breaks ties, so clients are not symmetric.                  *)
(***************************************************************************)
EXTENDS RGAReplication
=============================================================================
