------------------------------- MODULE MCWorld -------------------------------
(***************************************************************************)
(* A small instance of World.  The ids are those of a new room and those   *)
(* of a room whose ids are about to wrap around.                           *)
(***************************************************************************)
EXTENDS World, TLC
NewAndWrapping == {0, IdSpace - 3}
Symmetry == Permutations(Session)
=============================================================================
