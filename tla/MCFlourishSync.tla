--------------------------- MODULE MCFlourishSync ---------------------------
(***************************************************************************)
(* A small instance of FlourishSync: interchangeable clients, all logged   *)
(* in; a client that reconnects, or whose ticket is too old, is a guest.   *)
(***************************************************************************)
EXTENDS FlourishSync, TLC
Symmetry == Permutations(Client)
=============================================================================
