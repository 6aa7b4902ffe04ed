---------------------------- MODULE MCSubscribers ----------------------------
(***************************************************************************)
(* Small instances of Subscribers: connections are only compared for       *)
(* equality, so they are symmetric.                                        *)
(***************************************************************************)
EXTENDS Subscribers, TLC

Symmetry == Permutations(Conn)
=============================================================================
