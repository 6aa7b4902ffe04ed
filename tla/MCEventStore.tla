----------------------------- MODULE MCEventStore -----------------------------
(***************************************************************************)
(* Small instances of the event store: what a write that does not finish   *)
(* may leave on the disk.                                                  *)
(***************************************************************************)
EXTENDS EventStore

PartTear == {"part"}
AnyTear == {"part", "noeol"}

=============================================================================
