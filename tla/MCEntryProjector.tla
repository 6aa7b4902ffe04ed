--------------------------- MODULE MCEntryProjector ---------------------------
(***************************************************************************)
(* Small instances of EntryProjector: an authenticated author and a guest. *)
(* The author types a character and deletes the guest's; the guest types   *)
(* after the author's and tries to delete it.  The server may see them in  *)
(* any order.                                                              *)
(***************************************************************************)
EXTENDS EntryProjector

CONSTANTS author, guest

A == [ts |-> 1, rid |-> 1]
G == [ts |-> 2, rid |-> 2]

Ins(req, conn, id, after) ==
    [req |-> req, from |-> conn, type |-> "insert", id |-> id, after |-> after]
Del(req, conn, id) ==
    [req |-> req, from |-> conn, type |-> "delete", id |-> id, after |-> Nil]

insA == Ins("insA", author, A, Nil)
insG == Ins("insG", guest, G, A)
delAbyGuest == Del("delAbyGuest", guest, A)
delGbyAuthor == Del("delGbyAuthor", author, G)

FaultOps == {insA, insG, delAbyGuest, delGbyAuthor}
=============================================================================
