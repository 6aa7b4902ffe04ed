--------------------------------- MODULE RGA ---------------------------------
(***************************************************************************)
(* The Replicated Growable Array of flourish                               *)
(* (server/domain/crdt/crdt.go), as operators on a replica's state:        *)
(*                                                                         *)
(*   counter   the Lamport clock                                           *)
(*   nodes     the list of nodes, tombstones included                      *)
(*   index     the position of each node id in the list                    *)
(*   seen      the request ids applied or buffered so far                  *)
(*   pending   operations whose node has not arrived yet, in arrival order *)
(*                                                                         *)
(* A node id is [ts, rid]; replica ids are integers, ordered as the code   *)
(* orders the strings of their UUIDs.  A node's character is fixed by its  *)
(* id and not modelled.  Positions count from 1, in the code from 0.       *)
(***************************************************************************)
EXTENDS Integers, Sequences, FiniteSets, SequencesExt

CONSTANT Nil      \* the nil After pointer: insert at the head

LamportID == [ts : Nat, rid : Nat]

ASSUME NilAssumption == Nil \notin LamportID

NewRGA ==
    [counter |-> 0, nodes |-> <<>>, index |-> [id \in {} |-> 0],
     seen |-> {}, pending |-> <<>>]

nodeIDPriority_NoTieBreak(a, b) == a.ts > b.ts                     \* mutant

nodeIDPriority_OldestFirst(a, b) ==                                \* mutant
    \/ a.ts < b.ts
    \/ a.ts = b.ts /\ a.rid < b.rid

\* TRUE when a is placed left of its sibling b.
nodeIDPriority(a, b) ==
    \/ a.ts > b.ts
    \/ a.ts = b.ts /\ a.rid < b.rid

\* Following After from the node at position i leads to parent.
isDescendantOf(r, i, parent) ==
    LET below[k \in DOMAIN r.nodes] ==
            LET after == r.nodes[k].after
            IN  /\ after # Nil
                /\ \/ after = parent
                   \/ after \in DOMAIN r.index /\ below[r.index[after]]
    IN  below[i]

skipSubtree_NodeOnly(r, i) == i + 1                                \* mutant

\* The first position past the node at i and all its descendants.
skipSubtree(r, i) ==
    Min({j \in i + 1 .. Len(r.nodes) + 1 :
            j \in DOMAIN r.nodes => ~isDescendantOf(r, j, r.nodes[i].id)})

(***************************************************************************)
(* Where applyInsert puts a node: right of After, past the subtrees of the *)
(* siblings that have priority over it.                                    *)
(***************************************************************************)
insertIdx(r, op) ==
    LET stop(k) == \/ k > Len(r.nodes)
                   \/ r.nodes[k].after # op.after
                   \/ nodeIDPriority(op.id, r.nodes[k].id)
        from[k \in 1 .. Len(r.nodes) + 1] ==
            IF stop(k) THEN k ELSE from[skipSubtree(r, k)]
    IN  from[IF op.after = Nil THEN 1 ELSE r.index[op.after] + 1]

\* The index after positions first .. Len(nodes) have been written again.
reindex(index, nodes, first) ==
    LET moved(id) == {i \in first .. Len(nodes) : nodes[i].id = id}
    IN  [id \in DOMAIN index \cup {nodes[i].id : i \in first .. Len(nodes)} |->
            IF moved(id) = {} THEN index[id] ELSE Max(moved(id))]

\* F(r), for a value r that is computed once.
Through(F(_), r) == CHOOSE y \in {F(x) : x \in {r}} : TRUE

applyInsert_NoReindex(r, op) ==                                    \* mutant
    LET at == insertIdx(r, op)
        node == [id |-> op.id, after |-> op.after, deleted |-> FALSE, auth |-> op.auth]
    IN  [r EXCEPT !.nodes = InsertAt(@, at, node),
                  !.index = reindex(@, SubSeq(InsertAt(r.nodes, at, node), 1, at), at)]

applyInsert(r, op) ==
    LET at == insertIdx(r, op)
        node == [id |-> op.id, after |-> op.after, deleted |-> FALSE, auth |-> op.auth]
        put(nodes) == [r EXCEPT !.nodes = nodes, !.index = reindex(r.index, nodes, at)]
    IN  Through(put, InsertAt(r.nodes, at, node))

applyDelete(r, op) ==
    IF op.id \in DOMAIN r.index
    THEN [r EXCEPT !.nodes[r.index[op.id]].deleted = TRUE]
    ELSE r

\* The node the operation refers to is there.
ready(r, op) ==
    IF op.type = "insert"
    THEN op.after = Nil \/ op.after \in DOMAIN r.index
    ELSE op.id \in DOMAIN r.index

applyOp(r, op) == IF op.type = "insert" THEN applyInsert(r, op) ELSE applyDelete(r, op)

\* A buffered operation is applied, or put back into the buffer.
flushOp(s, op) ==
    IF ready(s, op) THEN applyOp(s, op) ELSE [s EXCEPT !.pending = Append(@, op)]

\* One pass of flushPending's outer loop, in buffer order.
flushPass(r) ==
    LET after[k \in 0 .. Len(r.pending)] ==
            IF k = 0 THEN [r EXCEPT !.pending = <<>>]
            ELSE Through(LAMBDA s : flushOp(s, r.pending[k]), after[k - 1])
    IN  after[Len(r.pending)]

\* Passes until one applies nothing: at most one per buffered operation.
flushPending(r) ==
    LET after[k \in 0 .. Len(r.pending)] ==
            IF k = 0 THEN r ELSE Through(flushPass, after[k - 1])
    IN  after[Len(r.pending)]

\* LamportClock.Update
Update(r, ts) == [r EXCEPT !.counter = IF ts > @ THEN ts ELSE @]

\* applyInsert and flushPending write the list, its index and the buffer.
Apply(r, op) ==
    LET known == Update([r EXCEPT !.seen = @ \cup {op.req}], op.id.ts)
        list(s) == [known EXCEPT !.nodes = s.nodes, !.index = s.index, !.pending = s.pending]
    IN  CASE op.req \in r.seen -> r
          [] op.req \notin r.seen /\ ~ready(r, op) ->
                [known EXCEPT !.pending = Append(@, op)]
          [] op.req \notin r.seen /\ ready(r, op) /\ op.type = "insert" ->
                Through(list, Through(flushPending, applyInsert(known, op)))
          [] op.req \notin r.seen /\ ready(r, op) /\ op.type = "delete" ->
                applyDelete(known, op)

\* An unknown node counts as authenticated.
IsNodeAuthenticated(r, id) ==
    id \in DOMAIN r.index => r.nodes[r.index[id]].auth

\* The visible text, as the ids of its characters.
Text(r) ==
    LET visible == SelectSeq(r.nodes, LAMBDA n : ~n.deleted)
    IN  [i \in DOMAIN visible |-> visible[i].id]

Tick_ReadsBeforeIncrement(r, rid) == [ts |-> r.counter, rid |-> rid] \* mutant

\* LamportClock.Tick: the id of a node inserted locally by replica rid.
Tick(r, rid) == [ts |-> r.counter + 1, rid |-> rid]

-----------------------------------------------------------------------------
\* The snapshot carries no index; ImportRGA rebuilds it from the positions.
Export(r) ==
    [counter |-> r.counter, nodes |-> r.nodes, seen |-> r.seen, pending |-> r.pending]

ImportRGA(snap) ==
    [counter |-> snap.counter, nodes |-> snap.nodes,
     index |-> reindex(NewRGA.index, snap.nodes, 1),
     seen |-> snap.seen, pending |-> snap.pending]

=============================================================================
