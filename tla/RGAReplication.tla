---------------------------- MODULE RGAReplication ----------------------------
(***************************************************************************)
(* Replicas of one document exchange RGA operations.  Clients insert and   *)
(* delete; every operation reaches every replica any number of times and   *)
(* in any order, before the operations it depends on as well as after      *)
(* (the sync layer gives no better guarantee: broadcasts of different      *)
(* handlers overtake each other, diffs and broadcasts overlap).  The       *)
(* server never edits; it restarts from its snapshot, or from nothing when *)
(* the snapshot file is missing or does not parse.  EntryProjector keeps   *)
(* the file itself and the crashes that leave it behind the log.           *)
(***************************************************************************)
EXTENDS RGA

CONSTANTS
    Client,        \* replica ids of the editing clients
    Server,        \* replica id of the server (uuid.Nil in the code)
    MaxOps         \* bound: operations issued in a behaviour

Replica == Client \cup {Server}

ASSUME ReplicaAssumption == Replica \subseteq Nat /\ Server \notin Client
ASSUME BoundAssumption == MaxOps \in Nat

VARIABLES
    rga,       \* each replica's RGA
    issued     \* the operations created so far; req numbers them

vars == <<rga, issued>>

NodeID == [ts : 1 .. MaxOps, rid : Client]

Operation ==
    [req : 1 .. MaxOps, type : {"insert", "delete"}, id : NodeID,
     after : NodeID \cup {Nil}, auth : BOOLEAN]

Node == [id : NodeID, after : NodeID \cup {Nil}, deleted : BOOLEAN, auth : BOOLEAN]

\* Sequences are bounded by the number of operations.
TypeOK ==
    /\ issued \subseteq Operation
    /\ \A r \in Replica :
          /\ rga[r].counter \in 0 .. MaxOps
          /\ rga[r].nodes \in Seq(Node) /\ Len(rga[r].nodes) <= MaxOps
          /\ DOMAIN rga[r].index \subseteq NodeID
          /\ rga[r].seen \subseteq 1 .. MaxOps
          /\ rga[r].pending \in Seq(Operation)

Init ==
    /\ rga = [r \in Replica |-> NewRGA]
    /\ issued = {}

Issue(r, op) ==
    /\ Cardinality(issued) < MaxOps
    /\ issued' = issued \cup {op}
    /\ rga' = [rga EXCEPT ![r] = Apply(@, op)]

NextReq == Cardinality(issued) + 1

\* A client inserts a character after a node it knows, or at the head.
Insert(r, after) ==
    /\ after \in DOMAIN rga[r].index \cup {Nil}
    /\ Issue(r, [req |-> NextReq, type |-> "insert", id |-> Tick(rga[r], r),
                 after |-> after, auth |-> FALSE])

\* A client deletes a character it sees.
Delete(r, id) ==
    /\ id \in DOMAIN rga[r].index
    /\ ~rga[r].nodes[rga[r].index[id]].deleted
    /\ Issue(r, [req |-> NextReq, type |-> "delete", id |-> id,
                 after |-> Nil, auth |-> FALSE])

\* Any operation, new or already applied, arrives.
Receive(r, op) ==
    /\ rga' = [rga EXCEPT ![r] = Apply(@, op)]
    /\ UNCHANGED issued

\* LoadRGA: what the snapshot file gives, if it can be read.
LoadRGA(r) == {ImportRGA(Export(r)), NewRGA}

\* The server process ends and the next one starts from its snapshot file.
Restart ==
    /\ \E r \in LoadRGA(rga[Server]) : rga' = [rga EXCEPT ![Server] = r]
    /\ UNCHANGED issued

Next ==
    \/ \E r \in Client :
          \/ \E after \in DOMAIN rga[r].index \cup {Nil} : Insert(r, after)
          \/ \E id \in DOMAIN rga[r].index : Delete(r, id)
    \/ \E r \in Replica, op \in issued : Receive(r, op)
    \/ Restart

Spec == Init /\ [][Next]_vars

-----------------------------------------------------------------------------
(***************************************************************************)
(* The reference: the document as a tree, written without lists, indexes   *)
(* or buffers.  The operations of S form a forest by After; the document   *)
(* is its preorder, siblings by nodeIDPriority.                            *)
(***************************************************************************)
Inserts(S) == {op \in S : op.type = "insert"}

InsertedIDs(S) == {op.id : op \in Inserts(S)}

AfterOf(S, id) == (CHOOSE op \in Inserts(S) : op.id = id).after

\* The path to a node that was inserted after a, given the path to a.
PathTo(S, path, a, id) ==
    CASE a = Nil -> <<id>>
      [] a # Nil /\ a \notin InsertedIDs(S) -> <<>>
      [] a # Nil /\ a \in InsertedIDs(S) ->
            IF path[a] = <<>> THEN <<>> ELSE Append(path[a], id)

\* Node id -> the ids from the root to it; <<>> if an ancestor is missing.
Paths(S) ==
    LET path[id \in InsertedIDs(S)] == PathTo(S, path, AfterOf(S, id), id)
    IN  path

Rooted(S) == LET path == Paths(S) IN {id \in DOMAIN path : path[id] # <<>>}

\* p comes before q in preorder.
Before(p, q) ==
    \/ IsStrictPrefix(p, q)
    \/ \E k \in DOMAIN p \cap DOMAIN q :
          /\ SubSeq(p, 1, k - 1) = SubSeq(q, 1, k - 1)
          /\ p[k] # q[k]
          /\ nodeIDPriority(p[k], q[k])

SeenOps(r) == {op \in issued : op.req \in rga[r].seen}

(***************************************************************************)
(* A replica's list is the preorder of the operations it has seen, however *)
(* they arrived: exactly the inserts whose ancestors have all arrived, in  *)
(* tree order, deleted exactly when a delete was seen; everything else it  *)
(* has seen waits in the pending buffer, once.                             *)
(***************************************************************************)
DocumentIsTreeOrder ==
    \A r \in Replica :
        LET S == SeenOps(r)
            path == Paths(S)
            ids == Rooted(S)
            nodes == rga[r].nodes
            pending == rga[r].pending
            waiting == {op \in S : op.id \notin ids}
        IN  /\ {nodes[i].id : i \in DOMAIN nodes} = ids
            /\ \A i, j \in DOMAIN nodes :
                  i < j => Before(path[nodes[i].id], path[nodes[j].id])
            /\ \A i \in DOMAIN nodes :
                  nodes[i].deleted <=>
                      \E op \in S : op.type = "delete" /\ op.id = nodes[i].id
            /\ ToSet(pending) = waiting /\ Len(pending) = Cardinality(waiting)

(***************************************************************************)
(* Strong convergence: two replicas that have seen the same operations     *)
(* show the same list, whatever the orders, duplicates and restarts.       *)
(***************************************************************************)
Convergence ==
    \A r, s \in Replica :
        rga[r].seen = rga[s].seen => rga[r].nodes = rga[s].nodes

(***************************************************************************)
(* Intention: a character a client inserts lands directly right of the     *)
(* character it was typed after.  This needs the Lamport clock to have     *)
(* followed every operation received, buffered ones included.              *)
(***************************************************************************)
InsertsLandAfterCursor ==
    [][\A op \in issued' \ issued :
          op.type = "insert" =>
              LET r == rga'[op.id.rid]
              IN  r.index[op.id] = IF op.after = Nil THEN 1 ELSE r.index[op.after] + 1
      ]_vars

(***************************************************************************)
(* Saving a replica and loading it back gives the same replica, pending    *)
(* buffer and index included: the index kept by applyInsert is the one     *)
(* ImportRGA rebuilds.                                                     *)
(***************************************************************************)
SnapshotRoundTrip ==
    \A r \in Replica : ImportRGA(Export(rga[r])) = rga[r]

=============================================================================
