------------------------- MODULE RGAReplicationProofs -------------------------
(***************************************************************************)
(* What holds of the replicas of a document for every set of clients and   *)
(* every number of operations, whatever is lost for a while, duplicated,   *)
(* reordered or started again.  The facts about a single replica are in    *)
(* RGAProofs.                                                              *)
(***************************************************************************)
EXTENDS RGAReplication, RGAProofs

-----------------------------------------------------------------------------
(***************************************************************************)
(* The inductive invariant.  The operations: their request ids are         *)
(* 1 .. Cardinality(I), inserts have ids of their own, and every operation *)
(* refers to nodes that were inserted before it.                           *)
(***************************************************************************)
HasNode(I, id) == \E op \in I : op.type = "insert" /\ op.id = id

IssuedInv(I) ==
    /\ IsFiniteSet(I) /\ Cardinality(I) <= MaxOps
    /\ OperationSet(I)
    /\ \A op \in I :
          /\ op \in Operation
          /\ op.req <= Cardinality(I) /\ op.id.ts <= Cardinality(I)
          /\ HasNode(I, op.id)
          /\ op.after # Nil => HasNode(I, op.after) /\ op.after.ts < op.id.ts
    /\ \A a, b \in I : a.req = b.req => a = b

\* The operations of I that a replica has seen.
SeenIn(x, I) == {op \in I : op.req \in x.seen}

(***************************************************************************)
(* A replica has applied what it has seen, as far as it can be applied,    *)
(* and its clock is not behind any of it.                                  *)
(***************************************************************************)
ReplicaInv(x, I) ==
    /\ Settled(x, SeenIn(x, I))
    /\ \A req \in x.seen : \E op \in I : op.req = req
    /\ x.counter \in Nat /\ x.counter <= Cardinality(I)
    /\ \A op \in SeenIn(x, I) : op.id.ts <= x.counter

\* A client's clock is not behind the nodes it has inserted.
OwnClock(x, r, I) ==
    \A op \in I : op.type = "insert" /\ op.id.rid = r => op.id.ts <= x.counter

Inv ==
    /\ IssuedInv(issued)
    /\ rga = [r \in Replica |-> rga[r]]
    /\ \A r \in Replica : ReplicaInv(rga[r], issued)
    /\ \A r \in Client : OwnClock(rga[r], r, issued)

-----------------------------------------------------------------------------
(***************************************************************************)
(* The steps of a replica.                                                 *)
(***************************************************************************)
LEMMA OperationFacts ==
    ASSUME NEW op \in Operation
    PROVE  /\ op.req \in 1 .. MaxOps /\ op.type \in {"insert", "delete"} /\ op.id \in NodeID
           /\ op.after \in NodeID \cup {Nil} /\ op.auth \in BOOLEAN
           /\ op.id.ts \in Nat /\ op.id.rid \in Client /\ IsOperation(op)
<1>1. NodeID \subseteq LamportID
  BY ReplicaAssumption, BoundAssumption DEF NodeID, LamportID, Replica
<1>2. /\ op.req \in 1 .. MaxOps /\ op.type \in {"insert", "delete"} /\ op.id \in NodeID
      /\ op.after \in NodeID \cup {Nil} /\ op.auth \in BOOLEAN
  BY DEF Operation
<1>3. op.id.ts \in Nat /\ op.id.rid \in Client
  BY <1>2, BoundAssumption DEF NodeID
<1> QED
  BY <1>1, <1>2, <1>3 DEF IsOperation

\* Seen operations are operations, whatever the replica.
LEMMA SeenSet ==
    ASSUME NEW I, OperationSet(I), NEW S, S \subseteq I
    PROVE  OperationSet(S)
  BY DEF OperationSet

\* An operation that nobody has seen yet changes nothing for a replica.
LEMMA OthersKeep ==
    ASSUME NEW I, NEW x, ReplicaInv(x, I), NEW op, IsFiniteSet(I),
           \A o \in I : o.req # op.req
    PROVE  ReplicaInv(x, I \cup {op})
<1>1. op.req \notin x.seen
  BY DEF ReplicaInv
<1>2. SeenIn(x, I \cup {op}) = SeenIn(x, I)
  BY <1>1 DEF SeenIn
<1>3. Cardinality(I \cup {op}) \in Nat /\ Cardinality(I) \in Nat
      /\ Cardinality(I) <= Cardinality(I \cup {op})
  <2>1. IsFiniteSet(I \cup {op}) /\ Cardinality(I) \in Nat
    BY FS_AddElement, FS_CardinalityType
  <2>2. Cardinality(I \cup {op}) = IF op \in I THEN Cardinality(I) ELSE Cardinality(I) + 1
    BY FS_AddElement
  <2> QED
    BY <2>1, <2>2
<1> DEFINE J == I \cup {op}
<1>4. \A req \in x.seen : \E o \in J : o.req = req
  BY DEF ReplicaInv
<1>5. x.counter \in Nat /\ x.counter <= Cardinality(J)
  BY <1>3 DEF ReplicaInv
<1> HIDE DEF J
<1>6. ReplicaInv(x, J)
  BY <1>2, <1>4, <1>5 DEF ReplicaInv, J
<1> QED
  BY <1>6 DEF J

(***************************************************************************)
(* A replica applies an issued operation.                                  *)
(***************************************************************************)
LEMMA ReceiveKeeps ==
    ASSUME NEW I, IssuedInv(I), NEW x, ReplicaInv(x, I), NEW op \in I
    PROVE  /\ ReplicaInv(Apply(x, op), I)
           /\ Apply(x, op).counter \in Nat /\ x.counter <= Apply(x, op).counter
           /\ op.id.ts <= Apply(x, op).counter
<1> DEFINE y == Apply(x, op)
           S == SeenIn(x, I)
<1>1. op \in Operation /\ op.id.ts \in Nat /\ op.id.ts <= Cardinality(I)
  BY OperationFacts DEF IssuedInv
<1>2. /\ x.counter \in Nat /\ x.counter <= Cardinality(I) /\ Cardinality(I) \in Nat
      /\ Settled(x, S) /\ Done(x) /\ Covers(x, S)
  BY FS_CardinalityType DEF ReplicaInv, IssuedInv, Settled
<1>3. CASE op.req \in x.seen
  <2>1. y = x
    BY <1>3, AppliesOnce
  <2>2. op.id.ts <= x.counter
    BY <1>3 DEF ReplicaInv, SeenIn
  <2> QED
    BY <1>2, <2>1, <2>2
<1>4. CASE op.req \notin x.seen
  <2>1. op \notin S
    BY <1>4 DEF SeenIn
  <2>2. OperationSet(S \cup {op})
    <3>1. S \cup {op} \subseteq I
      BY DEF SeenIn
    <3> HIDE DEF S
    <3> QED
      BY <3>1 DEF IssuedInv, OperationSet
  <2> HIDE DEF S
  <2>3. MayTake(x, S, op)
    BY <1>2, <2>1, <2>2 DEF MayTake
  <2>4. Took(x, S, op, y)
    BY <1>2, <1>4, <2>3, Applies, Zenon
  <2> HIDE DEF y
  <2>5. /\ Settled(y, S \cup {op}) /\ y.seen = x.seen \cup {op.req}
        /\ y.counter = IF op.id.ts > x.counter THEN op.id.ts ELSE x.counter
    BY <2>4 DEF Took
  <2>6. SeenIn(y, I) = S \cup {op}
    <3>1. \A o \in I : o.req = op.req => o = op
      BY DEF IssuedInv
    <3> QED
      BY <2>5, <3>1 DEF SeenIn, S
  <2>7. /\ y.counter \in Nat /\ y.counter <= Cardinality(I)
        /\ x.counter <= y.counter /\ op.id.ts <= y.counter
    BY <1>1, <1>2, <2>5
  <2>8. \A o \in SeenIn(y, I) : o.id.ts <= y.counter
    <3> SUFFICES ASSUME NEW o \in S PROVE o.id.ts <= y.counter
      BY <2>6, <2>7
    <3>1. o.id.ts <= x.counter
      BY DEF ReplicaInv, S
    <3>2. o.id.ts \in Nat
      BY OperationFacts DEF IssuedInv, S, SeenIn
    <3> QED
      BY <1>2, <2>7, <3>1, <3>2
  <2>9. \A req \in y.seen : \E o \in I : o.req = req
    BY <2>5 DEF ReplicaInv
  <2>10. ReplicaInv(y, I)
    BY <2>5, <2>6, <2>7, <2>8, <2>9 DEF ReplicaInv
  <2> QED
    BY <2>7, <2>10 DEF y
<1> QED
  BY <1>3, <1>4

\* A replica that starts with nothing, or from its snapshot.
LEMMA LoadKeeps ==
    ASSUME NEW I, IsFiniteSet(I), NEW x, ReplicaInv(x, I), NEW y \in LoadRGA(x)
    PROVE  ReplicaInv(y, I)
<1>1. CASE y = NewRGA
  <2>1. Settled(y, {}) /\ y.seen = {} /\ y.counter = 0
    BY <1>1, Starts
  <2>2. SeenIn(y, I) = {}
    BY <2>1 DEF SeenIn
  <2>3. Cardinality(I) \in Nat
    BY FS_CardinalityType
  <2> QED
    BY <2>1, <2>2, <2>3 DEF ReplicaInv
<1>2. CASE y = ImportRGA(Export(x))
  <2>1. Listed(x) /\ IsReplica(x)
    BY SettledFacts DEF ReplicaInv
  <2>2. y = x
    BY <1>2, <2>1, Reimported
  <2> QED
    BY <2>2
<1> QED
  BY <1>1, <1>2 DEF LoadRGA

-----------------------------------------------------------------------------
(***************************************************************************)
(* A client issues an operation.                                           *)
(***************************************************************************)

\* A node of a replica's list was inserted, and its clock knows it.
LEMMA KnownNode ==
    ASSUME NEW I, IssuedInv(I), NEW x, ReplicaInv(x, I), NEW id \in DOMAIN x.index
    PROVE  HasNode(I, id) /\ id \in NodeID /\ id # Nil /\ id.ts \in Nat /\ id.ts <= x.counter
<1> DEFINE S == SeenIn(x, I)
<1>1. Settled(x, S) /\ Listed(x)
  BY SettledFacts DEF ReplicaInv
<1>2. x.index[id] \in DOMAIN x.nodes /\ x.nodes[x.index[id]].id = id /\ id # Nil
  BY <1>1, ListFacts
<1>3. PICK op \in S : op.type = "insert" /\ op.id = id
  <2> HIDE DEF S
  <2> QED
    BY <1>1, <1>2, SettledFacts
<1>4. op \in I /\ op \in Operation /\ op.id.ts <= x.counter
  BY DEF ReplicaInv, SeenIn, IssuedInv
<1> QED
  BY <1>2, <1>3, <1>4, OperationFacts DEF HasNode

\* What Insert and Delete issue, at replica r in state x.
InsertOp(x, r, I, after) ==
    [req |-> Cardinality(I) + 1, type |-> "insert", id |-> Tick(x, r),
     after |-> after, auth |-> FALSE]

DeleteOp(I, id) ==
    [req |-> Cardinality(I) + 1, type |-> "delete", id |-> id,
     after |-> Nil, auth |-> FALSE]

\* An operation that extends the history: its request id and its node are new.
Extends(I, op) ==
    /\ op \in Operation /\ op.req = Cardinality(I) + 1
    /\ op.id.ts <= Cardinality(I) + 1
    /\ op.type = "insert" => ~HasNode(I, op.id)
    /\ op.type = "delete" => HasNode(I, op.id)
    /\ op.after # Nil => HasNode(I, op.after) /\ op.after.ts < op.id.ts

\* An operation that extends the history leaves it a history.
LEMMA ExtendKeeps ==
    ASSUME NEW I, IssuedInv(I), Cardinality(I) < MaxOps, NEW op, Extends(I, op)
    PROVE  IssuedInv(I \cup {op}) /\ \A o \in I : o.req # op.req
<1> DEFINE J == I \cup {op}
           n == Cardinality(I)
<1>1. IsFiniteSet(I) /\ n \in Nat /\ \A o \in I : o \in Operation /\ o.req <= n /\ o.id.ts <= n
  BY FS_CardinalityType DEF IssuedInv
<1>2. \A o \in I : o.req \in Nat /\ o.id.ts \in Nat
  BY <1>1, OperationFacts, BoundAssumption
<1>3. op \in Operation /\ op.req = n + 1 /\ op.id.ts <= n + 1
  BY DEF Extends
<1>4. \A o \in I : o.req # op.req
  BY <1>1, <1>2, <1>3
<1>5. IsFiniteSet(J) /\ Cardinality(J) = n + 1 /\ n + 1 <= MaxOps
  <2>1. op \notin I
    BY <1>4
  <2> QED
    BY <1>1, <2>1, FS_AddElement, BoundAssumption
<1> HIDE DEF n
<1>6. OperationSet(J)
  <2>1. IsOperation(op)
    BY <1>3, OperationFacts
  <2>2. \A o \in I : o.type = "insert" /\ op.type = "insert" => o.id # op.id
    BY DEF Extends, HasNode
  <2> QED
    BY <2>1, <2>2 DEF OperationSet, IssuedInv
<1>7. \A id : HasNode(I, id) => HasNode(J, id)
  BY DEF HasNode
<1>8. HasNode(J, op.id)
  <2>1. op.type = "insert" \/ op.type = "delete"
    BY <1>3, OperationFacts
  <2>2. CASE op.type = "insert"
    BY <2>2 DEF HasNode
  <2>3. CASE op.type = "delete"
    BY <1>7, <2>3 DEF Extends
  <2> QED
    BY <2>1, <2>2, <2>3
<1>9. ASSUME NEW o \in J
      PROVE  /\ o \in Operation
             /\ o.req <= n + 1 /\ o.id.ts <= n + 1
             /\ HasNode(J, o.id)
             /\ o.after # Nil => HasNode(J, o.after) /\ o.after.ts < o.id.ts
  <2>1. CASE o \in I
    <3>1. /\ HasNode(I, o.id)
          /\ o.after # Nil => HasNode(I, o.after) /\ o.after.ts < o.id.ts
      BY <2>1 DEF IssuedInv
    <3>2. o.req <= n /\ o.id.ts <= n /\ o.req \in Nat /\ o.id.ts \in Nat /\ n \in Nat
      BY <1>1, <1>2, <2>1
    <3> QED
      BY <1>1, <1>7, <2>1, <3>1, <3>2
  <2>2. CASE o = op
    <3>1. op.after # Nil => HasNode(I, op.after) /\ op.after.ts < op.id.ts
      BY DEF Extends
    <3>2. op.req <= n + 1
      BY <1>1, <1>3
    <3> QED
      BY <1>3, <1>7, <1>8, <2>2, <3>1, <3>2
  <2> QED
    BY <2>1, <2>2
<1>10. \A a, b \in J : a.req = b.req => a = b
  BY <1>4 DEF IssuedInv
<1> HIDE DEF J
<1>11. IssuedInv(J)
  BY <1>5, <1>6, <1>9, <1>10 DEF IssuedInv
<1> QED
  BY <1>4, <1>11 DEF J

\* What Insert issues is new, newest at its replica, and ready there.
LEMMA InsertExtends ==
    ASSUME NEW I, IssuedInv(I), Cardinality(I) < MaxOps, NEW r \in Client,
           NEW x, ReplicaInv(x, I), OwnClock(x, r, I), NEW after \in DOMAIN x.index \cup {Nil}
    PROVE  /\ Extends(I, InsertOp(x, r, I, after))
           /\ Newest(x, SeenIn(x, I), InsertOp(x, r, I, after))
           /\ ready(x, InsertOp(x, r, I, after))
<1> DEFINE op == InsertOp(x, r, I, after)
           n == Cardinality(I)
<1>1. /\ op.req = n + 1 /\ op.type = "insert" /\ op.id = [ts |-> x.counter + 1, rid |-> r]
      /\ op.after = after
  BY DEF InsertOp, Tick
<1>2. n \in Nat /\ x.counter \in Nat /\ x.counter <= n
  BY FS_CardinalityType DEF IssuedInv, ReplicaInv
<1>3. op.id \in NodeID /\ op.id.ts = x.counter + 1 /\ op.id.rid = r
  BY <1>1, <1>2, BoundAssumption DEF NodeID
<1>4. after # Nil => HasNode(I, after) /\ after \in NodeID /\ after.ts \in Nat
                     /\ after.ts <= x.counter
  BY KnownNode
<1>5. after # Nil => after.ts < op.id.ts
  BY <1>2, <1>3, <1>4
<1>6. op \in Operation
  <2>1. Tick(x, r) \in NodeID
    BY <1>1, <1>3 DEF Tick
  <2>2. n + 1 \in 1 .. MaxOps
    BY <1>2, BoundAssumption
  <2>3. after \in NodeID \cup {Nil}
    BY <1>4
  <2> QED
    BY <2>1, <2>2, <2>3 DEF Operation, InsertOp
<1> HIDE DEF op
<1>7. \A id : HasNode(I, id) => id # op.id
  <2> SUFFICES ASSUME NEW o \in I, o.type = "insert" PROVE o.id # op.id
    BY DEF HasNode
  <2>1. o.id.rid = r => o.id.ts <= x.counter
    BY DEF OwnClock
  <2> QED
    BY <1>2, <1>3, <2>1
<1>8. Extends(I, op)
  <2>1. op.id.ts <= n + 1
    BY <1>2, <1>3
  <2> QED
    BY <1>1, <1>4, <1>5, <1>6, <1>7, <2>1 DEF Extends
<1>9. Newest(x, SeenIn(x, I), op)
  <2>1. \A o \in I : o.id # op.id /\ o.after # op.id
    <3>1. op.id # Nil
      BY <1>6, OperationFacts, NilAssumption DEF IsOperation
    <3> QED
      BY <1>7, <3>1 DEF IssuedInv
  <2>2. \A id \in DOMAIN x.index : id.ts < op.id.ts
    BY <1>2, <1>3, KnownNode
  <2> QED
    BY <2>1, <2>2 DEF Newest, SeenIn
<1>10. ready(x, op)
  BY <1>1 DEF ready
<1> QED
  BY <1>8, <1>9, <1>10 DEF op

\* What Delete issues refers to a node of the history.
LEMMA DeleteExtends ==
    ASSUME NEW I, IssuedInv(I), Cardinality(I) < MaxOps,
           NEW x, ReplicaInv(x, I), NEW id \in DOMAIN x.index
    PROVE  Extends(I, DeleteOp(I, id))
<1> DEFINE n == Cardinality(I)
<1>1. n \in Nat /\ x.counter \in Nat /\ x.counter <= n
  BY FS_CardinalityType DEF IssuedInv, ReplicaInv
<1>2. HasNode(I, id) /\ id \in NodeID /\ id.ts \in Nat /\ id.ts <= x.counter
  BY KnownNode
<1>3. n + 1 \in 1 .. MaxOps /\ id.ts <= n + 1
  BY <1>1, <1>2, BoundAssumption
<1> QED
  BY <1>2, <1>3 DEF Extends, DeleteOp, Operation

-----------------------------------------------------------------------------
(***************************************************************************)
(* Every step keeps the invariant.                                         *)
(***************************************************************************)
LEMMA IssueStep ==
    ASSUME Inv, NEW r \in Client, NEW op, Extends(issued, op), Issue(r, op),
           op.type = "insert" => op.id.rid = r
    PROVE  Inv'
<1> DEFINE I == issued
           J == issued \cup {op}
           x == rga[r]
<1>1. /\ IssuedInv(I) /\ ReplicaInv(x, I) /\ r \in Replica
      /\ Cardinality(I) < MaxOps /\ issued' = J /\ rga' = [rga EXCEPT ![r] = Apply(x, op)]
  BY DEF Inv, Issue, Replica
<1>2. IssuedInv(J) /\ \A o \in I : o.req # op.req
  BY <1>1, ExtendKeeps
<1>3. IsFiniteSet(I) /\ op \in J
  BY <1>1 DEF IssuedInv
<1> HIDE DEF J
<1>4. \A s \in Replica : ReplicaInv(rga[s], J)
  BY <1>2, <1>3, OthersKeep DEF Inv, J
<1>5. /\ ReplicaInv(Apply(x, op), J)
      /\ Apply(x, op).counter \in Nat /\ x.counter <= Apply(x, op).counter
      /\ op.id.ts <= Apply(x, op).counter
  BY <1>1, <1>2, <1>3, <1>4, ReceiveKeeps
<1>6. /\ rga' = [s \in Replica |-> rga'[s]]
      /\ \A s \in Replica : rga'[s] = IF s = r THEN Apply(x, op) ELSE rga[s]
  BY <1>1 DEF Inv
<1>7. \A s \in Replica : ReplicaInv(rga'[s], J)
  BY <1>4, <1>5, <1>6
<1>8. \A s \in Client : OwnClock(rga'[s], s, J)
  <2> SUFFICES ASSUME NEW s \in Client, NEW o \in J, o.type = "insert", o.id.rid = s
               PROVE  o.id.ts <= rga'[s].counter
    BY DEF OwnClock
  <2>1. s \in Replica
    BY DEF Replica
  <2>2. CASE o = op
    BY <1>5, <1>6, <2>1, <2>2
  <2>3. CASE o # op
    <3>1. o \in I /\ o.id.ts <= rga[s].counter
      BY <2>3 DEF J, Inv, OwnClock
    <3>2. o.id.ts \in Nat /\ rga[s].counter \in Nat /\ x.counter \in Nat
      BY <1>1, <2>1, <3>1, OperationFacts DEF IssuedInv, Inv, ReplicaInv
    <3> QED
      BY <1>5, <1>6, <2>1, <3>1, <3>2
  <2> QED
    BY <2>2, <2>3
<1> QED
  BY <1>1, <1>2, <1>6, <1>7, <1>8 DEF Inv

\* Every step of the system keeps the invariant.
LEMMA InvStep ==
    ASSUME Inv, [Next]_vars
    PROVE  Inv'
<1>1. ASSUME NEW r \in Client, NEW after \in DOMAIN rga[r].index \cup {Nil}, Insert(r, after)
      PROVE  Inv'
  <2> DEFINE op == InsertOp(rga[r], r, issued, after)
  <2>1. Issue(r, op)
    BY <1>1 DEF Insert, InsertOp, NextReq
  <2>2. /\ IssuedInv(issued) /\ ReplicaInv(rga[r], issued) /\ OwnClock(rga[r], r, issued)
        /\ Cardinality(issued) < MaxOps
    BY <2>1 DEF Inv, Replica, Issue
  <2>3. Extends(issued, op)
    BY <2>2, InsertExtends
  <2>4. op.id.rid = r
    BY DEF InsertOp, Tick
  <2> HIDE DEF op
  <2> QED
    BY <2>1, <2>3, <2>4, IssueStep
<1>2. ASSUME NEW r \in Client, NEW id \in DOMAIN rga[r].index, Delete(r, id)
      PROVE  Inv'
  <2> DEFINE op == DeleteOp(issued, id)
  <2>1. Issue(r, op)
    BY <1>2 DEF Delete, DeleteOp, NextReq
  <2>2. /\ IssuedInv(issued) /\ ReplicaInv(rga[r], issued)
        /\ Cardinality(issued) < MaxOps
    BY <2>1 DEF Inv, Replica, Issue
  <2>3. Extends(issued, op)
    BY <2>2, DeleteExtends
  <2>4. op.type = "delete"
    BY DEF DeleteOp
  <2> HIDE DEF op
  <2> QED
    BY <2>1, <2>3, <2>4, IssueStep
<1>3. ASSUME NEW r \in Replica, NEW op \in issued, Receive(r, op)
      PROVE  Inv'
  <2> DEFINE x == rga[r]
             y == Apply(x, op)
  <2>1. /\ IssuedInv(issued) /\ ReplicaInv(x, issued)
        /\ issued' = issued /\ rga' = [rga EXCEPT ![r] = y]
    BY <1>3 DEF Inv, Receive
  <2>2. ReplicaInv(y, issued) /\ y.counter \in Nat /\ x.counter <= y.counter
    BY <2>1, ReceiveKeeps
  <2> HIDE DEF y
  <2>3. /\ rga' = [s \in Replica |-> rga'[s]]
        /\ \A s \in Replica : rga'[s] = IF s = r THEN y ELSE rga[s]
    BY <2>1 DEF Inv
  <2>4. \A s \in Client : OwnClock(rga'[s], s, issued)
    <3> SUFFICES ASSUME NEW s \in Client, NEW o \in issued, o.type = "insert", o.id.rid = s
                 PROVE  o.id.ts <= rga'[s].counter
      BY DEF OwnClock
    <3>1. s \in Replica /\ o.id.ts <= rga[s].counter
      BY DEF Inv, OwnClock, Replica
    <3>2. o.id.ts \in Nat /\ rga[s].counter \in Nat /\ x.counter \in Nat
      BY <2>1, <3>1, OperationFacts DEF IssuedInv, Inv, ReplicaInv
    <3> QED
      BY <2>2, <2>3, <3>1, <3>2
  <2>5. \A s \in Replica : ReplicaInv(rga'[s], issued)
    BY <2>2, <2>3 DEF Inv
  <2> QED
    BY <2>1, <2>3, <2>4, <2>5 DEF Inv
<1>4. ASSUME NEW y \in LoadRGA(rga[Server]), rga' = [rga EXCEPT ![Server] = y],
             UNCHANGED issued
      PROVE  Inv'
  <2>1. Server \in Replica /\ IsFiniteSet(issued) /\ ReplicaInv(rga[Server], issued)
    BY DEF Replica, Inv, IssuedInv
  <2>2. ReplicaInv(y, issued)
    BY <2>1, LoadKeeps
  <2>3. /\ rga' = [s \in Replica |-> rga'[s]]
        /\ \A s \in Replica : rga'[s] = IF s = Server THEN y ELSE rga[s]
    BY <1>4, <2>1 DEF Inv
  <2>4. \A s \in Client : s \in Replica /\ s # Server
    BY ReplicaAssumption DEF Replica
  <2>5. \A s \in Replica : ReplicaInv(rga'[s], issued)
    BY <2>2, <2>3 DEF Inv
  <2>6. \A s \in Client : OwnClock(rga'[s], s, issued)
    BY <2>3, <2>4 DEF Inv
  <2> QED
    BY <1>4, <2>3, <2>5, <2>6 DEF Inv
<1>5. CASE UNCHANGED vars
  BY <1>5 DEF vars, Inv
<1> QED
  BY <1>1, <1>2, <1>3, <1>4, <1>5 DEF Next, Restart

\* The replicas start in the invariant.
LEMMA InvInit == Init => Inv
<1> SUFFICES ASSUME Init PROVE Inv
  OBVIOUS
<1>1. issued = {} /\ rga = [r \in Replica |-> NewRGA]
  BY DEF Init
<1>2. IssuedInv({})
  <2>1. IsFiniteSet({}) /\ Cardinality({}) = 0
    BY FS_EmptySet
  <2> QED
    BY <2>1, BoundAssumption DEF IssuedInv, OperationSet
<1>3. ReplicaInv(NewRGA, {})
  <2>1. SeenIn(NewRGA, {}) = {} /\ Cardinality({}) = 0
    BY FS_EmptySet DEF SeenIn
  <2>2. Settled(NewRGA, {}) /\ NewRGA.seen = {} /\ NewRGA.counter = 0
    BY Starts
  <2> QED
    BY <2>1, <2>2 DEF ReplicaInv
<1>4. \A r \in Replica : rga[r] = NewRGA
  BY <1>1
<1>5. \A r \in Client : OwnClock(rga[r], r, {})
  BY DEF OwnClock
<1>6. rga = [r \in Replica |-> rga[r]]
  BY <1>1
<1> QED
  BY <1>1, <1>2, <1>3, <1>4, <1>5, <1>6 DEF Inv

\* The invariant holds of the system.
LEMMA Invariant == Spec => []Inv
  BY InvInit, InvStep, PTL DEF Spec

-----------------------------------------------------------------------------
(***************************************************************************)
(* Strong convergence.  Replicas that have seen the same operations show   *)
(* the same list, for any number of clients and operations, in whatever    *)
(* orders and however often Apply got them, and after any number of        *)
(* restarts of the server from its snapshot or from nothing.               *)
(***************************************************************************)
THEOREM ReplicasConverge == Spec => []Convergence
<1>1. Inv => Convergence
  <2> SUFFICES ASSUME Inv, NEW r \in Replica, NEW s \in Replica, rga[r].seen = rga[s].seen
               PROVE  rga[r].nodes = rga[s].nodes
    BY DEF Convergence
  <2> DEFINE S == SeenIn(rga[r], issued)
  <2>1. S = SeenIn(rga[s], issued)
    BY DEF SeenIn
  <2>2. Settled(rga[r], S) /\ Settled(rga[s], S)
    BY <2>1 DEF Inv, ReplicaInv
  <2> HIDE DEF S
  <2> QED
    BY <2>2, Converges
<1> QED
  BY <1>1, Invariant, PTL

(***************************************************************************)
(* ImportRGA rebuilds the index that Apply keeps, so that a replica saved  *)
(* with Export and loaded again is the same replica, at every moment.      *)
(***************************************************************************)
THEOREM SnapshotsRoundTrip == Spec => []SnapshotRoundTrip
<1>1. Inv => SnapshotRoundTrip
  <2> SUFFICES ASSUME Inv, NEW r \in Replica PROVE ImportRGA(Export(rga[r])) = rga[r]
    BY DEF SnapshotRoundTrip
  <2>1. Settled(rga[r], SeenIn(rga[r], issued))
    BY DEF Inv, ReplicaInv
  <2>2. Listed(rga[r]) /\ IsReplica(rga[r])
    BY <2>1, SettledFacts
  <2> QED
    BY <2>2, Reimported
<1> QED
  BY <1>1, Invariant, PTL

-----------------------------------------------------------------------------
(***************************************************************************)
(* A character that a client inserts lands directly right of the one it    *)
(* was typed after, however many operations the client has received,       *)
(* applied or buffered, before.                                            *)
(***************************************************************************)
THEOREM TypedCharactersLand == Spec => InsertsLandAfterCursor
<1> DEFINE Lands(op) ==
             LET r == rga'[op.id.rid]
             IN  r.index[op.id] = IF op.after = Nil THEN 1 ELSE r.index[op.after] + 1
           Step == \A op \in issued' \ issued : op.type = "insert" => Lands(op)
<1>1. ASSUME Inv, Next PROVE Step
  <2>1. ASSUME NEW r \in Client, NEW after \in DOMAIN rga[r].index \cup {Nil}, Insert(r, after)
        PROVE  Step
    <3> DEFINE op == InsertOp(rga[r], r, issued, after)
               x == rga[r]
               y == Apply(x, op)
               S == SeenIn(x, issued)
    <3>1. Issue(r, op)
      BY <2>1 DEF Insert, InsertOp, NextReq
    <3>2. /\ IssuedInv(issued) /\ ReplicaInv(x, issued) /\ OwnClock(x, r, issued)
          /\ Cardinality(issued) < MaxOps /\ r \in Replica
          /\ issued' = issued \cup {op} /\ rga' = [rga EXCEPT ![r] = y]
      BY <1>1, <3>1 DEF Inv, Replica, Issue
    <3>3. op.type = "insert" /\ op.id.rid = r
      BY DEF InsertOp, Tick
    <3>4. Extends(issued, op) /\ Newest(x, S, op) /\ ready(x, op)
      BY <3>2, InsertExtends
    <3> HIDE DEF op
    <3>5. IssuedInv(issued \cup {op}) /\ \A o \in issued : o.req # op.req
      BY <3>2, <3>4, ExtendKeeps
    <3>6. op.req \notin x.seen
      BY <3>2, <3>5 DEF ReplicaInv
    <3>7. Settled(x, S) /\ Done(x)
      BY <3>2 DEF ReplicaInv, Settled
    <3>8. MayTake(x, S, op)
      <4>1. op \notin S
        BY <3>6 DEF SeenIn
      <4>2. OperationSet(S \cup {op})
        <5>1. S \cup {op} \subseteq issued \cup {op}
          BY DEF SeenIn
        <5> HIDE DEF S
        <5> QED
          BY <3>5, <5>1 DEF IssuedInv, OperationSet
      <4> QED
        BY <3>7, <4>1, <4>2 DEF MayTake, Settled
    <3> HIDE DEF S
    <3>9. y.index[op.id] = PositionOf(y, op.after) + 1
      BY <3>3, <3>4, <3>6, <3>7, <3>8, InsertLands
    <3> HIDE DEF y
    <3>10. rga'[r] = y
      BY <1>1, <3>2 DEF Inv
    <3>11. Lands(op)
      BY <3>3, <3>9, <3>10 DEF PositionOf
    <3> HIDE DEF Lands
    <3> QED
      BY <3>2, <3>11
  <2>2. ASSUME NEW r \in Client, NEW id \in DOMAIN rga[r].index, Delete(r, id)
        PROVE  Step
    <3>1. issued' = issued \cup {DeleteOp(issued, id)}
      BY <2>2 DEF Delete, DeleteOp, NextReq, Issue
    <3>2. DeleteOp(issued, id).type = "delete"
      BY DEF DeleteOp
    <3> HIDE DEF Lands
    <3> QED
      BY <3>1, <3>2
  <2>3. CASE UNCHANGED issued
    <3> HIDE DEF Lands
    <3> QED
      BY <2>3
  <2> QED
    BY <1>1, <2>1, <2>2, <2>3 DEF Next, Receive, Restart
<1>2. Inv /\ [Next]_vars => [Step]_vars
  BY <1>1
<1>3. InsertsLandAfterCursor <=> [][Step]_vars
  BY DEF InsertsLandAfterCursor
<1> HIDE DEF Step
<1> QED
  BY <1>2, <1>3, Invariant, PTL DEF Spec

-----------------------------------------------------------------------------
(***************************************************************************)
(* Type correctness: no list grows past the operations issued, no clock    *)
(* runs ahead of them, and nothing but issued operations is buffered.      *)
(***************************************************************************)
LEMMA ListBound ==
    ASSUME NEW I, IssuedInv(I), NEW x, ReplicaInv(x, I)
    PROVE  Len(x.nodes) <= Cardinality(I)
<1> DEFINE n == Len(x.nodes)
           S == SeenIn(x, I)
           f == [i \in 1 .. n |-> CHOOSE op \in I : op.type = "insert" /\ op.id = x.nodes[i].id]
<1>1. Settled(x, S) /\ Listed(x)
  BY SettledFacts DEF ReplicaInv
<1>2. n \in Nat /\ DOMAIN x.nodes = 1 .. n
  BY <1>1, ListFacts
<1>3. \A i \in 1 .. n : \E op \in I : op.type = "insert" /\ op.id = x.nodes[i].id
  <2>1. \A i \in DOMAIN x.nodes : \E op \in S : op.type = "insert" /\ op.id = x.nodes[i].id
    BY <1>1, SettledFacts
  <2>2. S \subseteq I
    BY DEF SeenIn
  <2> HIDE DEF S, n
  <2> QED
    BY <1>2, <2>1, <2>2
<1>4. \A i \in 1 .. n : f[i] \in I /\ f[i].id = x.nodes[i].id
  BY <1>3
<1>5. \A i, j \in 1 .. n : x.nodes[i].id = x.nodes[j].id => i = j
  BY <1>1, ListFacts
<1>6. f \in Injection(1 .. n, I)
  <2>1. f = [i \in 1 .. n |-> f[i]]
    OBVIOUS
  <2> HIDE DEF f, n
  <2>2. f \in [1 .. n -> I]
    BY <1>4, <2>1
  <2>3. \A i, j \in 1 .. n : f[i] = f[j] => i = j
    BY <1>4, <1>5
  <2> QED
    BY <2>2, <2>3 DEF Injection, IsInjective
<1> HIDE DEF f
<1>7. Cardinality(1 .. n) <= Cardinality(I)
  <2>1. IsFiniteSet(I)
    BY DEF IssuedInv
  <2> HIDE DEF n
  <2> QED
    BY <1>6, <2>1, FS_Injection
<1>8. Cardinality(1 .. n) = n
  <2> HIDE DEF n
  <2>1. 1 \in Int /\ n \in Int
    BY <1>2
  <2>2. Cardinality(1 .. n) = IF 1 > n THEN 0 ELSE n - 1 + 1
    BY <2>1, FS_Interval, Zenon
  <2> QED
    BY <1>2, <2>2
<1> QED
  BY <1>7, <1>8

(***************************************************************************)
(* The replicas are well typed: whatever Apply receives, no clock runs     *)
(* ahead of the operations issued and no list outgrows them, for any       *)
(* clients and any number of operations.                                   *)
(***************************************************************************)
THEOREM TypeCorrect == Spec => []TypeOK
<1>1. Inv => TypeOK
  <2> SUFFICES ASSUME Inv PROVE TypeOK
    OBVIOUS
  <2>1. IssuedInv(issued) /\ Cardinality(issued) \in Nat /\ Cardinality(issued) <= MaxOps
    BY FS_CardinalityType DEF Inv, IssuedInv
  <2>2. issued \subseteq Operation
    BY <2>1 DEF IssuedInv
  <2>3. ASSUME NEW r \in Replica
        PROVE  /\ rga[r].counter \in 0 .. MaxOps
               /\ rga[r].nodes \in Seq(Node) /\ Len(rga[r].nodes) <= MaxOps
               /\ DOMAIN rga[r].index \subseteq NodeID
               /\ rga[r].seen \subseteq 1 .. MaxOps
               /\ rga[r].pending \in Seq(Operation)
    <3> DEFINE x == rga[r]
               S == SeenIn(x, issued)
    <3>1. ReplicaInv(x, issued) /\ Settled(x, S) /\ Listed(x)
      BY SettledFacts DEF Inv, ReplicaInv
    <3>2. x.counter \in 0 .. MaxOps
      BY <2>1, <3>1, BoundAssumption DEF ReplicaInv
    <3>3. DOMAIN x.index \subseteq NodeID
      BY <2>1, <3>1, KnownNode
    <3>4. Len(x.nodes) \in Nat /\ Len(x.nodes) <= MaxOps
      <4>1. Len(x.nodes) <= Cardinality(issued)
        BY <2>1, <3>1, ListBound
      <4>2. Len(x.nodes) \in Nat
        BY <3>1, ListFacts
      <4> QED
        BY <2>1, <4>1, <4>2, BoundAssumption
    <3>5. x.nodes \in Seq(Node)
      <4>1. x.nodes \in Seq(ListNode) /\ DOMAIN x.nodes = 1 .. Len(x.nodes)
        BY <3>1, ListFacts DEF Listed
      <4>2. ASSUME NEW i \in 1 .. Len(x.nodes) PROVE x.nodes[i] \in Node
        <5>1. x.nodes[i] \in ListNode /\ x.nodes[i].id \in NodeID
          <6>1. x.nodes[i] \in ListNode /\ x.nodes[i].id \in DOMAIN x.index
            BY <3>1, ListFacts
          <6> QED
            BY <3>3, <6>1
        <5>2. x.nodes[i].after \in NodeID \cup {Nil}
          <6>1. x.nodes[i].after = Nil \/ x.nodes[i].after \in DOMAIN x.index
            BY <3>1, ListFacts
          <6> QED
            BY <3>3, <6>1
        <5> QED
          BY <5>1, <5>2 DEF Node, ListNode
      <4> QED
        BY <4>1, <4>2
    <3>6. x.seen \subseteq 1 .. MaxOps
      BY <2>2, <3>1, OperationFacts DEF ReplicaInv
    <3>7. x.pending \in Seq(Operation)
      <4>1. x.pending \in Seq(S) /\ S \subseteq Operation
        BY <2>2, <3>1 DEF Settled, Covers, SeenIn
      <4> HIDE DEF S
      <4> QED
        BY <4>1
    <3> QED
      BY <3>2, <3>3, <3>4, <3>5, <3>6, <3>7
  <2> QED
    BY <2>2, <2>3 DEF TypeOK
<1> QED
  BY <1>1, Invariant, PTL

-----------------------------------------------------------------------------
(***************************************************************************)
(* The document as a tree.  Paths is defined for every id, since a node is *)
(* older than the nodes inserted after it.                                 *)
(***************************************************************************)
Ordered(S, M) ==
    /\ OperationSet(S)
    /\ \A op \in S : /\ op.id.ts < M
                     /\ op.type = "insert" /\ op.after # Nil => op.after.ts < op.id.ts

\* The path of a node is its After's path and its own id.
LEMMA PathFacts ==
    ASSUME NEW S, NEW M \in Nat, Ordered(S, M)
    PROVE  /\ \A id : id \in DOMAIN Paths(S) <=> \E op \in S : op.type = "insert" /\ op.id = id
           /\ \A op \in S :
                 op.type = "insert" =>
                     Paths(S)[op.id] =
                         IF op.after = Nil THEN <<op.id>>
                         ELSE IF op.after \notin DOMAIN Paths(S) \/ Paths(S)[op.after] = <<>>
                              THEN <<>> ELSE Append(Paths(S)[op.after], op.id)
<1> DEFINE ids == InsertedIDs(S)
           after(id) == AfterOf(S, id)
           body(f, id) == PathTo(S, f, AfterOf(S, id), id)
           F(D, f) == [id \in D |-> body(f, id)]
           path == CHOOSE f : f = F(ids, f)
           D(m) == {id \in ids : id.ts < m}
           Good(m) == \E f : f = F(D(m), f)
<1>1. Paths(S) = path
  BY DEF Paths
<1>2. \A id : id \in ids <=> \E op \in S : op.type = "insert" /\ op.id = id
  BY DEF Inserts, InsertedIDs
<1>3. \A op \in S : op.type = "insert" => after(op.id) = op.after
  <2> SUFFICES ASSUME NEW op \in S, op.type = "insert" PROVE after(op.id) = op.after
    OBVIOUS
  <2> DEFINE o == CHOOSE o \in Inserts(S) : o.id = op.id
  <2>1. op \in Inserts(S)
    BY DEF Inserts
  <2>2. o \in Inserts(S) /\ o.id = op.id
    BY <2>1
  <2> HIDE DEF o
  <2>3. o = op
    BY <2>2 DEF Inserts, Ordered, OperationSet
  <2> QED
    BY <2>3 DEF o, AfterOf
<1>4. \A id \in ids : /\ id.ts \in Nat /\ id.ts < M
                      /\ after(id) # Nil => after(id).ts < id.ts
                      /\ after(id) \in ids => after(id).ts \in Nat
  <2>1. \A id \in ids : id.ts \in Nat /\ id.ts < M
    BY <1>2 DEF Ordered, OperationSet, IsOperation, LamportID
  <2>2. \A id \in ids : after(id) # Nil => after(id).ts < id.ts
    <3> HIDE DEF after, ids
    <3> QED
      BY <1>2, <1>3 DEF Ordered
  <2> HIDE DEF after, ids
  <2> QED
    BY <2>1, <2>2
<1> HIDE DEF ids, after
<1>5. ASSUME NEW f, NEW g, NEW id,
             after(id) # Nil /\ after(id) \in ids => f[after(id)] = g[after(id)]
      PROVE  body(f, id) = body(g, id)
  BY <1>5 DEF PathTo, ids, after
<1>6. ASSUME NEW f, NEW id
      PROVE  body(f, id) = IF after(id) = Nil THEN <<id>>
                           ELSE IF after(id) \notin ids \/ f[after(id)] = <<>>
                                THEN <<>> ELSE Append(f[after(id)], id)
  BY DEF PathTo, ids, after
<1> HIDE DEF body
<1>7. Good(M)
  <2> DEFINE bad == {m \in 0 .. M : ~Good(m)}
  <2>1. SUFFICES ASSUME bad # {} PROVE FALSE
    <3> HIDE DEF Good
    <3> QED
      OBVIOUS
  <2>2. PICK m \in bad : \A l \in bad : m <= l
    <3> HIDE DEF Good
    <3>1. bad \in SUBSET Nat
      OBVIOUS
    <3> HIDE DEF bad
    <3> QED
      BY <2>1, <3>1, Least
  <2>3. m \in 0 .. M /\ ~Good(m)
    <3> HIDE DEF Good
    <3> QED
      BY <2>2
  <2>4. m # 0
    <3>1. D(0) = {}
      BY <1>4
    <3> DEFINE g == [id \in {} |-> <<>>]
    <3>2. g = F(D(0), g)
      BY <3>1
    <3>3. Good(0)
      <4> HIDE DEF F, D
      <4> QED
        BY <3>2
    <3> QED
      BY <2>3, <3>3
  <2>5. Good(m - 1)
    <3> HIDE DEF Good
    <3>1. m - 1 \in 0 .. M /\ m - 1 \notin bad
      BY <2>2, <2>3, <2>4
    <3> QED
      BY <3>1
  <2>6. PICK f : f = F(D(m - 1), f)
    <3> HIDE DEF F, D
    <3> QED
      BY <2>5
  <2>7. \A id \in D(m - 1) : f[id] = body(f, id)
    <3> HIDE DEF D
    <3> QED
      BY <2>6
  <2> DEFINE g == [id \in D(m) |-> IF id \in D(m - 1) THEN f[id] ELSE body(f, id)]
  <2>8. \A id \in D(m) : after(id) # Nil /\ after(id) \in ids => after(id) \in D(m - 1)
    BY <1>4, <2>3
  <2>9. \A id \in D(m - 1) : id \in D(m)
    BY <1>4, <2>3
  <2>10. ASSUME NEW id \in D(m) PROVE g[id] = body(g, id)
    <3>1. g[id] = body(f, id)
      <4> HIDE DEF D
      <4> QED
        BY <2>7
    <3>2. after(id) # Nil /\ after(id) \in ids => f[after(id)] = g[after(id)]
      <4> HIDE DEF D
      <4> QED
        BY <2>8, <2>9
    <3> HIDE DEF g, D
    <3>3. body(f, id) = body(g, id)
      BY <1>5, <3>2
    <3> QED
      BY <3>1, <3>3
  <2>11. g = F(D(m), g)
    <3>1. g = [id \in D(m) |-> g[id]]
      <4> HIDE DEF D
      <4> QED
        OBVIOUS
    <3> HIDE DEF g, D
    <3> QED
      BY <2>10, <3>1
  <2> HIDE DEF F, D, g
  <2> QED
    BY <2>3, <2>11
<1>8. path = F(ids, path)
  <2>1. D(M) = ids
    BY <1>4
  <2>2. \E f : f = F(ids, f)
    <3> HIDE DEF F, D
    <3> QED
      BY <1>7, <2>1
  <2> HIDE DEF F
  <2> QED
    BY <2>2
<1> HIDE DEF path
<1>9. DOMAIN path = ids /\ \A id \in ids : path[id] = body(path, id)
  BY <1>8
<1>10. ASSUME NEW op \in S, op.type = "insert"
       PROVE  path[op.id] = IF op.after = Nil THEN <<op.id>>
                            ELSE IF op.after \notin ids \/ path[op.after] = <<>>
                                 THEN <<>> ELSE Append(path[op.after], op.id)
  <2>1. op.id \in ids /\ after(op.id) = op.after
    BY <1>2, <1>3, <1>10
  <2> QED
    BY <1>6, <1>9, <2>1
<1> QED
  BY <1>1, <1>2, <1>9, <1>10

-----------------------------------------------------------------------------
(***************************************************************************)
(* Preorder, on paths.                                                     *)
(***************************************************************************)

\* p and q part at k, where p has priority.
PartAt(p, q, k) ==
    /\ k <= Len(p) /\ k <= Len(q)
    /\ \A i \in 1 .. k - 1 : p[i] = q[i]
    /\ p[k] # q[k] /\ nodeIDPriority(p[k], q[k])

Part(p, q) == \E k \in Nat \ {0} : PartAt(p, q, k)

\* p is an ancestor of q.
Above(p, q) == Len(p) < Len(q) /\ \A i \in 1 .. Len(p) : p[i] = q[i]

\* A path is before those it is an ancestor of or branches off to the left of.
LEMMA BeforeCases ==
    ASSUME NEW p \in Seq(LamportID), NEW q \in Seq(LamportID), Part(p, q) \/ Above(p, q)
    PROVE  Before(p, q)
<1>1. /\ Len(p) \in Nat /\ DOMAIN p = 1 .. Len(p)
      /\ Len(q) \in Nat /\ DOMAIN q = 1 .. Len(q)
  OBVIOUS
<1>2. ASSUME NEW m \in Nat, m <= Len(p), m <= Len(q), \A i \in 1 .. m : p[i] = q[i]
      PROVE  SubSeq(p, 1, m) = SubSeq(q, 1, m)
  <2>1. /\ SubSeq(p, 1, m) \in Seq(LamportID) /\ SubSeq(q, 1, m) \in Seq(LamportID)
        /\ Len(SubSeq(p, 1, m)) = m /\ Len(SubSeq(q, 1, m)) = m
        /\ \A i \in 1 .. m : SubSeq(p, 1, m)[i] = p[i] /\ SubSeq(q, 1, m)[i] = q[i]
    BY <1>1, <1>2
  <2> QED
    BY <1>2, <2>1, SeqEqual
<1>3. CASE Part(p, q)
  <2>1. PICK k \in Nat \ {0} : PartAt(p, q, k)
    BY <1>3 DEF Part
  <2>2. k \in DOMAIN p \cap DOMAIN q
    BY <1>1, <2>1 DEF PartAt
  <2>3. k - 1 \in Nat /\ k - 1 <= Len(p) /\ k - 1 <= Len(q)
        /\ \A i \in 1 .. k - 1 : p[i] = q[i]
    BY <1>1, <2>1 DEF PartAt
  <2>4. SubSeq(p, 1, k - 1) = SubSeq(q, 1, k - 1)
    BY <1>2, <2>3
  <2> QED
    BY <2>1, <2>2, <2>4 DEF Before, PartAt
<1>4. CASE Above(p, q)
  <2>1. SubSeq(p, 1, Len(p)) = SubSeq(q, 1, Len(p))
    BY <1>1, <1>2, <1>4 DEF Above
  <2>2. p # q
    BY <1>1, <1>4 DEF Above
  <2> QED
    BY <1>1, <1>4, <2>1, <2>2 DEF Before, IsStrictPrefix, IsPrefix, Above
<1> QED
  BY <1>3, <1>4

\* What a longer path keeps.
LEMMA LongerPath ==
    ASSUME NEW p \in Seq(LamportID), NEW q \in Seq(LamportID), NEW e \in LamportID
    PROVE  /\ Above(p, Append(p, e))
           /\ Above(p, q) => Above(p, Append(q, e))
           /\ Part(p, q) => Part(p, Append(q, e)) /\ Part(Append(p, e), q)
<1>1. /\ Len(p) \in Nat /\ Len(q) \in Nat
      /\ Len(Append(p, e)) = Len(p) + 1 /\ Len(Append(q, e)) = Len(q) + 1
      /\ \A i \in 1 .. Len(p) : Append(p, e)[i] = p[i]
      /\ \A i \in 1 .. Len(q) : Append(q, e)[i] = q[i]
  BY AppendProperties
<1>2. Above(p, Append(p, e))
  BY <1>1 DEF Above
<1>3. Above(p, q) => Above(p, Append(q, e))
  BY <1>1 DEF Above
<1>4. ASSUME Part(p, q) PROVE Part(p, Append(q, e)) /\ Part(Append(p, e), q)
  <2>1. PICK k \in Nat \ {0} : PartAt(p, q, k)
    BY <1>4 DEF Part
  <2>2. PartAt(p, Append(q, e), k)
    BY <1>1, <2>1 DEF PartAt
  <2>3. PartAt(Append(p, e), q, k)
    BY <1>1, <2>1 DEF PartAt
  <2> QED
    BY <2>2, <2>3 DEF Part
<1> QED
  BY <1>2, <1>3, <1>4

\* Siblings part at the end.
LEMMA SiblingsPart ==
    ASSUME NEW p \in Seq(LamportID), NEW a \in LamportID, NEW b \in LamportID,
           nodeIDPriority(a, b)
    PROVE  Part(Append(p, a), Append(p, b))
<1> DEFINE k == Len(p) + 1
<1>1. /\ Len(p) \in Nat
      /\ Len(Append(p, a)) = k /\ Len(Append(p, b)) = k
      /\ Append(p, a)[k] = a /\ Append(p, b)[k] = b
      /\ \A i \in 1 .. Len(p) : Append(p, a)[i] = p[i] /\ Append(p, b)[i] = p[i]
  BY AppendProperties
<1>2. a # b
  BY PriorityOrder
<1>3. PartAt(Append(p, a), Append(p, b), k) /\ k \in Nat \ {0}
  BY <1>1, <1>2 DEF PartAt
<1> QED
  BY <1>3 DEF Part

(***************************************************************************)
(* A list that is a preorder of its tree lists the paths in their order.   *)
(***************************************************************************)
Branches(n, par, id, P) == \A i \in 1 .. n : P[i] = Append(P[par[i]], id[i])

\* In a preorder list the paths are in the order of the tree.
LEMMA TreeOrder ==
    ASSUME NEW n \in Nat, NEW par \in [1 .. n -> 0 .. n], NEW id \in [1 .. n -> LamportID],
           Preorder(n, par, id), NEW P \in [0 .. n -> Seq(LamportID)],
           Branches(n, par, id, P)
    PROVE  \A i, j \in 1 .. n : i < j => Before(P[i], P[j])
<1>1. ASSUME NEW j \in 1 .. n
      PROVE  \A i \in 1 .. n : par[j] < i /\ i < j => Part(P[i], P[j])
  <2> DEFINE bad == {i \in 1 .. n : par[j] < i /\ i < j /\ ~Part(P[i], P[j])}
  <2>1. SUFFICES ASSUME bad # {} PROVE FALSE
    OBVIOUS
  <2>2. PICK i \in bad : \A l \in bad : i <= l
    <3>1. bad \in SUBSET Nat
      OBVIOUS
    <3> HIDE DEF bad
    <3> QED
      BY <2>1, <3>1, Least
  <2>3. i \in 1 .. n /\ par[j] < i /\ i < j /\ ~Part(P[i], P[j])
    BY <2>2
  <2>4. par[j] <= par[i] /\ par[i] < i /\ par[i] \in 0 .. n /\ par[j] \in 0 .. n
    BY <2>3 DEF Preorder
  <2>5. /\ P[i] = Append(P[par[i]], id[i]) /\ P[j] = Append(P[par[j]], id[j])
        /\ P[par[i]] \in Seq(LamportID) /\ P[j] \in Seq(LamportID)
        /\ id[i] \in LamportID /\ id[j] \in LamportID
    <3>1. P[i] = Append(P[par[i]], id[i]) /\ P[j] = Append(P[par[j]], id[j])
      BY <2>3 DEF Branches
    <3>2. P[par[i]] \in Seq(LamportID) /\ P[j] \in Seq(LamportID)
      BY <2>3, <2>4
    <3>3. id[i] \in LamportID /\ id[j] \in LamportID
      BY <2>3
    <3> QED
      BY <3>1, <3>2, <3>3
  <2>6. CASE par[i] = par[j]
    <3>1. nodeIDPriority(id[i], id[j])
      BY <2>3, <2>6 DEF Preorder
    <3> QED
      BY <2>3, <2>5, <2>6, <3>1, SiblingsPart
  <2>7. CASE par[i] # par[j]
    <3>1. par[i] \in 1 .. n /\ par[j] < par[i] /\ par[i] < j
      <4>1. \A p, q \in 0 .. n : q <= p /\ p # q /\ p < i /\ i < j => p \in 1 .. n /\ q < p /\ p < j
        BY <2>3
      <4> QED
        BY <2>3, <2>4, <2>7, <4>1, Zenon
    <3>2. par[i] \notin bad
      <4>1. ASSUME par[i] \in bad PROVE i <= par[i]
        <5> HIDE DEF bad
        <5> QED
          BY <2>2, <4>1
      <4> HIDE DEF bad
      <4> QED
        BY <2>3, <2>4, <4>1
    <3>3. Part(P[par[i]], P[j])
      BY <3>1, <3>2
    <3> QED
      BY <2>3, <2>5, <3>3, LongerPath
  <2> QED
    BY <2>6, <2>7
<1> DEFINE late == {j \in 1 .. n :
                       \E i \in 1 .. n : i < j /\ ~(Part(P[i], P[j]) \/ Above(P[i], P[j]))}
<1>2. ASSUME late # {} PROVE FALSE
  <2>1. PICK j \in late : \A l \in late : j <= l
    <3>1. late \in SUBSET Nat
      OBVIOUS
    <3> HIDE DEF late
    <3> QED
      BY <1>2, <3>1, Least
  <2>2. PICK i \in 1 .. n : i < j /\ ~(Part(P[i], P[j]) \/ Above(P[i], P[j]))
    BY <2>1
  <2>3. j \in 1 .. n /\ par[j] \in 0 .. n /\ par[j] < j
    BY <2>1 DEF Preorder
  <2>4. /\ P[j] = Append(P[par[j]], id[j]) /\ P[par[j]] \in Seq(LamportID)
        /\ P[i] \in Seq(LamportID) /\ id[j] \in LamportID
    <3>1. P[j] = Append(P[par[j]], id[j])
      BY <2>3 DEF Branches
    <3>2. P[par[j]] \in Seq(LamportID) /\ P[i] \in Seq(LamportID) /\ id[j] \in LamportID
      BY <2>2, <2>3
    <3> QED
      BY <3>1, <3>2
  <2>5. CASE par[j] = i
    BY <2>2, <2>4, <2>5, LongerPath
  <2>6. CASE par[j] < i
    BY <1>1, <2>2, <2>3, <2>6
  <2>7. CASE i < par[j]
    <3>1. par[j] \in 1 .. n /\ par[j] \notin late
      <4>1. par[j] \in 1 .. n
        BY <2>2, <2>3, <2>7
      <4> HIDE DEF late
      <4>2. ~(j <= par[j])
        BY <2>3
      <4> QED
        BY <2>1, <4>1, <4>2
    <3>2. Part(P[i], P[par[j]]) \/ Above(P[i], P[par[j]])
      BY <2>2, <2>7, <3>1
    <3> QED
      BY <2>2, <2>4, <3>2, LongerPath
  <2> QED
    BY <2>2, <2>3, <2>5, <2>6, <2>7
<1>3. \A i, j \in 1 .. n : i < j => Part(P[i], P[j]) \/ Above(P[i], P[j])
  BY <1>2
<1>4. \A i \in 1 .. n : P[i] \in Seq(LamportID)
  OBVIOUS
<1> QED
  BY <1>3, <1>4, BeforeCases

-----------------------------------------------------------------------------
(***************************************************************************)
(* The nodes of a settled replica are the rooted ones.                     *)
(***************************************************************************)
LEMMA RootedNodes ==
    ASSUME NEW x, NEW S, Settled(x, S), NEW M \in Nat, Ordered(S, M)
    PROVE  /\ \A id : id \in DOMAIN x.index <=> id \in Rooted(S)
           /\ \E P \in [0 .. Len(x.nodes) -> Seq(LamportID)] :
                 /\ Branches(Len(x.nodes), Parents(x), IDs(x), P)
                 /\ \A i \in 1 .. Len(x.nodes) : P[i] = Paths(S)[x.nodes[i].id]
<1> DEFINE path == Paths(S)
           n == Len(x.nodes)
           P == [i \in 0 .. n |-> IF i = 0 THEN <<>> ELSE path[x.nodes[i].id]]
<1>1. /\ \A id : id \in DOMAIN path <=> \E op \in S : op.type = "insert" /\ op.id = id
      /\ \A op \in S :
            op.type = "insert" =>
                path[op.id] =
                    IF op.after = Nil THEN <<op.id>>
                    ELSE IF op.after \notin DOMAIN path \/ path[op.after] = <<>>
                         THEN <<>> ELSE Append(path[op.after], op.id)
  BY PathFacts
<1>2. Listed(x) /\ n \in Nat /\ DOMAIN x.nodes = 1 .. n
  BY SettledFacts, ListFacts
<1>3. \A id : id \in Rooted(S) <=> id \in DOMAIN path /\ path[id] # <<>>
  BY DEF Rooted
<1> HIDE DEF path
<1>4. /\ \A i \in 1 .. n : /\ x.nodes[i].id \in LamportID /\ x.nodes[i].id \in DOMAIN x.index
                           /\ IDs(x)[i] = x.nodes[i].id
                           /\ Parents(x)[i] \in 0 .. n /\ Parents(x)[i] < i
      /\ \A i \in 1 .. n : /\ x.nodes[i].after = Nil <=> Parents(x)[i] = 0
                           /\ Parents(x)[i] = PositionOf(x, x.nodes[i].after)
      /\ \A i \in 1 .. n : x.nodes[i].after = Nil \/ x.nodes[i].after \in DOMAIN x.index
      /\ \A id \in DOMAIN x.index : x.index[id] \in 1 .. n /\ x.nodes[x.index[id]].id = id
  <2>1. \A i \in 1 .. n : /\ x.nodes[i].id \in LamportID /\ x.nodes[i].id \in DOMAIN x.index
                          /\ IDs(x)[i] = x.nodes[i].id
                          /\ Parents(x)[i] \in 0 .. n /\ Parents(x)[i] < i
    BY <1>2, ListFacts
  <2>2. \A i \in 1 .. n : /\ x.nodes[i].after = Nil <=> Parents(x)[i] = 0
                          /\ Parents(x)[i] = PositionOf(x, x.nodes[i].after)
    BY <1>2, ListFacts
  <2>3. \A i \in 1 .. n : x.nodes[i].after = Nil \/ x.nodes[i].after \in DOMAIN x.index
    BY <1>2, ListFacts
  <2>4. \A id \in DOMAIN x.index : x.index[id] \in 1 .. n /\ x.nodes[x.index[id]].id = id
    BY <1>2, ListFacts
  <2> QED
    BY <2>1, <2>2, <2>3, <2>4
<1>5. \A i \in 1 .. n : \E op \in S : /\ op.type = "insert" /\ op.id = x.nodes[i].id
                                      /\ op.after = x.nodes[i].after
  <2>1. \A i \in DOMAIN x.nodes : \E op \in S : /\ op.type = "insert" /\ op.id = x.nodes[i].id
                                                /\ op.after = x.nodes[i].after
    BY SettledFacts
  <2> HIDE DEF n
  <2> QED
    BY <1>2, <2>1
<1> HIDE DEF n
<1>6. P[0] = <<>> /\ \A i \in 1 .. n : P[i] = path[x.nodes[i].id]
  BY <1>2
<1>7. \A i \in 1 .. n : x.nodes[i].after # Nil =>
         /\ Parents(x)[i] \in 1 .. n
         /\ x.nodes[Parents(x)[i]].id = x.nodes[i].after
  BY <1>4 DEF PositionOf
<1> HIDE DEF P
<1> DEFINE Right(i) == /\ P[i] \in Seq(LamportID) /\ P[i] # <<>>
                       /\ P[i] = Append(P[Parents(x)[i]], IDs(x)[i])
<1>8. \A i \in 1 .. n : Right(i)
  <2> DEFINE bad == {i \in 1 .. n : ~Right(i)}
  <2>1. SUFFICES ASSUME bad # {} PROVE FALSE
    <3> HIDE DEF Right
    <3> QED
      OBVIOUS
  <2>2. PICK i \in bad : \A l \in bad : i <= l
    <3> HIDE DEF Right
    <3>1. bad \in SUBSET Nat
      OBVIOUS
    <3> HIDE DEF bad
    <3> QED
      BY <2>1, <3>1, Least
  <2>3. i \in 1 .. n /\ ~Right(i)
    <3> HIDE DEF Right
    <3> QED
      BY <2>2
  <2> DEFINE k == Parents(x)[i]
             e == x.nodes[i].id
  <2>4. PICK op \in S : op.type = "insert" /\ op.id = e /\ op.after = x.nodes[i].after
    BY <1>5, <2>3
  <2>5. e \in LamportID /\ IDs(x)[i] = e /\ P[i] = path[e] /\ k \in 0 .. n /\ k < i
    BY <1>4, <1>6, <2>3
  <2>6. CASE op.after = Nil
    <3>1. k = 0
      BY <1>4, <2>3, <2>4, <2>6
    <3>2. path[e] = <<e>>
      BY <1>1, <2>4, <2>6
    <3> HIDE DEF e, k
    <3>3. <<e>> = Append(<<>>, e) /\ <<e>> \in Seq(LamportID) /\ <<e>> # <<>>
      BY <2>5
    <3>4. Right(i)
      BY <1>6, <2>5, <3>1, <3>2, <3>3 DEF k
    <3> QED
      BY <2>3, <3>4
  <2>7. CASE op.after # Nil
    <3>1. k \in 1 .. n /\ x.nodes[k].id = op.after
      BY <1>7, <2>3, <2>4, <2>7
    <3>2. k \notin bad
      <4> HIDE DEF bad, k
      <4> QED
        BY <2>2, <2>3, <2>5, <3>1
    <3>3. Right(k)
      <4> HIDE DEF Right
      <4> QED
        BY <3>1, <3>2
    <3>4. P[k] = path[op.after] /\ P[k] \in Seq(LamportID) /\ P[k] # <<>>
      BY <1>6, <3>1, <3>3
    <3>5. op.after \in DOMAIN path
      <4>1. \E o \in S : o.type = "insert" /\ o.id = op.after
        BY <1>5, <3>1
      <4> QED
        BY <1>1, <4>1
    <3>6. path[e] = Append(P[k], e)
      BY <1>1, <2>4, <2>7, <3>4, <3>5
    <3> HIDE DEF e, k
    <3>7. Append(P[k], e) \in Seq(LamportID) /\ Append(P[k], e) # <<>>
      BY <2>5, <3>4
    <3>8. Right(i)
      BY <2>5, <3>6, <3>7 DEF k
    <3> QED
      BY <2>3, <3>8
  <2> QED
    BY <2>6, <2>7
<1>9. P \in [0 .. n -> Seq(LamportID)] /\ Branches(n, Parents(x), IDs(x), P)
  <2>1. P[0] \in Seq(LamportID)
    BY <1>6
  <2>2. \A i \in 0 .. n : i = 0 \/ i \in 1 .. n
    BY <1>2
  <2>3. \A i \in 0 .. n : P[i] \in Seq(LamportID)
    BY <1>8, <2>1, <2>2
  <2>4. P = [i \in 0 .. n |-> P[i]]
    BY DEF P
  <2>5. P \in [0 .. n -> Seq(LamportID)]
    BY <2>3, <2>4
  <2>6. \A i \in 1 .. n : P[i] = Append(P[Parents(x)[i]], IDs(x)[i])
    BY <1>8
  <2> QED
    BY <2>5, <2>6 DEF Branches
<1>10. ASSUME NEW id \in DOMAIN x.index PROVE id \in Rooted(S)
  <2>1. PICK i \in 1 .. n : x.nodes[i].id = id
    BY <1>4
  <2>2. path[id] # <<>>
    BY <1>6, <1>8, <2>1
  <2>3. id \in DOMAIN path
    BY <1>1, <1>5, <2>1
  <2> QED
    BY <1>3, <2>2, <2>3
<1>11. ASSUME NEW id, id \in Rooted(S) PROVE id \in DOMAIN x.index
  <2> DEFINE lost == {o \in S : /\ o.type = "insert" /\ path[o.id] # <<>>
                                /\ o.id \notin DOMAIN x.index}
             when == {o.id.ts : o \in lost}
  <2>1. SUFFICES ASSUME lost # {} PROVE FALSE
    BY <1>1, <1>3, <1>11
  <2>2. \A o \in S : o.id.ts \in Nat /\ (o.type = "insert" /\ o.after # Nil => o.after.ts < o.id.ts)
    BY DEF Ordered, OperationSet, IsOperation, LamportID
  <2>3. PICK m \in when : \A l \in when : m <= l
    <3>1. when \in SUBSET Nat /\ when # {}
      BY <2>1, <2>2
    <3> HIDE DEF when
    <3> QED
      BY <3>1, Least
  <2>4. PICK o \in lost : m = o.id.ts
    BY <2>3
  <2>5. o \in S /\ o.type = "insert" /\ path[o.id] # <<>> /\ o.id \notin DOMAIN x.index
    BY <2>4
  <2>6. ~ready(x, o)
    BY <2>5, SettledFacts
  <2>7. o.after # Nil /\ o.after \notin DOMAIN x.index
    BY <2>5, <2>6 DEF ready
  <2>8. o.after \in DOMAIN path /\ path[o.after] # <<>>
    BY <1>1, <2>5, <2>7
  <2>9. PICK p \in S : p.type = "insert" /\ p.id = o.after
    BY <1>1, <2>8
  <2>10. p \in lost
    BY <2>7, <2>8, <2>9
  <2>11. m <= p.id.ts
    BY <2>3, <2>10
  <2> QED
    BY <2>2, <2>4, <2>5, <2>7, <2>9, <2>11
<1>12. \A id : id \in DOMAIN x.index <=> id \in Rooted(S)
  BY <1>10, <1>11
<1> QED
  BY <1>6, <1>9, <1>12 DEF n, path

(***************************************************************************)
(* A replica's list is the preorder of the tree of the operations it has   *)
(* seen: the inserts whose ancestors have all arrived, in tree order,      *)
(* deleted when a delete was seen; the rest waits, once.  This is for any  *)
(* number of clients and operations and any order of delivery.             *)
(***************************************************************************)
THEOREM ListsAreTreeOrders == Spec => []DocumentIsTreeOrder
<1>1. Inv => DocumentIsTreeOrder
  <2> SUFFICES ASSUME Inv, NEW r \in Replica
               PROVE  LET S == SeenOps(r)
                          path == Paths(S)
                          ids == Rooted(S)
                          nodes == rga[r].nodes
                          pending == rga[r].pending
                          waiting == {op \in S : op.id \notin ids}
                      IN  /\ {nodes[i].id : i \in DOMAIN nodes} = ids
                          /\ \A i, j \in DOMAIN nodes :
                                i < j => Before(path[nodes[i].id], path[nodes[j].id])
                          /\ \A i \in DOMAIN nodes :
                                nodes[i].deleted <=>
                                    \E op \in S : op.type = "delete" /\ op.id = nodes[i].id
                          /\ ToSet(pending) = waiting /\ Len(pending) = Cardinality(waiting)
    BY DEF DocumentIsTreeOrder
  <2> DEFINE x == rga[r]
             S == SeenOps(r)
             M == Cardinality(issued) + 1
             n == Len(x.nodes)
             waiting == {op \in S : op.id \notin Rooted(S)}
  <2>1. S = SeenIn(x, issued) /\ IssuedInv(issued) /\ ReplicaInv(x, issued)
    BY DEF SeenOps, SeenIn, Inv
  <2>2. Settled(x, S)
    BY <2>1 DEF ReplicaInv
  <2>3. M \in Nat /\ Ordered(S, M)
    <3>1. Cardinality(issued) \in Nat
      BY <2>1, FS_CardinalityType DEF IssuedInv
    <3>2. S \subseteq issued
      BY DEF SeenOps
    <3> HIDE DEF S
    <3>3. OperationSet(S)
      BY <2>1, <3>2 DEF IssuedInv, OperationSet
    <3>4. \A op \in S : op.id.ts \in Nat /\ op.id.ts <= Cardinality(issued)
      BY <2>1, <3>2, OperationFacts DEF IssuedInv
    <3>5. \A op \in S : op.id.ts < M
      BY <3>1, <3>4
    <3>6. \A op \in S : op.type = "insert" /\ op.after # Nil => op.after.ts < op.id.ts
      BY <2>1, <3>2 DEF IssuedInv
    <3> QED
      BY <3>1, <3>3, <3>5, <3>6 DEF Ordered
  <2> HIDE DEF S, M, x
  <2>4. /\ Listed(x) /\ n \in Nat /\ DOMAIN x.nodes = 1 .. n
    BY <2>2, SettledFacts, ListFacts
  <2>5. \A id : id \in DOMAIN x.index <=> id \in Rooted(S)
    BY <2>2, <2>3, RootedNodes
  <2>6. {x.nodes[i].id : i \in DOMAIN x.nodes} = Rooted(S)
    <3>1. DOMAIN x.index = {x.nodes[i].id : i \in DOMAIN x.nodes}
      BY <2>4 DEF Listed, ListIDs
    <3> QED
      BY <2>5, <3>1
  <2>7. \A i, j \in DOMAIN x.nodes :
           i < j => Before(Paths(S)[x.nodes[i].id], Paths(S)[x.nodes[j].id])
    <3>1. PICK P \in [0 .. n -> Seq(LamportID)] :
             /\ Branches(n, Parents(x), IDs(x), P)
             /\ \A i \in 1 .. n : P[i] = Paths(S)[x.nodes[i].id]
      BY <2>2, <2>3, RootedNodes
    <3>2. /\ Parents(x) \in [1 .. n -> 0 .. n] /\ IDs(x) \in [1 .. n -> LamportID]
          /\ Preorder(n, Parents(x), IDs(x))
      BY <2>4, ListFacts DEF Listed
    <3> HIDE DEF n
    <3>3. \A i, j \in 1 .. n : i < j => Before(P[i], P[j])
      BY <2>4, <3>1, <3>2, TreeOrder, Zenon
    <3> QED
      BY <2>4, <3>1, <3>3
  <2>8. \A i \in DOMAIN x.nodes :
           x.nodes[i].deleted <=> \E op \in S : op.type = "delete" /\ op.id = x.nodes[i].id
    BY <2>2, SettledFacts
  <2>9. Waiting(x) = waiting
    <3>1. \A op \in S : op \in Waiting(x) <=> op.id \notin DOMAIN x.index
      BY <2>2, SettledFacts
    <3>2. Waiting(x) \subseteq S
      BY <2>2 DEF Settled, Covers, Waiting
    <3> QED
      BY <2>5, <3>1, <3>2
  <2>10. ToSet(x.pending) = waiting
    BY <2>9 DEF ToSet, Waiting
  <2>11. Len(x.pending) = Cardinality(waiting)
    <3> DEFINE k == Len(x.pending)
    <3>1. /\ x.pending \in Seq(S) /\ k \in Nat /\ DOMAIN x.pending = 1 .. k
          /\ \A i, j \in 1 .. k : x.pending[i] = x.pending[j] => i = j
      BY <2>2 DEF Settled, Covers
    <3> HIDE DEF waiting, k
    <3>2. x.pending \in Bijection(1 .. k, waiting)
      <4>1. \A i \in 1 .. k : x.pending[i] \in waiting
        BY <2>9, <3>1 DEF Waiting
      <4>2. \A op \in waiting : \E i \in 1 .. k : x.pending[i] = op
        BY <2>9, <3>1 DEF Waiting
      <4>3. x.pending = [i \in 1 .. k |-> x.pending[i]]
        BY <3>1
      <4>4. x.pending \in [1 .. k -> waiting]
        BY <4>1, <4>3
      <4> QED
        BY <3>1, <4>2, <4>4 DEF Bijection, Injection, Surjection, IsInjective
    <3>3. ExistsBijection(1 .. k, waiting)
      BY <3>2 DEF ExistsBijection
    <3>4. 1 \in Int /\ k \in Int
      BY <3>1
    <3>5. IsFiniteSet(1 .. k) /\ Cardinality(1 .. k) = IF 1 > k THEN 0 ELSE k - 1 + 1
      BY <3>4, FS_Interval, Zenon
    <3>6. Cardinality(waiting) = Cardinality(1 .. k)
      BY <3>3, <3>5, FS_Bijection, Zenon
    <3> QED
      BY <3>1, <3>5, <3>6 DEF k
  <2> HIDE DEF waiting
  <2> QED
    BY <2>6, <2>7, <2>8, <2>10, <2>11 DEF x, S, waiting
<1> QED
  BY <1>1, Invariant, PTL
=============================================================================
