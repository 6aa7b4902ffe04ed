------------------------------ MODULE RGAProofs ------------------------------
(***************************************************************************)
(* What the operators of the RGA do to any replica, for any set of         *)
(* operations: the facts that the theorems about replicas of a document    *)
(* and about the projection of an entry rest on.                           *)
(***************************************************************************)
EXTENDS RGA, FiniteSetTheorems, SequenceTheorems, WellFoundedInduction, TLAPS

-----------------------------------------------------------------------------
(***************************************************************************)
(* The shape of a list.  Of a node at position i only its id and the       *)
(* position par[i] of the node it was inserted after matter, 0 for the     *)
(* head.  The list is a preorder of the tree that par describes: a parent  *)
(* is left of its children, nothing foreign lies between a node and its    *)
(* descendants, and siblings are in the order of nodeIDPriority.           *)
(***************************************************************************)
Preorder(n, par, id) ==
    /\ \A i \in 1 .. n : par[i] < i
    /\ \A i, j \in 1 .. n : par[i] < j /\ j < i => par[i] <= par[j]
    /\ \A i, j \in 1 .. n : j < i /\ par[j] = par[i] => nodeIDPriority(id[j], id[i])

(***************************************************************************)
(* What holds whenever the loop of applyInsert looks at position k, for a  *)
(* node of id new to be inserted after position q: everything from q to k  *)
(* belongs below q, the children of q among it have priority over new, and *)
(* no subtree reaches across k except those that q itself lies in.         *)
(***************************************************************************)
Passed(n, par, id, q, new, k) ==
    /\ q < k /\ k <= n + 1
    /\ \A j \in 1 .. n : q < j /\ j < k => q <= par[j]
    /\ \A j \in 1 .. n : q < j /\ j < k /\ par[j] = q => nodeIDPriority(id[j], new)
    /\ \A i \in 1 .. n : k <= i => par[i] <= q \/ k <= par[i]

\* The loop stops at k: the end of the list, or a node that new comes before.
Stops(n, par, id, q, new, k) ==
    k <= n => par[k] # q \/ nodeIDPriority(new, id[k])

\* Where a position moves when a node is put in at position at.
Moved(at, i) == IF i < at THEN i ELSE i + 1

-----------------------------------------------------------------------------
(***************************************************************************)
(* Induction, as the two facts that a set of positions has a least and a   *)
(* greatest element.                                                       *)
(***************************************************************************)
LEMMA Least ==
    ASSUME NEW I \in SUBSET Nat, I # {}
    PROVE  \E i \in I : \A j \in I : i <= j
<1> DEFINE R == OpToRel(<, Nat)
<1>1. \A i, j \in Nat : <<i, j>> \in R <=> i < j
  BY DEF OpToRel
<1>2. IsWellFoundedOn(R, Nat)
  BY NatLessThanWellFounded
<1> HIDE DEF R
<1>3. PICK i \in I : \A j \in I : ~(<<j, i>> \in R)
  <2>1. I \subseteq Nat
    OBVIOUS
  <2> QED
    BY <1>2, <2>1, WFMin, Zenon
<1>4. \A j \in I : ~(j < i)
  BY <1>1, <1>3
<1> QED
  BY <1>3, <1>4

\* A bounded set of positions has a greatest.
LEMMA Greatest ==
    ASSUME NEW n \in Nat, NEW I \in SUBSET (0 .. n), I # {}
    PROVE  \E i \in I : \A j \in I : j <= i
<1> DEFINE below == {n - i : i \in I}
<1>1. below \in SUBSET Nat /\ below # {}
  <2>1. \A i \in I : n - i \in Nat
    OBVIOUS
  <2> QED
    BY <2>1
<1>2. PICK m \in below : \A l \in below : m <= l
  BY <1>1, Least
<1>3. PICK i \in I : m = n - i
  BY <1>2
<1>4. \A j \in I : n - j \in below
  OBVIOUS
<1> HIDE DEF below
<1> QED
  BY <1>2, <1>3, <1>4

(***************************************************************************)
(* nodeIDPriority is a strict total order of ids.                          *)
(***************************************************************************)
LEMMA PriorityOrder ==
    ASSUME NEW a \in LamportID, NEW b \in LamportID, NEW c \in LamportID
    PROVE  /\ nodeIDPriority(a, b) /\ nodeIDPriority(b, c) => nodeIDPriority(a, c)
           /\ a # b => nodeIDPriority(a, b) \/ nodeIDPriority(b, a)
           /\ ~(nodeIDPriority(a, b) /\ nodeIDPriority(b, a))
  BY DEF LamportID, nodeIDPriority

-----------------------------------------------------------------------------
(***************************************************************************)
(* The list of a tree.                                                     *)
(***************************************************************************)

(***************************************************************************)
(* A step of the loop: past a sibling that has priority, over its subtree, *)
(* to the first position m whose parent is left of it.                     *)
(***************************************************************************)
LEMMA LoopStep ==
    ASSUME NEW n \in Nat, NEW par \in [1 .. n -> 0 .. n], NEW id \in [1 .. n -> LamportID],
           Preorder(n, par, id),
           NEW q \in 0 .. n, NEW new \in LamportID, \A i \in 1 .. n : id[i] # new,
           NEW k \in 1 .. n, Passed(n, par, id, q, new, k),
           ~Stops(n, par, id, q, new, k),
           NEW m \in k + 1 .. n + 1,
           \A j \in 1 .. n : k < j /\ j < m => k <= par[j],
           m <= n => par[m] < k
    PROVE  Passed(n, par, id, q, new, m)
<1>1. par[k] = q /\ nodeIDPriority(id[k], new)
  <2>1. par[k] = q /\ ~nodeIDPriority(new, id[k])
    BY DEF Stops
  <2> QED
    BY <2>1, PriorityOrder
<1>2. q < m /\ m <= n + 1
  BY DEF Passed
<1>3. ASSUME NEW j \in 1 .. n, q < j, j < m
      PROVE  q <= par[j] /\ (par[j] = q => nodeIDPriority(id[j], new))
  BY <1>1, <1>3 DEF Passed
<1>4. ASSUME NEW i \in 1 .. n, m <= i PROVE par[i] <= q \/ m <= par[i]
  <2>1. par[i] <= q \/ k <= par[i]
    BY <1>4 DEF Passed
  <2>2. CASE i = m
    BY <2>1, <2>2
  <2>3. CASE m < i /\ k <= par[i] /\ par[i] < m
    BY <2>3 DEF Preorder
  <2> QED
    BY <1>4, <2>1, <2>2, <2>3
<1> QED
  BY <1>2, <1>3, <1>4 DEF Passed

(***************************************************************************)
(* Putting a node where the loop has stopped gives the list of the tree    *)
(* with one more leaf.                                                     *)
(***************************************************************************)
LEMMA InsertPreorder ==
    ASSUME NEW n \in Nat, NEW par \in [1 .. n -> 0 .. n], NEW id \in [1 .. n -> LamportID],
           Preorder(n, par, id),
           NEW q \in 0 .. n, NEW new \in LamportID,
           NEW at \in 1 .. n + 1, Passed(n, par, id, q, new, at),
           Stops(n, par, id, q, new, at),
           NEW par2, NEW id2,
           par2[at] = q, id2[at] = new,
           \A i \in 1 .. n : /\ par2[Moved(at, i)] = Moved(at, par[i])
                             /\ id2[Moved(at, i)] = id[i]
    PROVE  Preorder(n + 1, par2, id2)
<1>1. \A k \in 1 .. n + 1 : k = at \/ \E i \in 1 .. n : k = Moved(at, i)
  <2> SUFFICES ASSUME NEW k \in 1 .. n + 1, k # at
               PROVE  \E i \in 1 .. n : k = Moved(at, i)
    OBVIOUS
  <2>1. CASE k < at
    <3>1. k \in 1 .. n /\ k = Moved(at, k)
      BY <2>1 DEF Moved
    <3> QED
      BY <3>1
  <2>2. CASE k > at
    <3>1. k - 1 \in 1 .. n /\ k = Moved(at, k - 1)
      BY <2>2 DEF Moved
    <3> QED
      BY <3>1
  <2> QED
    BY <2>1, <2>2
<1>2. \A i \in 1 .. n : /\ par[i] \in 0 .. n /\ par[i] < i /\ id[i] \in LamportID
                        /\ par[i] <= q \/ par[i] >= at \/ i < at
  BY DEF Preorder, Passed
<1>3. q < at
  BY DEF Passed
<1>4. \A k \in 1 .. n + 1 : par2[k] < k
  <2>1. \A i \in 1 .. n : Moved(at, par[i]) < Moved(at, i)
    BY <1>2 DEF Moved
  <2> QED
    BY <1>1, <1>3, <2>1
<1>5. ASSUME NEW k \in 1 .. n + 1, NEW l \in 1 .. n + 1, par2[k] < l, l < k
      PROVE  par2[k] <= par2[l]
  <2>1. CASE k = at
    <3>1. PICK j \in 1 .. n : l = Moved(at, j)
      BY <1>1, <1>5, <2>1
    <3>2. j < at /\ l = j /\ q < j
      BY <1>5, <2>1, <3>1 DEF Moved
    <3> QED
      BY <1>2, <2>1, <3>1, <3>2 DEF Passed, Moved
  <2>2. ASSUME NEW i \in 1 .. n, k = Moved(at, i), l = at PROVE par2[k] <= par2[l]
    <3>1. par2[k] = Moved(at, par[i]) /\ par2[l] = q
      BY <2>2
    <3>2. at <= i /\ par[i] < at
      BY <1>2, <1>5, <2>2, <3>1 DEF Moved
    <3>3. par[i] <= q
      BY <1>2, <3>2
    <3> QED
      BY <1>2, <1>3, <3>1, <3>3 DEF Moved
  <2>3. ASSUME NEW i \in 1 .. n, NEW j \in 1 .. n, k = Moved(at, i), l = Moved(at, j)
        PROVE  par2[k] <= par2[l]
    <3>1. par2[k] = Moved(at, par[i]) /\ par2[l] = Moved(at, par[j])
      BY <2>3
    <3>2. par[i] < j /\ j < i
      BY <1>2, <1>5, <2>3, <3>1 DEF Moved
    <3>3. par[i] <= par[j]
      BY <3>2 DEF Preorder
    <3> QED
      BY <1>2, <3>1, <3>3 DEF Moved
  <2> QED
    BY <1>1, <2>1, <2>2, <2>3
<1>6. ASSUME NEW k \in 1 .. n + 1, NEW l \in 1 .. n + 1, l < k, par2[l] = par2[k]
      PROVE  nodeIDPriority(id2[l], id2[k])
  <2>1. CASE k = at
    <3>1. PICK j \in 1 .. n : l = Moved(at, j)
      BY <1>1, <1>6, <2>1
    <3>2. j < at /\ l = j /\ par2[l] = Moved(at, par[j]) /\ par2[k] = q
      BY <1>6, <2>1, <3>1 DEF Moved
    <3>3. par[j] = q
      BY <1>2, <1>3, <1>6, <3>2 DEF Moved
    <3>4. q < j
      BY <1>2, <3>3
    <3> QED
      BY <2>1, <3>1, <3>2, <3>3, <3>4 DEF Passed
  <2>2. ASSUME NEW i \in 1 .. n, k = Moved(at, i), l = at
        PROVE  nodeIDPriority(id2[l], id2[k])
    <3>1. at <= i /\ Moved(at, par[i]) = q
      BY <1>6, <2>2 DEF Moved
    <3>2. par[i] = q /\ at \in 1 .. n
      BY <1>2, <1>3, <3>1 DEF Moved
    <3>3. par[at] = q
      <4>1. CASE i = at
        BY <3>2, <4>1
      <4>2. CASE at < i
        <5>1. par[i] <= par[at]
          BY <1>3, <3>2, <4>2 DEF Preorder
        <5> QED
          BY <1>2, <3>2, <5>1
      <4> QED
        BY <3>1, <4>1, <4>2
    <3>4. nodeIDPriority(new, id[at])
      BY <3>2, <3>3 DEF Stops
    <3>5. i # at => nodeIDPriority(id[at], id[i])
      BY <3>1, <3>2, <3>3 DEF Preorder
    <3>6. nodeIDPriority(new, id[i])
      BY <1>2, <3>2, <3>4, <3>5, PriorityOrder
    <3> QED
      BY <2>2, <3>6
  <2>3. ASSUME NEW i \in 1 .. n, NEW j \in 1 .. n, k = Moved(at, i), l = Moved(at, j)
        PROVE  nodeIDPriority(id2[l], id2[k])
    <3>1. Moved(at, par[i]) = Moved(at, par[j]) /\ j < i
      BY <1>6, <2>3 DEF Moved
    <3>2. par[i] = par[j]
      <4>1. par[i] \in Int /\ par[j] \in Int
        BY <1>2
      <4> QED
        BY <3>1, <4>1 DEF Moved
    <3> QED
      BY <2>3, <3>1, <3>2 DEF Preorder
  <2> QED
    BY <1>1, <1>6, <2>1, <2>2, <2>3
<1> QED
  BY <1>4, <1>5, <1>6 DEF Preorder

-----------------------------------------------------------------------------
(***************************************************************************)
(* A replica's list and its index.                                         *)
(***************************************************************************)
ListNode ==
    [id : LamportID, after : LamportID \cup {Nil}, deleted : BOOLEAN, auth : BOOLEAN]

ListIDs(x) == {x.nodes[i].id : i \in DOMAIN x.nodes}

\* The position of a node, 0 for the head of the list.
PositionOf(x, id) == IF id = Nil THEN 0 ELSE x.index[id]

Parents(x) == [i \in DOMAIN x.nodes |-> PositionOf(x, x.nodes[i].after)]

IDs(x) == [i \in DOMAIN x.nodes |-> x.nodes[i].id]

\* The index has the position of every node; no node precedes its After.
Listed(x) ==
    /\ x.nodes \in Seq(ListNode)
    /\ x.index \in [ListIDs(x) -> DOMAIN x.nodes]
    /\ \A i \in DOMAIN x.nodes : x.index[x.nodes[i].id] = i
    /\ \A i \in DOMAIN x.nodes : x.nodes[i].after \in ListIDs(x) \cup {Nil}
    /\ Preorder(Len(x.nodes), Parents(x), IDs(x))

\* What the list and its index say of each other, position by position.
LEMMA ListFacts ==
    ASSUME NEW x, Listed(x)
    PROVE  /\ Len(x.nodes) \in Nat /\ DOMAIN x.nodes = 1 .. Len(x.nodes)
           /\ \A i \in 1 .. Len(x.nodes) :
                 /\ x.nodes[i] \in ListNode /\ x.nodes[i].id \in LamportID
                 /\ x.nodes[i].id # Nil
                 /\ x.nodes[i].id \in DOMAIN x.index /\ x.index[x.nodes[i].id] = i
                 /\ x.nodes[i].after = Nil \/ x.nodes[i].after \in DOMAIN x.index
                 /\ Parents(x)[i] \in 0 .. Len(x.nodes) /\ Parents(x)[i] < i
                 /\ x.nodes[i].after = Nil <=> Parents(x)[i] = 0
                 /\ IDs(x)[i] = x.nodes[i].id
                 /\ Parents(x)[i] = PositionOf(x, x.nodes[i].after)
           /\ \A i, j \in 1 .. Len(x.nodes) : x.nodes[i].id = x.nodes[j].id => i = j
           /\ Parents(x) \in [1 .. Len(x.nodes) -> 0 .. Len(x.nodes)]
           /\ IDs(x) \in [1 .. Len(x.nodes) -> LamportID]
           /\ \A id \in DOMAIN x.index : /\ x.index[id] \in 1 .. Len(x.nodes)
                                         /\ x.nodes[x.index[id]].id = id
                                         /\ id # Nil /\ id \in LamportID
<1>1. Len(x.nodes) \in Nat /\ DOMAIN x.nodes = 1 .. Len(x.nodes)
  BY DEF Listed
<1>2. \A i \in 1 .. Len(x.nodes) : x.nodes[i] \in ListNode
  BY DEF Listed
<1>3. \A i \in 1 .. Len(x.nodes) : x.nodes[i].id \in LamportID /\ x.nodes[i].id # Nil
  BY <1>2, NilAssumption DEF ListNode
<1>4. DOMAIN x.index = ListIDs(x) /\ \A id \in ListIDs(x) : x.index[id] \in 1 .. Len(x.nodes)
  BY <1>1 DEF Listed
<1>5. \A i \in 1 .. Len(x.nodes) : x.nodes[i].id \in ListIDs(x) /\ x.index[x.nodes[i].id] = i
  BY <1>1 DEF Listed, ListIDs
<1>6. \A id \in ListIDs(x) : \E i \in 1 .. Len(x.nodes) : x.nodes[i].id = id
  BY <1>1 DEF ListIDs
<1>7. \A id \in ListIDs(x) : x.nodes[x.index[id]].id = id /\ id # Nil /\ id \in LamportID
  BY <1>3, <1>5, <1>6
<1>8. \A i \in 1 .. Len(x.nodes) : x.nodes[i].after = Nil \/ x.nodes[i].after \in ListIDs(x)
  BY <1>1 DEF Listed
<1>9. \A i \in 1 .. Len(x.nodes) :
         /\ Parents(x)[i] = PositionOf(x, x.nodes[i].after)
         /\ IDs(x)[i] = x.nodes[i].id
  BY <1>1 DEF Parents, IDs
<1>10. \A i \in 1 .. Len(x.nodes) : /\ Parents(x)[i] \in 0 .. Len(x.nodes)
                                    /\ x.nodes[i].after = Nil <=> Parents(x)[i] = 0
  BY <1>1, <1>4, <1>8, <1>9 DEF PositionOf
<1>11. \A i \in 1 .. Len(x.nodes) : Parents(x)[i] < i
  BY DEF Listed, Preorder
<1>12. Parents(x) \in [1 .. Len(x.nodes) -> 0 .. Len(x.nodes)]
  BY <1>1, <1>9, <1>10 DEF Parents
<1>13. IDs(x) \in [1 .. Len(x.nodes) -> LamportID]
  BY <1>1, <1>3 DEF IDs
<1>14. \A i, j \in 1 .. Len(x.nodes) : x.nodes[i].id = x.nodes[j].id => i = j
  BY <1>5
<1>15. \A i \in 1 .. Len(x.nodes) :
          /\ x.nodes[i].id \in DOMAIN x.index
          /\ x.nodes[i].after = Nil \/ x.nodes[i].after \in DOMAIN x.index
  BY <1>4, <1>5, <1>8
<1>16. \A id \in DOMAIN x.index : /\ x.index[id] \in 1 .. Len(x.nodes)
                                  /\ x.nodes[x.index[id]].id = id
                                  /\ id # Nil /\ id \in LamportID
  BY <1>4, <1>7
<1> QED
  BY <1>1, <1>2, <1>3, <1>5, <1>9, <1>10, <1>11, <1>12, <1>13, <1>14, <1>15, <1>16

(***************************************************************************)
(* What pointers to the left lead to k is well defined.                    *)
(***************************************************************************)
LEMMA ChaseExists ==
    ASSUME NEW n \in Nat, NEW par \in [1 .. n -> 0 .. n], \A i \in 1 .. n : par[i] < i,
           NEW k \in 1 .. n
    PROVE  \E D \in SUBSET (1 .. n) :
              \A i \in 1 .. n : i \in D <=> par[i] # 0 /\ (par[i] = k \/ par[i] \in D)
<1> DEFINE Upto(m) ==
               \E D \in SUBSET (1 .. m) :
                  \A i \in 1 .. m : i \in D <=> par[i] # 0 /\ (par[i] = k \/ par[i] \in D)
           bad == {m \in 0 .. n : ~Upto(m)}
<1>1. SUFFICES ASSUME bad # {} PROVE FALSE
  <2>1. n \in 0 .. n
    OBVIOUS
  <2>2. Upto(n)
    <3> HIDE DEF Upto
    <3> QED
      BY <2>1
  <2> HIDE DEF bad
  <2> QED
    BY <2>2
<1>2. PICK m \in bad : \A l \in bad : m <= l
  <2> HIDE DEF Upto
  <2>1. bad \in SUBSET Nat
    OBVIOUS
  <2> QED
    BY <1>1, <2>1, Least
<1>3. m \in 0 .. n /\ ~Upto(m)
  BY <1>2
<1>4. m # 0
  <2>1. Upto(0)
    <3>1. {} \in SUBSET (1 .. 0) /\ \A i \in 1 .. 0 : FALSE
      OBVIOUS
    <3> QED
      BY <3>1
  <2> QED
    BY <1>3, <2>1
<1>5. Upto(m - 1)
  <2> HIDE DEF Upto
  <2>1. m - 1 \in 0 .. n
    BY <1>3, <1>4
  <2>2. m - 1 \notin bad
    BY <1>2, <1>3
  <2> QED
    BY <2>1, <2>2
<1>6. PICK D \in SUBSET (1 .. m - 1) :
         \A i \in 1 .. m - 1 : i \in D <=> par[i] # 0 /\ (par[i] = k \/ par[i] \in D)
  BY <1>5
<1> DEFINE G == {i \in 1 .. m : par[i] # 0 /\ (par[i] = k \/ par[i] \in D)}
<1>7. \A i \in 1 .. m - 1 : i \in G <=> i \in D
  BY <1>3, <1>4, <1>6
<1>8. \A i \in 1 .. m : par[i] # 0 => par[i] \in 1 .. m - 1
  BY <1>3
<1>9. G \in SUBSET (1 .. m)
  OBVIOUS
<1>10. \A i \in 1 .. m : i \in G <=> par[i] # 0 /\ (par[i] = k \/ par[i] \in G)
  BY <1>7, <1>8
<1> QED
  BY <1>3, <1>9, <1>10

(***************************************************************************)
(* isDescendantOf follows After from node to node.                         *)
(***************************************************************************)
LEMMA Descends ==
    ASSUME NEW x, Listed(x), NEW k \in 1 .. Len(x.nodes)
    PROVE  \A i \in 1 .. Len(x.nodes) :
              isDescendantOf(x, i, x.nodes[k].id) <=>
                  /\ Parents(x)[i] # 0
                  /\ \/ Parents(x)[i] = k
                     \/ isDescendantOf(x, Parents(x)[i], x.nodes[k].id)
<1> DEFINE n == Len(x.nodes)
           par == Parents(x)
           parent == x.nodes[k].id
           E(g, i) == /\ x.nodes[i].after # Nil
                      /\ \/ x.nodes[i].after = parent
                         \/ /\ x.nodes[i].after \in DOMAIN x.index
                            /\ g[x.index[x.nodes[i].after]]
           below == CHOOSE g : g = [i \in DOMAIN x.nodes |-> E(g, i)]
<1>1. \A g : \A i \in 1 .. n : E(g, i) <=> par[i] # 0 /\ (par[i] = k \/ g[par[i]])
  <2> SUFFICES ASSUME NEW g, NEW i \in 1 .. n
               PROVE  E(g, i) <=> par[i] # 0 /\ (par[i] = k \/ g[par[i]])
    OBVIOUS
  <2>1. CASE x.nodes[i].after = Nil
    BY <2>1, ListFacts
  <2>2. CASE x.nodes[i].after # Nil
    <3>1. par[i] # 0 /\ x.nodes[i].after \in DOMAIN x.index
          /\ par[i] = x.index[x.nodes[i].after]
      BY <2>2, ListFacts DEF PositionOf
    <3>2. x.nodes[i].after = parent <=> par[i] = k
      <4>1. x.index[x.nodes[k].id] = k
        BY ListFacts
      <4>2. x.nodes[x.index[x.nodes[i].after]].id = x.nodes[i].after
        BY <3>1, ListFacts
      <4> QED
        BY <3>1, <4>1, <4>2
    <3> QED
      BY <2>2, <3>1, <3>2
  <2> QED
    BY <2>1, <2>2
<1>2. PICK D \in SUBSET (1 .. n) :
         \A i \in 1 .. n : i \in D <=> par[i] # 0 /\ (par[i] = k \/ par[i] \in D)
  <2>1. /\ n \in Nat /\ par \in [1 .. n -> 0 .. n] /\ k \in 1 .. n
        /\ \A i \in 1 .. n : par[i] < i
    BY ListFacts
  <2> HIDE DEF n, par
  <2> QED
    BY <2>1, ChaseExists
<1>3. \E f : f = [i \in DOMAIN x.nodes |-> E(f, i)]
  <2> DEFINE f == [i \in 1 .. n |-> i \in D]
  <2>1. DOMAIN x.nodes = 1 .. n /\ \A i \in 1 .. n : par[i] # 0 => par[i] \in 1 .. n
    BY ListFacts
  <2>2. \A i \in 1 .. n : (i \in D) = E(f, i)
    <3>1. \A i \in 1 .. n : par[i] # 0 => (f[par[i]] <=> par[i] \in D)
      BY <2>1
    <3>2. \A i \in 1 .. n : E(f, i) <=> par[i] # 0 /\ (par[i] = k \/ f[par[i]])
      BY <1>1
    <3>3. \A i \in 1 .. n : E(f, i) \in BOOLEAN
      OBVIOUS
    <3> HIDE DEF E, n, par, f
    <3> QED
      BY <1>2, <3>1, <3>2, <3>3
  <2>3. f = [i \in DOMAIN x.nodes |-> E(f, i)]
    <3> HIDE DEF E, n, par
    <3> QED
      BY <2>1, <2>2
  <2> HIDE DEF E, f
  <2> QED
    BY <2>3
<1>4. below = [i \in DOMAIN x.nodes |-> E(below, i)]
  <2> HIDE DEF E
  <2> QED
    BY <1>3
<1>5. \A i \in 1 .. n : isDescendantOf(x, i, parent) = below[i]
  BY DEF isDescendantOf
<1>6. \A i \in 1 .. n : below[i] = E(below, i)
  <2>1. DOMAIN x.nodes = 1 .. n
    BY ListFacts
  <2> HIDE DEF E, below, n
  <2> QED
    BY <1>4, <2>1
<1>7. \A i \in 1 .. n : par[i] # 0 => par[i] \in 1 .. n
  BY ListFacts
<1> HIDE DEF below, n, parent, E
<1> QED
  BY <1>1, <1>5, <1>6, <1>7 DEF n, parent

(***************************************************************************)
(* skipSubtree finds the first position to the right whose parent is left  *)
(* of the node: everything between is below it.                            *)
(***************************************************************************)
LEMMA SkipsSubtree ==
    ASSUME NEW x, Listed(x), NEW k \in 1 .. Len(x.nodes)
    PROVE  /\ skipSubtree(x, k) \in k + 1 .. Len(x.nodes) + 1
           /\ \A j \in 1 .. Len(x.nodes) :
                 k < j /\ j < skipSubtree(x, k) => k <= Parents(x)[j]
           /\ skipSubtree(x, k) <= Len(x.nodes) => Parents(x)[skipSubtree(x, k)] < k
<1> DEFINE n == Len(x.nodes)
           par == Parents(x)
           D(i) == isDescendantOf(x, i, x.nodes[k].id)
           past == {j \in k + 1 .. n + 1 : j \in DOMAIN x.nodes => ~D(j)}
           m == skipSubtree(x, k)
<1>1. \A i \in 1 .. n : D(i) <=> par[i] # 0 /\ (par[i] = k \/ D(par[i]))
  BY Descends
<1>2. /\ n \in Nat /\ DOMAIN x.nodes = 1 .. n
      /\ \A i \in 1 .. n : par[i] \in 0 .. n /\ par[i] < i
  BY ListFacts
<1>3. m = CHOOSE i \in past : \A j \in past : i <= j
  BY DEF skipSubtree, Min
<1> HIDE DEF D, n, par
<1>4. n + 1 \in past /\ past \in SUBSET Nat
  BY <1>2
<1>5. m \in past /\ \A j \in past : m <= j
  <2>1. \E i \in past : \A j \in past : i <= j
    BY <1>4, Least
  <2> HIDE DEF past, m
  <2> QED
    BY <1>3, <2>1
<1>6. m \in k + 1 .. n + 1 /\ (m <= n => ~D(m))
  BY <1>2, <1>5
<1>7. \A j \in 1 .. n : k < j /\ j < m => D(j)
  BY <1>2, <1>5, <1>6
<1> HIDE DEF past, m
<1>8. \A i \in 1 .. k : ~D(i)
  <2> DEFINE bad == {i \in 1 .. k : D(i)}
  <2> SUFFICES ASSUME bad # {} PROVE FALSE
    OBVIOUS
  <2>1. bad \in SUBSET Nat
    OBVIOUS
  <2>2. PICK i \in bad : \A j \in bad : i <= j
    BY <2>1, Least
  <2>3. i \in 1 .. k /\ D(i) /\ i \in 1 .. n
    BY <1>2, <2>2 DEF n
  <2>4. par[i] # 0 /\ (par[i] = k \/ D(par[i])) /\ par[i] < i /\ par[i] \in 0 .. n
    BY <1>1, <1>2, <2>3
  <2>5. par[i] \in bad
    BY <2>3, <2>4
  <2> QED
    BY <2>2, <2>3, <2>4, <2>5
<1>9. \A j \in 1 .. n : par[j] < k => ~D(j)
  BY <1>1, <1>2, <1>8
<1>10. ASSUME m <= n PROVE par[m] < k
  <2>1. m \in 1 .. n /\ k < m /\ ~D(m)
    BY <1>2, <1>6, <1>10
  <2>2. SUFFICES ASSUME k <= par[m] PROVE FALSE
    BY <1>2, <2>1
  <2>3. par[m] # 0 /\ par[m] # k /\ ~D(par[m]) /\ par[m] < m /\ par[m] \in 1 .. n
    BY <1>1, <1>2, <2>1, <2>2
  <2> QED
    BY <1>7, <2>2, <2>3
<1>11. \A j \in 1 .. n : k < j /\ j < m => k <= par[j]
  BY <1>2, <1>7, <1>9
<1> QED
  BY <1>6, <1>10, <1>11 DEF m, n, par

(***************************************************************************)
(* A loop that moves to the right until it stops has a result for every    *)
(* start.                                                                  *)
(***************************************************************************)
LEMMA LoopExists ==
    ASSUME NEW n \in Nat, NEW next \in [1 .. n -> 1 .. n], \A k \in 1 .. n : k <= next[k]
    PROVE  \E g \in [1 .. n -> 1 .. n] :
              \A k \in 1 .. n : g[k] = IF next[k] = k THEN k ELSE g[next[k]]
<1> DEFINE From(m) == \E g \in [m .. n -> 1 .. n] :
                         \A k \in m .. n : g[k] = IF next[k] = k THEN k ELSE g[next[k]]
           bad == {m \in 1 .. n + 1 : ~From(m)}
<1>1. SUFFICES ASSUME bad # {} PROVE FALSE
  <2>1. 1 \in 1 .. n + 1
    OBVIOUS
  <2>2. From(1)
    <3> HIDE DEF From
    <3> QED
      BY <2>1
  <2> HIDE DEF bad
  <2> QED
    BY <2>2
<1>2. PICK m \in bad : \A l \in bad : l <= m
  <2> HIDE DEF From
  <2>1. bad \in SUBSET (0 .. n + 1) /\ n + 1 \in Nat
    OBVIOUS
  <2> HIDE DEF bad
  <2> QED
    BY <1>1, <2>1, Greatest
<1>3. m \in 1 .. n + 1 /\ ~From(m)
  BY <1>2
<1>4. m # n + 1
  <2>1. From(n + 1)
    <3> DEFINE g == [k \in n + 1 .. n |-> k]
    <3>1. g \in [n + 1 .. n -> 1 .. n] /\ n + 1 .. n = {}
      OBVIOUS
    <3> QED
      BY <3>1
  <2> QED
    BY <1>3, <2>1
<1>5. From(m + 1)
  <2> HIDE DEF From
  <2>1. m + 1 \in 1 .. n + 1 /\ m + 1 \notin bad
    BY <1>2, <1>3, <1>4
  <2> QED
    BY <2>1
<1>6. PICK f \in [m + 1 .. n -> 1 .. n] :
         \A k \in m + 1 .. n : f[k] = IF next[k] = k THEN k ELSE f[next[k]]
  BY <1>5
<1> DEFINE g == [k \in m .. n |-> IF next[k] = k THEN k ELSE f[next[k]]]
<1>7. \A k \in m + 1 .. n : g[k] = f[k]
  <2> SUFFICES ASSUME NEW k \in m + 1 .. n PROVE g[k] = f[k]
    OBVIOUS
  <2>1. k \in m .. n
    BY <1>3
  <2>2. f[k] = IF next[k] = k THEN k ELSE f[next[k]]
    BY <1>6
  <2> QED
    BY <2>1, <2>2
<1>8. \A k \in m .. n : next[k] # k => next[k] \in m + 1 .. n
  BY <1>3
<1>9. g \in [m .. n -> 1 .. n]
  <2>1. \A k \in m .. n : (IF next[k] = k THEN k ELSE f[next[k]]) \in 1 .. n
    BY <1>3, <1>8
  <2> QED
    BY <2>1
<1>10. \A k \in m .. n : g[k] = IF next[k] = k THEN k ELSE g[next[k]]
  BY <1>7, <1>8
<1> QED
  BY <1>3, <1>9, <1>10

(***************************************************************************)
(* applyInsert finds a place where the loop may stop, and the first one at *)
(* once when the node to the right of After has no priority.               *)
(***************************************************************************)
LEMMA InsertPlace ==
    ASSUME NEW x, Listed(x), NEW op, op.id \in LamportID, op.id \notin DOMAIN x.index,
           op.after = Nil \/ op.after \in DOMAIN x.index,
           NEW n, n = Len(x.nodes), NEW q, q = PositionOf(x, op.after)
    PROVE  /\ q \in 0 .. n
           /\ insertIdx(x, op) \in 1 .. n + 1
           /\ Passed(n, Parents(x), IDs(x), q, op.id, insertIdx(x, op))
           /\ Stops(n, Parents(x), IDs(x), q, op.id, insertIdx(x, op))
           /\ Stops(n, Parents(x), IDs(x), q, op.id, q + 1) => insertIdx(x, op) = q + 1
<1> DEFINE par == Parents(x)
           id == IDs(x)
           stop(k) == \/ k > Len(x.nodes)
                      \/ x.nodes[k].after # op.after
                      \/ nodeIDPriority(op.id, x.nodes[k].id)
           F(g) == [k \in 1 .. Len(x.nodes) + 1 |-> IF stop(k) THEN k ELSE g[skipSubtree(x, k)]]
           from == CHOOSE g : g = F(g)
<1>1. /\ n \in Nat /\ q \in 0 .. n
      /\ \A i \in 1 .. n : id[i] # op.id
      /\ par \in [1 .. n -> 0 .. n] /\ id \in [1 .. n -> LamportID]
      /\ Preorder(n, par, id)
  <2>1. n \in Nat /\ q \in 0 .. n
    BY ListFacts DEF PositionOf
  <2>2. \A i \in 1 .. n : id[i] # op.id
    BY ListFacts
  <2>3. par \in [1 .. n -> 0 .. n] /\ id \in [1 .. n -> LamportID]
    BY ListFacts
  <2>4. Preorder(n, par, id)
    BY DEF Listed
  <2> QED
    BY <2>1, <2>2, <2>3, <2>4
<1>2. \A k \in 1 .. n + 1 : stop(k) <=> Stops(n, par, id, q, op.id, k)
  <2> SUFFICES ASSUME NEW k \in 1 .. n
               PROVE  /\ x.nodes[k].after = op.after <=> par[k] = q
                      /\ x.nodes[k].id = id[k]
    BY <1>1 DEF Stops
  <2>1. x.nodes[k].id = id[k]
    BY ListFacts
  <2>2. par[k] = PositionOf(x, x.nodes[k].after)
    BY ListFacts
  <2>3. x.nodes[k].after = Nil \/ x.nodes[k].after \in DOMAIN x.index
    BY ListFacts
  <2>4. \A a, b \in DOMAIN x.index : x.index[a] = x.index[b] => a = b
    <3>1. \A a \in DOMAIN x.index : x.nodes[x.index[a]].id = a
      BY ListFacts
    <3> QED
      BY <3>1
  <2>5. \A a \in DOMAIN x.index : x.index[a] # 0 /\ a # Nil
    BY ListFacts
  <2> QED
    BY <2>1, <2>2, <2>3, <2>4, <2>5 DEF PositionOf
<1>3. \A k \in 1 .. n + 1 : ~stop(k) => skipSubtree(x, k) \in k + 1 .. n + 1
  <2> SUFFICES ASSUME NEW k \in 1 .. n + 1, ~stop(k)
               PROVE  skipSubtree(x, k) \in k + 1 .. n + 1
    OBVIOUS
  <2>1. k \in 1 .. n
    BY <1>1
  <2> QED
    BY <2>1, SkipsSubtree
<1> DEFINE next == [k \in 1 .. n + 1 |-> IF stop(k) THEN k ELSE skipSubtree(x, k)]
<1>4. PICK g \in [1 .. n + 1 -> 1 .. n + 1] :
         \A k \in 1 .. n + 1 : g[k] = IF next[k] = k THEN k ELSE g[next[k]]
  <2> HIDE DEF stop
  <2>1. \A k \in 1 .. n + 1 : next[k] \in 1 .. n + 1 /\ k <= next[k]
    BY <1>1, <1>3
  <2>2. next \in [1 .. n + 1 -> 1 .. n + 1]
    <3>1. \A k \in 1 .. n + 1 : (IF stop(k) THEN k ELSE skipSubtree(x, k)) \in 1 .. n + 1
      BY <1>1, <1>3
    <3> QED
      BY <3>1
  <2>3. n + 1 \in Nat
    BY <1>1
  <2> HIDE DEF next
  <2> QED
    BY <2>1, <2>2, <2>3, LoopExists
<1>5. \E f : f = F(f)
  <2>1. \A k \in 1 .. n + 1 : g[k] = IF stop(k) THEN k ELSE g[skipSubtree(x, k)]
    <3> HIDE DEF stop
    <3>1. \A k \in 1 .. n + 1 : next[k] = k <=> stop(k)
      BY <1>1, <1>3
    <3> QED
      BY <1>4, <3>1
  <2> HIDE DEF stop
  <2>2. g = F(g)
    BY <2>1
  <2> HIDE DEF F
  <2> QED
    BY <2>2
<1>6. from = F(from)
  <2> HIDE DEF F
  <2> QED
    BY <1>5
<1>7. \A k \in 1 .. n + 1 : from[k] = IF stop(k) THEN k ELSE from[skipSubtree(x, k)]
  <2> HIDE DEF stop, from
  <2> QED
    BY <1>6
<1>8. insertIdx(x, op) = from[q + 1]
  <2>1. q + 1 = IF op.after = Nil THEN 1 ELSE x.index[op.after] + 1
    BY DEF PositionOf
  <2>2. insertIdx(x, op) = from[IF op.after = Nil THEN 1 ELSE x.index[op.after] + 1]
    BY DEF insertIdx
  <2> HIDE DEF from
  <2> QED
    BY <2>1, <2>2
<1> HIDE DEF from, F, next
<1>9. \A k \in 1 .. n + 1 :
         Passed(n, par, id, q, op.id, k) =>
             /\ from[k] \in 1 .. n + 1
             /\ Passed(n, par, id, q, op.id, from[k]) /\ Stops(n, par, id, q, op.id, from[k])
  <2> DEFINE Good(k) ==
                 Passed(n, par, id, q, op.id, k) =>
                     /\ from[k] \in 1 .. n + 1
                     /\ Passed(n, par, id, q, op.id, from[k])
                     /\ Stops(n, par, id, q, op.id, from[k])
             bad == {k \in 1 .. n + 1 : ~Good(k)}
  <2> SUFFICES ASSUME bad # {} PROVE FALSE
    OBVIOUS
  <2>1. PICK k \in bad : \A l \in bad : l <= k
    <3>1. bad \in SUBSET (0 .. n + 1) /\ n + 1 \in Nat
      BY <1>1
    <3> HIDE DEF bad
    <3> QED
      BY <3>1, Greatest
  <2>2. k \in 1 .. n + 1 /\ ~Good(k) /\ Passed(n, par, id, q, op.id, k)
    BY <2>1
  <2> DEFINE m == skipSubtree(x, k)
  <2>3. ~stop(k) /\ ~Stops(n, par, id, q, op.id, k) /\ k \in 1 .. n
    <3>1. Stops(n, par, id, q, op.id, k) => from[k] = k
      <4> HIDE DEF stop
      <4> QED
        BY <1>2, <1>7, <2>2
    <3>2. ~Stops(n, par, id, q, op.id, k)
      <4> HIDE DEF stop
      <4> QED
        BY <2>2, <3>1
    <3> QED
      BY <1>1, <1>2, <2>2, <3>2 DEF Stops
  <2>4. from[k] = from[m] /\ m \in k + 1 .. n + 1
    <3>1. from[k] = from[m]
      <4> HIDE DEF stop
      <4> QED
        BY <1>7, <2>2, <2>3
    <3> QED
      BY <2>3, <3>1, SkipsSubtree
  <2>5. /\ \A j \in 1 .. n : k < j /\ j < m => k <= par[j]
        /\ m <= n => par[m] < k
    BY <2>3, SkipsSubtree
  <2> HIDE DEF m, par, id, stop
  <2>6. Passed(n, par, id, q, op.id, m)
    BY <1>1, <2>2, <2>3, <2>4, <2>5, LoopStep
  <2>7. m \in 1 .. n + 1 /\ m \notin bad
    <3>1. m \in 1 .. n + 1 /\ m > k
      BY <1>1, <2>2, <2>4
    <3> HIDE DEF bad
    <3>2. k \in Int
      BY <2>2
    <3> QED
      BY <2>1, <3>1, <3>2
  <2>8. Good(m)
    <3> HIDE DEF Good
    <3> QED
      BY <2>7
  <2> QED
    BY <2>2, <2>4, <2>6, <2>8
<1>10. Passed(n, par, id, q, op.id, q + 1) /\ q + 1 \in 1 .. n + 1
  <2>1. \A i \in 1 .. n : par[i] \in Int
    BY <1>1
  <2>2. q \in Int /\ q >= 0 /\ q <= n
    BY <1>1
  <2> HIDE DEF par, id
  <2> QED
    BY <1>1, <2>1, <2>2 DEF Passed
<1>11. Stops(n, par, id, q, op.id, q + 1) => from[q + 1] = q + 1
  <2> HIDE DEF stop
  <2> QED
    BY <1>2, <1>7, <1>10
<1> HIDE DEF stop
<1> QED
  BY <1>1, <1>8, <1>9, <1>10, <1>11 DEF par, id

-----------------------------------------------------------------------------
(***************************************************************************)
(* Putting a node into the list.                                           *)
(***************************************************************************)

\* What is left of the place stays, the rest moves one to the right.
LEMMA Inserted ==
    ASSUME NEW T, NEW s \in Seq(T), NEW e \in T, NEW at \in 1 .. Len(s) + 1
    PROVE  /\ InsertAt(s, at, e) \in Seq(T)
           /\ Len(InsertAt(s, at, e)) = Len(s) + 1
           /\ InsertAt(s, at, e)[at] = e
           /\ \A i \in 1 .. Len(s) : InsertAt(s, at, e)[Moved(at, i)] = s[i]
<1>1. PICK a \in Seq(T) : /\ a = SubSeq(s, 1, at - 1)
                          /\ Len(a) = at - 1 /\ \A i \in 1 .. at - 1 : a[i] = s[i]
  <2> DEFINE a == SubSeq(s, 1, at - 1)
  <2>1. a \in Seq(T) /\ Len(a) = at - 1 /\ \A i \in 1 .. at - 1 : a[i] = s[i]
    OBVIOUS
  <2> QED
    BY <2>1
<1>2. PICK b \in Seq(T) : /\ b = SubSeq(s, at, Len(s))
                          /\ Len(b) = Len(s) + 1 - at
                          /\ \A i \in 1 .. Len(s) + 1 - at : b[i] = s[at + i - 1]
  <2> DEFINE b == SubSeq(s, at, Len(s))
  <2>1. b \in Seq(T)
    OBVIOUS
  <2>2. Len(b) = Len(s) + 1 - at
    OBVIOUS
  <2>3. \A i \in 1 .. Len(s) + 1 - at : b[i] = s[at + i - 1]
    OBVIOUS
  <2> QED
    BY <2>1, <2>2, <2>3
<1>3. PICK c \in Seq(T) : c = Append(a, e)
  BY AppendProperties, Zenon
<1>4. Len(c) = at /\ c[at] = e /\ \A i \in 1 .. at - 1 : c[i] = s[i]
  <2>1. /\ Len(c) = Len(a) + 1 /\ \A i \in 1 .. Len(a) : c[i] = a[i]
        /\ c[Len(a) + 1] = e
    BY <1>3, AppendProperties
  <2> QED
    BY <1>1, <2>1
<1> DEFINE d == c \o b
<1>5. /\ d \in Seq(T) /\ Len(d) = Len(c) + Len(b)
      /\ \A i \in 1 .. Len(c) + Len(b) : d[i] = IF i <= Len(c) THEN c[i] ELSE b[i - Len(c)]
  BY ConcatProperties, Zenon
<1>6. InsertAt(s, at, e) = d
  <2>1. c = a \o <<e>>
    BY <1>3, AppendIsConcat, Zenon
  <2> QED
    BY <1>1, <1>2, <2>1, Zenon DEF InsertAt
<1> HIDE DEF d
<1>7. Len(d) = Len(s) + 1 /\ d[at] = e
  BY <1>2, <1>4, <1>5
<1>8. ASSUME NEW i \in 1 .. Len(s) PROVE d[Moved(at, i)] = s[i]
  <2>1. CASE i < at
    <3>1. d[i] = c[i] /\ c[i] = s[i]
      BY <1>2, <1>4, <1>5, <2>1
    <3> QED
      BY <2>1, <3>1 DEF Moved
  <2>2. CASE at <= i
    <3>1. d[i + 1] = b[i + 1 - at]
      <4>1. i + 1 \in 1 .. Len(c) + Len(b) /\ ~(i + 1 <= Len(c))
        BY <1>2, <1>4, <2>2
      <4> QED
        BY <1>4, <1>5, <4>1
    <3>2. i + 1 - at \in 1 .. Len(s) + 1 - at /\ at + (i + 1 - at) - 1 = i
      BY <2>2
    <3>3. b[i + 1 - at] = s[i]
      BY <1>2, <3>2
    <3> QED
      BY <2>2, <3>1, <3>3 DEF Moved
  <2> QED
    BY <2>1, <2>2
<1> QED
  BY <1>6, <1>7, <1>8, <1>5

\* ids are the ids of the nodes, and the index is right before first.
IndexedUpTo(nodes, index, first, ids) ==
    /\ nodes \in Seq(ListNode) /\ first \in 1 .. Len(nodes) + 1
    /\ \A i \in 1 .. Len(nodes) : nodes[i].id \in ids
    /\ \A id \in ids : \E i \in 1 .. Len(nodes) : nodes[i].id = id
    /\ \A i, j \in 1 .. Len(nodes) : nodes[i].id = nodes[j].id => i = j
    /\ \A i \in 1 .. first - 1 : nodes[i].id \in DOMAIN index /\ index[nodes[i].id] = i
    /\ \A id \in DOMAIN index : id \in ids

(***************************************************************************)
(* Writing the positions from first on makes the index right when it was   *)
(* right before first.                                                     *)
(***************************************************************************)
LEMMA Reindexed ==
    ASSUME NEW nodes, NEW index, NEW first, NEW ids, IndexedUpTo(nodes, index, first, ids)
    PROVE  /\ reindex(index, nodes, first) \in [ids -> 1 .. Len(nodes)]
           /\ \A i \in 1 .. Len(nodes) : reindex(index, nodes, first)[nodes[i].id] = i
<1> DEFINE n == Len(nodes)
           later == {nodes[i].id : i \in first .. n}
           moved(id) == {i \in first .. n : nodes[i].id = id}
           value(id) == IF moved(id) = {} THEN index[id] ELSE Max(moved(id))
<1> USE DEF IndexedUpTo
<1>1. reindex(index, nodes, first) = [id \in DOMAIN index \cup later |-> value(id)]
  BY DEF reindex
<1>2. DOMAIN index \cup later = ids
  <2>1. later \subseteq ids
    OBVIOUS
  <2>2. ASSUME NEW i \in 1 .. n PROVE nodes[i].id \in DOMAIN index \cup later
    <3>1. i \in 1 .. first - 1 \/ i \in first .. n
      OBVIOUS
    <3> QED
      BY <3>1
  <2> QED
    BY <2>1, <2>2
<1>3. ASSUME NEW i \in 1 .. n PROVE value(nodes[i].id) = i
  <2>1. CASE i \in first .. n
    <3>1. moved(nodes[i].id) = {i}
      BY <2>1
    <3>2. Max({i}) = i
      <4>1. \E k \in {i} : \A l \in {i} : k >= l
        OBVIOUS
      <4> QED
        BY <4>1 DEF Max
    <3> HIDE DEF moved
    <3> QED
      BY <3>1, <3>2
  <2>2. CASE i \in 1 .. first - 1
    <3>1. moved(nodes[i].id) = {}
      BY <2>2
    <3> HIDE DEF moved
    <3> QED
      BY <2>2, <3>1
  <2> QED
    BY <2>1, <2>2
<1> HIDE DEF value, later
<1>4. \A id \in ids : value(id) \in 1 .. n
  BY <1>3
<1> QED
  BY <1>1, <1>2, <1>3, <1>4

IsOperation(op) ==
    /\ op.type \in {"insert", "delete"} /\ op.id \in LamportID
    /\ op.after \in LamportID \cup {Nil} /\ op.auth \in BOOLEAN

NodeOf(op) == [id |-> op.id, after |-> op.after, deleted |-> FALSE, auth |-> op.auth]

\* What applyInsert writes into the list and the index.
Puts(x, op, at, y) ==
    /\ at = insertIdx(x, op)
    /\ y.nodes = InsertAt(x.nodes, at, NodeOf(op))
    /\ y.index = reindex(x.index, y.nodes, at)

(***************************************************************************)
(* The list and the index that applyInsert writes are right again, with    *)
(* one node more.                                                          *)
(***************************************************************************)
LEMMA InsertListed ==
    ASSUME NEW x, Listed(x), NEW op, IsOperation(op), op.id \notin DOMAIN x.index,
           op.after = Nil \/ op.after \in DOMAIN x.index,
           NEW at, NEW y, Puts(x, op, at, y)
    PROVE  /\ Listed(y)
           /\ at \in 1 .. Len(x.nodes) + 1 /\ Len(y.nodes) = Len(x.nodes) + 1
           /\ y.nodes[at] = NodeOf(op)
           /\ \A i \in 1 .. Len(x.nodes) : y.nodes[Moved(at, i)] = x.nodes[i]
           /\ DOMAIN y.index = DOMAIN x.index \cup {op.id}
           /\ y.index[op.id] = at
           /\ \A id \in DOMAIN x.index : y.index[id] = Moved(at, x.index[id])
<1> DEFINE n == Len(x.nodes)
           q == PositionOf(x, op.after)
<1>1. /\ q \in 0 .. n /\ at \in 1 .. n + 1
      /\ Passed(n, Parents(x), IDs(x), q, op.id, at)
      /\ Stops(n, Parents(x), IDs(x), q, op.id, at)
  BY InsertPlace DEF IsOperation, Puts
<1>2. n \in Nat /\ x.nodes \in Seq(ListNode) /\ NodeOf(op) \in ListNode
  BY ListFacts DEF Listed, IsOperation, NodeOf, ListNode
<1>3. /\ y.nodes \in Seq(ListNode) /\ Len(y.nodes) = n + 1 /\ y.nodes[at] = NodeOf(op)
      /\ \A i \in 1 .. n : y.nodes[Moved(at, i)] = x.nodes[i]
  <2>1. at \in 1 .. Len(x.nodes) + 1 /\ x.nodes \in Seq(ListNode) /\ NodeOf(op) \in ListNode
    BY <1>1, <1>2
  <2>2. /\ InsertAt(x.nodes, at, NodeOf(op)) \in Seq(ListNode)
        /\ Len(InsertAt(x.nodes, at, NodeOf(op))) = Len(x.nodes) + 1
        /\ InsertAt(x.nodes, at, NodeOf(op))[at] = NodeOf(op)
        /\ \A i \in 1 .. Len(x.nodes) :
              InsertAt(x.nodes, at, NodeOf(op))[Moved(at, i)] = x.nodes[i]
    BY <2>1, Inserted, SMT
  <2> QED
    BY <2>2 DEF Puts
<1>4. \A k \in 1 .. n + 1 : k = at \/ \E i \in 1 .. n : k = Moved(at, i)
  <2> SUFFICES ASSUME NEW k \in 1 .. n + 1, k # at
               PROVE  \E i \in 1 .. n : k = Moved(at, i)
    OBVIOUS
  <2>1. CASE k < at
    <3>1. k \in 1 .. n /\ k = Moved(at, k)
      BY <1>1, <1>2, <2>1 DEF Moved
    <3> QED
      BY <3>1
  <2>2. CASE k > at
    <3>1. k - 1 \in 1 .. n /\ k = Moved(at, k - 1)
      BY <1>1, <1>2, <2>2 DEF Moved
    <3> QED
      BY <3>1
  <2> QED
    BY <1>1, <1>2, <2>1, <2>2
<1>5. /\ \A i \in 1 .. n : Moved(at, i) \in 1 .. n + 1 /\ Moved(at, i) # at
      /\ \A i, j \in 1 .. n : Moved(at, i) = Moved(at, j) => i = j
      /\ \A i \in 1 .. n : i < at => Moved(at, i) = i
  BY <1>1, <1>2 DEF Moved
<1>6. y.nodes[at].id = op.id /\ y.nodes[at].after = op.after
  BY <1>3 DEF NodeOf
<1>7. \A k \in 1 .. n + 1 : y.nodes[k].id = op.id => k = at
  <2>1. \A i \in 1 .. n : x.nodes[i].id # op.id
    BY ListFacts
  <2> HIDE DEF n, q
  <2> QED
    BY <1>3, <1>4, <2>1
<1>8. \A k, l \in 1 .. n + 1 : y.nodes[k].id = y.nodes[l].id => k = l
  <2> SUFFICES ASSUME NEW k \in 1 .. n + 1, NEW l \in 1 .. n + 1,
                      y.nodes[k].id = y.nodes[l].id
               PROVE  k = l
    OBVIOUS
  <2>1. CASE k = at \/ l = at
    BY <1>6, <1>7, <2>1
  <2>2. ASSUME NEW i \in 1 .. n, NEW j \in 1 .. n, k = Moved(at, i), l = Moved(at, j)
        PROVE  k = l
    <3>1. x.nodes[i].id = x.nodes[j].id
      BY <1>3, <2>2
    <3>2. i = j
      BY <3>1, ListFacts
    <3> QED
      BY <2>2, <3>2
  <2> QED
    BY <1>4, <2>1, <2>2
<1>9. DOMAIN x.index = {x.nodes[i].id : i \in 1 .. n}
  BY ListFacts DEF Listed, ListIDs
<1>10. DOMAIN x.index \cup {op.id} = {y.nodes[k].id : k \in 1 .. n + 1}
  <2>1. ASSUME NEW i \in 1 .. n PROVE \E k \in 1 .. n + 1 : x.nodes[i].id = y.nodes[k].id
    BY <1>3, <1>5
  <2>2. ASSUME NEW k \in 1 .. n + 1, k # at
        PROVE  \E i \in 1 .. n : y.nodes[k].id = x.nodes[i].id
    BY <1>3, <1>4, <2>2
  <2> HIDE DEF n, q
  <2> QED
    BY <1>1, <1>6, <1>9, <2>1, <2>2
<1>11. \A i \in 1 .. at - 1 : /\ y.nodes[i].id \in DOMAIN x.index
                              /\ x.index[y.nodes[i].id] = i
  <2> SUFFICES ASSUME NEW i \in 1 .. at - 1
               PROVE  y.nodes[i].id \in DOMAIN x.index /\ x.index[y.nodes[i].id] = i
    OBVIOUS
  <2>1. i \in 1 .. n /\ Moved(at, i) = i
    BY <1>1, <1>2 DEF Moved
  <2>2. y.nodes[i] = x.nodes[i]
    BY <1>3, <2>1
  <2> QED
    BY <2>1, <2>2, ListFacts
<1>12. /\ y.index \in [{y.nodes[k].id : k \in 1 .. n + 1} -> 1 .. n + 1]
       /\ \A k \in 1 .. n + 1 : y.index[y.nodes[k].id] = k
  <2>1. DOMAIN x.index \subseteq {y.nodes[k].id : k \in 1 .. n + 1}
    BY <1>10
  <2>2. n + 1 = Len(y.nodes) /\ y.nodes \in Seq(ListNode)
    BY <1>3
  <2>3. at \in 1 .. Len(y.nodes) + 1
    BY <1>1, <1>2, <2>2
  <2> HIDE DEF n, q
  <2>4. \A i, j \in 1 .. Len(y.nodes) : y.nodes[i].id = y.nodes[j].id => i = j
    BY <1>8, <2>2
  <2> DEFINE ids == {y.nodes[k].id : k \in 1 .. n + 1}
  <2>6. /\ \A i \in 1 .. Len(y.nodes) : y.nodes[i].id \in ids
        /\ \A id \in ids : \E i \in 1 .. Len(y.nodes) : y.nodes[i].id = id
        /\ \A id \in DOMAIN x.index : id \in ids
    BY <2>1, <2>2
  <2> HIDE DEF ids
  <2>5. /\ reindex(x.index, y.nodes, at) \in [ids -> 1 .. Len(y.nodes)]
        /\ \A i \in 1 .. Len(y.nodes) : reindex(x.index, y.nodes, at)[y.nodes[i].id] = i
    <3>1. IndexedUpTo(y.nodes, x.index, at, ids)
      BY <1>11, <2>2, <2>3, <2>4, <2>6 DEF IndexedUpTo
    <3> QED
      BY <3>1, Reindexed
  <2> QED
    BY <2>2, <2>5 DEF Puts, ids
<1>13. DOMAIN y.nodes = 1 .. n + 1
  BY <1>2, <1>3
<1>14. DOMAIN y.index = DOMAIN x.index \cup {op.id} /\ y.index[op.id] = at
  BY <1>1, <1>6, <1>10, <1>12
<1>15. ASSUME NEW id \in DOMAIN x.index PROVE y.index[id] = Moved(at, x.index[id])
  <2>1. x.index[id] \in 1 .. n /\ x.nodes[x.index[id]].id = id
    BY ListFacts
  <2>2. y.nodes[Moved(at, x.index[id])].id = id
    BY <1>3, <2>1
  <2> HIDE DEF n, q
  <2> QED
    BY <1>5, <1>12, <2>1, <2>2
<1>16. \A k \in DOMAIN y.nodes : y.nodes[k].after \in ListIDs(y) \cup {Nil}
  <2>1. ListIDs(y) = DOMAIN x.index \cup {op.id}
    BY <1>10, <1>13 DEF ListIDs
  <2>2. \A i \in 1 .. n : x.nodes[i].after = Nil \/ x.nodes[i].after \in DOMAIN x.index
    BY ListFacts
  <2> HIDE DEF n, q
  <2> QED
    BY <1>3, <1>4, <1>6, <1>13, <2>1, <2>2
<1>17. Preorder(n + 1, Parents(y), IDs(y))
  <2>1. \A k \in 1 .. n + 1 : /\ Parents(y)[k] = PositionOf(y, y.nodes[k].after)
                              /\ IDs(y)[k] = y.nodes[k].id
    BY <1>13 DEF Parents, IDs
  <2>2. Parents(y)[at] = q /\ IDs(y)[at] = op.id
    <3>1. PositionOf(y, op.after) = q
      <4>1. CASE op.after = Nil
        BY <4>1 DEF PositionOf
      <4>2. CASE op.after # Nil
        <5>1. op.after \in DOMAIN x.index /\ q = x.index[op.after] /\ q \in 1 .. n /\ q < at
          BY <1>1, <4>2, ListFacts DEF PositionOf, Passed
        <5>2. Moved(at, q) = q
          BY <5>1 DEF Moved
        <5> QED
          BY <1>15, <4>2, <5>1, <5>2 DEF PositionOf
      <4> QED
        BY <4>1, <4>2
    <3> QED
      BY <1>1, <1>6, <2>1, <3>1
  <2>3. ASSUME NEW i \in 1 .. n
        PROVE  /\ Parents(y)[Moved(at, i)] = Moved(at, Parents(x)[i])
               /\ IDs(y)[Moved(at, i)] = IDs(x)[i]
    <3>1. y.nodes[Moved(at, i)] = x.nodes[i] /\ Moved(at, i) \in 1 .. n + 1
      BY <1>3, <1>5
    <3>2. IDs(y)[Moved(at, i)] = IDs(x)[i]
      <4>1. IDs(x)[i] = x.nodes[i].id
        BY ListFacts
      <4> QED
        BY <2>1, <3>1, <4>1
    <3>3. PositionOf(y, x.nodes[i].after) = Moved(at, Parents(x)[i])
      <4>1. Parents(x)[i] = PositionOf(x, x.nodes[i].after)
        BY ListFacts
      <4>2. CASE x.nodes[i].after = Nil
        BY <1>1, <4>1, <4>2 DEF PositionOf, Moved
      <4>3. CASE x.nodes[i].after # Nil
        <5>1. x.nodes[i].after \in DOMAIN x.index
          BY <4>3, ListFacts
        <5> QED
          BY <1>15, <4>1, <4>3, <5>1 DEF PositionOf
      <4> QED
        BY <4>2, <4>3
    <3> QED
      BY <2>1, <3>1, <3>2, <3>3
  <2>4. /\ Parents(x) \in [1 .. n -> 0 .. n] /\ IDs(x) \in [1 .. n -> LamportID]
        /\ Preorder(n, Parents(x), IDs(x)) /\ op.id \in LamportID
    BY ListFacts DEF Listed, IsOperation
  <2> HIDE DEF n, q
  <2> QED
    BY <1>1, <1>2, <2>2, <2>3, <2>4, InsertPreorder, Zenon
<1>18. Listed(y)
  <2>1. y.index \in [ListIDs(y) -> DOMAIN y.nodes]
    BY <1>12, <1>13 DEF ListIDs
  <2> HIDE DEF n, q
  <2> QED
    BY <1>3, <1>12, <1>13, <1>16, <1>17, <2>1 DEF Listed
<1> QED
  BY <1>1, <1>3, <1>14, <1>15, <1>18

-----------------------------------------------------------------------------
(***************************************************************************)
(* One operation.                                                          *)
(***************************************************************************)
IsReplica(x) ==
    x = [counter |-> x.counter, nodes |-> x.nodes, index |-> x.index,
         seen |-> x.seen, pending |-> x.pending]

\* No two inserts create the same node.
OperationSet(S) ==
    /\ \A op \in S : IsOperation(op)
    /\ \A a, b \in S : a.type = "insert" /\ b.type = "insert" /\ a.id = b.id => a = b

(***************************************************************************)
(* The operations of A, and no others, have been applied to the list of x. *)
(***************************************************************************)
Holds(x, A) ==
    /\ IsReplica(x) /\ Listed(x)
    /\ \A i \in DOMAIN x.nodes :
          \E op \in A : /\ op.type = "insert" /\ op.id = x.nodes[i].id
                        /\ op.after = x.nodes[i].after /\ op.auth = x.nodes[i].auth
    /\ \A op \in A : op.id \in DOMAIN x.index
    /\ \A i \in DOMAIN x.nodes :
          x.nodes[i].deleted <=> \E op \in A : op.type = "delete" /\ op.id = x.nodes[i].id

\* applyInsert writes the list and the index, and nothing else.
LEMMA ApplyInsertPuts ==
    ASSUME NEW x, IsReplica(x), NEW op
    PROVE  /\ IsReplica(applyInsert(x, op))
           /\ Puts(x, op, insertIdx(x, op), applyInsert(x, op))
           /\ applyInsert(x, op).counter = x.counter /\ applyInsert(x, op).seen = x.seen
           /\ applyInsert(x, op).pending = x.pending
<1> DEFINE at == insertIdx(x, op)
           nodes == InsertAt(x.nodes, at, NodeOf(op))
           index == reindex(x.index, nodes, at)
           y == [counter |-> x.counter, nodes |-> nodes, index |-> index,
                 seen |-> x.seen, pending |-> x.pending]
<1> DEFINE put(v) == [x EXCEPT !.nodes = v, !.index = reindex(x.index, v, at)]
<1>1. applyInsert(x, op) = [x EXCEPT !.nodes = nodes, !.index = index]
  <2>1. applyInsert(x, op) = CHOOSE z \in {put(v) : v \in {nodes}} : TRUE
    BY DEF applyInsert, Through, NodeOf
  <2>2. applyInsert(x, op) \in {put(v) : v \in {nodes}}
    <3> HIDE DEF put, nodes
    <3> QED
      BY <2>1
  <2>3. applyInsert(x, op) = put(nodes)
    <3> HIDE DEF put, nodes
    <3> QED
      BY <2>2
  <2> HIDE DEF nodes
  <2> QED
    BY <2>3
<1>2. applyInsert(x, op) = y
  <2> HIDE DEF nodes, index
  <2> QED
    BY <1>1 DEF IsReplica
<1> HIDE DEF nodes, index
<1>3. IsReplica(y)
  BY DEF IsReplica
<1>4. Puts(x, op, at, y)
  BY DEF Puts, nodes, index
<1> QED
  BY <1>2, <1>3, <1>4

(***************************************************************************)
(* Applying an operation whose node is there applies it and nothing else.  *)
(***************************************************************************)
LEMMA HoldsInsert ==
    ASSUME NEW x, NEW A, Holds(x, A), NEW op, op \notin A, op.type = "insert",
           OperationSet(A \cup {op}), ready(x, op)
    PROVE  /\ op.id \notin DOMAIN x.index
           /\ Holds(applyInsert(x, op), A \cup {op})
           /\ applyInsert(x, op).counter = x.counter /\ applyInsert(x, op).seen = x.seen
           /\ applyInsert(x, op).pending = x.pending
           /\ DOMAIN applyInsert(x, op).index = DOMAIN x.index \cup {op.id}
<1> DEFINE y == applyInsert(x, op)
           at == insertIdx(x, op)
           n == Len(x.nodes)
<1>1. IsReplica(x) /\ Listed(x) /\ IsOperation(op)
  BY DEF Holds, OperationSet
<1>2. op.after = Nil \/ op.after \in DOMAIN x.index
  BY DEF ready
<1>3. op.id \notin DOMAIN x.index
  <2> SUFFICES ASSUME op.id \in DOMAIN x.index PROVE FALSE
    OBVIOUS
  <2>1. PICK i \in DOMAIN x.nodes : x.nodes[i].id = op.id
    <3>1. x.index[op.id] \in DOMAIN x.nodes /\ x.nodes[x.index[op.id]].id = op.id
      BY <1>1, ListFacts
    <3> QED
      BY <3>1
  <2>2. PICK o \in A : o.type = "insert" /\ o.id = x.nodes[i].id
    BY DEF Holds
  <2> QED
    BY <2>1, <2>2 DEF OperationSet
<1>4. /\ IsReplica(y) /\ Puts(x, op, at, y)
      /\ y.counter = x.counter /\ y.seen = x.seen /\ y.pending = x.pending
  BY <1>1, ApplyInsertPuts
<1> HIDE DEF y, at
<1>5. /\ Listed(y)
      /\ at \in 1 .. n + 1 /\ Len(y.nodes) = n + 1
      /\ y.nodes[at] = NodeOf(op)
      /\ \A i \in 1 .. n : y.nodes[Moved(at, i)] = x.nodes[i]
      /\ DOMAIN y.index = DOMAIN x.index \cup {op.id}
  BY <1>1, <1>2, <1>3, <1>4, InsertListed
<1>6. n \in Nat /\ DOMAIN x.nodes = 1 .. n /\ DOMAIN y.nodes = 1 .. n + 1
  BY <1>1, <1>5, ListFacts
<1>7. \A k \in 1 .. n + 1 : k = at \/ \E i \in 1 .. n : k = Moved(at, i)
  <2> SUFFICES ASSUME NEW k \in 1 .. n + 1, k # at
               PROVE  \E i \in 1 .. n : k = Moved(at, i)
    OBVIOUS
  <2>1. CASE k < at
    <3>1. k \in 1 .. n /\ k = Moved(at, k)
      BY <1>5, <1>6, <2>1 DEF Moved
    <3> QED
      BY <3>1
  <2>2. CASE k > at
    <3>1. k - 1 \in 1 .. n /\ k = Moved(at, k - 1)
      BY <1>5, <1>6, <2>2 DEF Moved
    <3> QED
      BY <3>1
  <2> QED
    BY <1>5, <2>1, <2>2
<1>8. /\ y.nodes[at].id = op.id /\ y.nodes[at].after = op.after
      /\ y.nodes[at].auth = op.auth /\ y.nodes[at].deleted = FALSE
  BY <1>5 DEF NodeOf
<1> DEFINE B == A \cup {op}
<1>9. ASSUME NEW k \in DOMAIN y.nodes
      PROVE  /\ \E o \in B : /\ o.type = "insert" /\ o.id = y.nodes[k].id
                             /\ o.after = y.nodes[k].after /\ o.auth = y.nodes[k].auth
             /\ y.nodes[k].deleted <=> \E o \in B : o.type = "delete" /\ o.id = y.nodes[k].id
  <2>1. CASE k = at
    <3>1. \A o \in B : o.type = "delete" => o.id # op.id
      BY <1>3 DEF Holds
    <3> QED
      BY <1>8, <2>1, <3>1
  <2>2. CASE k # at
    <3>1. PICK i \in 1 .. n : k = Moved(at, i)
      BY <1>6, <1>7, <2>2
    <3>2. y.nodes[k] = x.nodes[i] /\ i \in DOMAIN x.nodes
      BY <1>5, <1>6, <3>1
    <3>3. \E o \in A : /\ o.type = "insert" /\ o.id = x.nodes[i].id
                       /\ o.after = x.nodes[i].after /\ o.auth = x.nodes[i].auth
      BY <3>2 DEF Holds
    <3>4. x.nodes[i].deleted <=> \E o \in A : o.type = "delete" /\ o.id = x.nodes[i].id
      BY <3>2 DEF Holds
    <3> QED
      BY <3>2, <3>3, <3>4
  <2> QED
    BY <2>1, <2>2
<1>10. \A o \in B : o.id \in DOMAIN y.index
  BY <1>5 DEF Holds
<1>11. Holds(y, B)
  <2> HIDE DEF B
  <2> QED
    BY <1>4, <1>5, <1>9, <1>10 DEF Holds
<1> QED
  BY <1>3, <1>4, <1>5, <1>11 DEF y

\* applyDelete marks the node of an operation that is ready, and nothing else.
LEMMA HoldsDelete ==
    ASSUME NEW x, NEW A, Holds(x, A), NEW op, op.type = "delete",
           IsOperation(op), ready(x, op)
    PROVE  /\ Holds(applyDelete(x, op), A \cup {op})
           /\ applyDelete(x, op).counter = x.counter /\ applyDelete(x, op).seen = x.seen
           /\ applyDelete(x, op).pending = x.pending
           /\ applyDelete(x, op).index = x.index
<1> DEFINE y == applyDelete(x, op)
           k == x.index[op.id]
           nodes == [x.nodes EXCEPT ![k].deleted = TRUE]
<1>1. IsReplica(x) /\ Listed(x) /\ op.id \in DOMAIN x.index
  BY DEF Holds, ready
<1>2. y = [counter |-> x.counter, nodes |-> nodes, index |-> x.index,
           seen |-> x.seen, pending |-> x.pending]
  <2>1. y = [x EXCEPT !.nodes[x.index[op.id]].deleted = TRUE]
    BY <1>1 DEF applyDelete
  <2> HIDE DEF y
  <2> QED
    BY <1>1, <2>1 DEF IsReplica
<1> HIDE DEF y
<1>3. /\ IsReplica(y) /\ y.nodes = nodes /\ y.index = x.index
      /\ y.counter = x.counter /\ y.seen = x.seen /\ y.pending = x.pending
  BY <1>2 DEF IsReplica
<1>4. k \in DOMAIN x.nodes /\ x.nodes[k].id = op.id
  BY <1>1, ListFacts
<1>5. x.nodes \in Seq(ListNode) /\ \A i \in DOMAIN x.nodes : x.nodes[i] \in ListNode
  BY <1>1 DEF Listed
<1>6. /\ y.nodes \in Seq(ListNode) /\ Len(y.nodes) = Len(x.nodes)
      /\ DOMAIN y.nodes = DOMAIN x.nodes
      /\ \A i \in DOMAIN x.nodes :
            /\ y.nodes[i].id = x.nodes[i].id /\ y.nodes[i].after = x.nodes[i].after
            /\ y.nodes[i].auth = x.nodes[i].auth
            /\ y.nodes[i].deleted <=> x.nodes[i].deleted \/ i = k
  <2>1. [x.nodes[k] EXCEPT !.deleted = TRUE] \in ListNode
    BY <1>4, <1>5 DEF ListNode
  <2>2. nodes = [x.nodes EXCEPT ![k] = [x.nodes[k] EXCEPT !.deleted = TRUE]]
    OBVIOUS
  <2>3. nodes \in Seq(ListNode) /\ Len(nodes) = Len(x.nodes) /\ DOMAIN nodes = DOMAIN x.nodes
    BY <1>4, <1>5, <2>1, <2>2
  <2>4. ASSUME NEW i \in DOMAIN x.nodes
        PROVE  /\ nodes[i].id = x.nodes[i].id /\ nodes[i].after = x.nodes[i].after
               /\ nodes[i].auth = x.nodes[i].auth
               /\ nodes[i].deleted <=> x.nodes[i].deleted \/ i = k
    <3>1. x.nodes[i] \in ListNode
      BY <1>5
    <3>2. nodes[i] = IF i = k THEN [x.nodes[k] EXCEPT !.deleted = TRUE] ELSE x.nodes[i]
      BY <1>4, <1>5, <2>2
    <3> HIDE DEF nodes, k
    <3>3. CASE i = k
      BY <3>1, <3>2, <3>3 DEF ListNode
    <3>4. CASE i # k
      BY <3>2, <3>4
    <3> QED
      BY <3>3, <3>4
  <2> QED
    BY <1>3, <2>3, <2>4
<1> HIDE DEF nodes
<1>7. Listed(y)
  <2>1. ListIDs(y) = ListIDs(x)
    BY <1>6 DEF ListIDs
  <2>2. Parents(y) = Parents(x) /\ IDs(y) = IDs(x)
    <3>1. \A i \in DOMAIN x.nodes :
             PositionOf(y, y.nodes[i].after) = PositionOf(x, x.nodes[i].after)
      BY <1>3, <1>6 DEF PositionOf
    <3> QED
      BY <1>6, <3>1 DEF Parents, IDs
  <2> QED
    BY <1>1, <1>3, <1>6, <2>1, <2>2 DEF Listed
<1> DEFINE B == A \cup {op}
<1>8. ASSUME NEW i \in DOMAIN y.nodes
      PROVE  /\ \E o \in B : /\ o.type = "insert" /\ o.id = y.nodes[i].id
                             /\ o.after = y.nodes[i].after /\ o.auth = y.nodes[i].auth
             /\ y.nodes[i].deleted <=> \E o \in B : o.type = "delete" /\ o.id = y.nodes[i].id
  <2>1. i \in DOMAIN x.nodes
    BY <1>6
  <2>2. \E o \in A : /\ o.type = "insert" /\ o.id = x.nodes[i].id
                     /\ o.after = x.nodes[i].after /\ o.auth = x.nodes[i].auth
    BY <2>1 DEF Holds
  <2>3. x.nodes[i].deleted <=> \E o \in A : o.type = "delete" /\ o.id = x.nodes[i].id
    BY <2>1 DEF Holds
  <2>4. i = k <=> x.nodes[i].id = op.id
    <3>1. i \in DOMAIN x.nodes /\ k \in DOMAIN x.nodes
      BY <1>4, <2>1
    <3>2. x.index[x.nodes[i].id] = i
      BY <1>1, <3>1 DEF Listed
    <3> QED
      BY <1>4, <3>2
  <2>5. /\ y.nodes[i].id = x.nodes[i].id /\ y.nodes[i].after = x.nodes[i].after
        /\ y.nodes[i].auth = x.nodes[i].auth
        /\ y.nodes[i].deleted <=> x.nodes[i].deleted \/ i = k
    BY <1>6, <2>1
  <2>6. \E o \in B : /\ o.type = "insert" /\ o.id = y.nodes[i].id
                     /\ o.after = y.nodes[i].after /\ o.auth = y.nodes[i].auth
    BY <2>2, <2>5
  <2>7. y.nodes[i].deleted <=> \E o \in B : o.type = "delete" /\ o.id = y.nodes[i].id
    <3> HIDE DEF k
    <3>1. CASE i = k
      BY <2>4, <2>5, <3>1
    <3>2. CASE i # k
      BY <2>3, <2>4, <2>5, <3>2
    <3> QED
      BY <3>1, <3>2
  <2> QED
    BY <2>6, <2>7
<1>9. \A o \in B : o.id \in DOMAIN y.index
  BY <1>1, <1>3 DEF Holds
<1>10. Holds(y, B)
  <2> HIDE DEF B
  <2> QED
    BY <1>3, <1>7, <1>8, <1>9 DEF Holds
<1> QED
  BY <1>3, <1>10 DEF y

-----------------------------------------------------------------------------
(***************************************************************************)
(* The buffer.  Of the operations of T all have been applied to the list   *)
(* of x except those that wait in its buffer, each once.                   *)
(***************************************************************************)
Waiting(x) == {x.pending[i] : i \in DOMAIN x.pending}

Covers(x, T) ==
    /\ OperationSet(T)
    /\ x.pending \in Seq(T)
    /\ \A i, j \in DOMAIN x.pending : x.pending[i] = x.pending[j] => i = j
    /\ Holds(x, T \ Waiting(x))

\* No buffered operation could be applied.
Done(x) == \A i \in DOMAIN x.pending : ~ready(x, x.pending[i])

\* op is an operation that x does not have.
MayTake(x, T, op) ==
    Covers(x, T) /\ op \notin T /\ OperationSet(T \cup {op})

\* y is x with op, which it did not have, at the end of the buffer.
Buffered(x, T, op, y) ==
    /\ MayTake(x, T, op)
    /\ IsReplica(y) /\ y.nodes = x.nodes /\ y.index = x.index
    /\ y.pending = Append(x.pending, op)

\* An operation put at the end of the buffer is not forgotten.
LEMMA Buffers ==
    ASSUME NEW x, NEW T, NEW op, NEW y, Buffered(x, T, op, y)
    PROVE  Covers(y, T \cup {op})
<1> DEFINE n == Len(x.pending)
           U == T \cup {op}
<1>1. Covers(x, T) /\ op \notin T /\ OperationSet(T \cup {op})
  BY DEF Buffered, MayTake
<1>2. x.pending \in Seq(T) /\ n \in Nat /\ DOMAIN x.pending = 1 .. n
  BY <1>1 DEF Covers
<1>3. x.pending \in Seq(U) /\ op \in U
  BY <1>2
<1>4. /\ y.pending \in Seq(U) /\ Len(y.pending) = n + 1
      /\ y.pending[n + 1] = op
      /\ \A i \in 1 .. n : y.pending[i] = x.pending[i]
  <2> HIDE DEF U
  <2> QED
    BY <1>3, AppendProperties DEF Buffered
<1>5. DOMAIN y.pending = 1 .. n + 1
  BY <1>2, <1>4
<1>6. \A i \in 1 .. n : x.pending[i] \in T
  BY <1>2
<1>7. \A i \in 1 .. n + 1 : i = n + 1 \/ i \in 1 .. n
  BY <1>2
<1>8. \A i, j \in DOMAIN y.pending : y.pending[i] = y.pending[j] => i = j
  <2>1. \A i, j \in 1 .. n : x.pending[i] = x.pending[j] => i = j
    BY <1>1, <1>2 DEF Covers
  <2> HIDE DEF n
  <2> QED
    BY <1>1, <1>4, <1>5, <1>6, <1>7, <2>1
<1>9. U \ Waiting(y) = T \ Waiting(x)
  <2>1. \A o : o \in Waiting(y) <=> o = op \/ o \in Waiting(x)
    <3>1. n + 1 \in 1 .. n + 1 /\ \A i \in 1 .. n : i \in 1 .. n + 1
      BY <1>2
    <3> HIDE DEF n
    <3> QED
      BY <1>2, <1>4, <1>5, <1>7, <3>1 DEF Waiting
  <2> QED
    BY <1>1, <2>1
<1>10. Holds(y, T \ Waiting(x))
  <2> DEFINE A == T \ Waiting(x)
  <2>1. Holds(x, A)
    BY <1>1 DEF Covers
  <2>2. Listed(y)
    <3>1. Listed(x)
      BY <2>1 DEF Holds
    <3>2. ListIDs(y) = ListIDs(x) /\ Parents(y) = Parents(x) /\ IDs(y) = IDs(x)
      BY DEF ListIDs, Parents, IDs, PositionOf, Buffered
    <3> QED
      BY <3>1, <3>2 DEF Listed, Buffered
  <2> HIDE DEF A
  <2>3. Holds(y, A)
    BY <2>1, <2>2 DEF Holds, Buffered
  <2> QED
    BY <2>3 DEF A
<1> QED
  BY <1>1, <1>4, <1>8, <1>9, <1>10 DEF Covers

(***************************************************************************)
(* One operation of the buffer is applied or put back.                     *)
(***************************************************************************)
Flushed(x, T, op, y) ==
    /\ Covers(y, T \cup {op})
    /\ y.counter = x.counter /\ y.seen = x.seen
    /\ op.type = "delete" => y.index = x.index
    /\ ready(x, op) => y.pending = x.pending
    /\ ~ready(x, op) => /\ y.nodes = x.nodes /\ y.index = x.index
                        /\ Len(y.pending) = Len(x.pending) + 1
                        /\ y.pending[Len(x.pending) + 1] = op
                        /\ \A i \in 1 .. Len(x.pending) : y.pending[i] = x.pending[i]

\* flushOp applies a ready operation to the list and puts any other back.
LEMMA FlushesOp ==
    ASSUME NEW x, NEW T, NEW op, MayTake(x, T, op)
    PROVE  Flushed(x, T, op, flushOp(x, op))
<1> DEFINE y == flushOp(x, op)
           U == T \cup {op}
           A == T \ Waiting(x)
<1>1. Covers(x, T) /\ op \notin T /\ OperationSet(T \cup {op})
  BY DEF MayTake
<1>2. Holds(x, A) /\ IsReplica(x) /\ IsOperation(op)
  BY <1>1 DEF Covers, Holds, OperationSet
<1>3. CASE ready(x, op)
  <2>1. /\ Holds(applyOp(x, op), A \cup {op})
        /\ applyOp(x, op).counter = x.counter /\ applyOp(x, op).seen = x.seen
        /\ applyOp(x, op).pending = x.pending
        /\ op.type = "delete" => applyOp(x, op).index = x.index
    <3>1. op \notin A /\ OperationSet(A \cup {op})
      BY <1>1 DEF OperationSet
    <3> HIDE DEF A
    <3>2. CASE op.type = "insert"
      BY <1>2, <1>3, <3>1, <3>2, HoldsInsert DEF applyOp
    <3>3. CASE op.type = "delete"
      BY <1>2, <1>3, <3>3, HoldsDelete DEF applyOp
    <3> QED
      BY <1>2, <3>2, <3>3 DEF IsOperation
  <2>2. y = applyOp(x, op)
    BY <1>3 DEF flushOp
  <2> HIDE DEF y
  <2>3. Waiting(y) = Waiting(x)
    BY <2>1, <2>2 DEF Waiting
  <2>4. U \ Waiting(y) = A \cup {op}
    <3>1. \A i \in DOMAIN x.pending : x.pending[i] \in T
      BY <1>1 DEF Covers
    <3>2. op \notin Waiting(x)
      BY <1>1, <3>1 DEF Waiting
    <3> QED
      BY <2>3, <3>2
  <2>5. Covers(y, U)
    <3>1. y.pending \in Seq(U)
      BY <1>1, <2>1, <2>2 DEF Covers
    <3> HIDE DEF U, A
    <3>2. Holds(y, U \ Waiting(y))
      BY <2>1, <2>2, <2>4
    <3>3. OperationSet(U)
      BY <1>1 DEF U
    <3> QED
      BY <1>1, <2>1, <2>2, <3>1, <3>2, <3>3 DEF Covers
  <2> QED
    BY <1>3, <2>1, <2>2, <2>5 DEF y, Flushed
<1>4. CASE ~ready(x, op)
  <2>1. y = [counter |-> x.counter, nodes |-> x.nodes, index |-> x.index,
             seen |-> x.seen, pending |-> Append(x.pending, op)]
    <3>1. y = [x EXCEPT !.pending = Append(x.pending, op)]
      BY <1>4 DEF flushOp
    <3> HIDE DEF y
    <3> QED
      BY <1>2, <3>1 DEF IsReplica
  <2> HIDE DEF y
  <2>2. /\ IsReplica(y) /\ y.nodes = x.nodes /\ y.index = x.index
        /\ y.counter = x.counter /\ y.seen = x.seen
        /\ y.pending = Append(x.pending, op)
    BY <2>1 DEF IsReplica
  <2>3. /\ Covers(y, T \cup {op})
        /\ Len(y.pending) = Len(x.pending) + 1
        /\ y.pending[Len(x.pending) + 1] = op
        /\ \A i \in 1 .. Len(x.pending) : y.pending[i] = x.pending[i]
    <3>1. Buffered(x, T, op, y)
      BY <2>2 DEF Buffered
    <3>2. Covers(y, T \cup {op})
      BY <3>1, Buffers, Zenon
    <3>3. x.pending \in Seq(U) /\ op \in U
      BY <1>1 DEF Covers
    <3> HIDE DEF U
    <3>4. /\ Len(y.pending) = Len(x.pending) + 1
          /\ y.pending[Len(x.pending) + 1] = op
          /\ \A i \in 1 .. Len(x.pending) : y.pending[i] = x.pending[i]
      BY <2>2, <3>3, AppendProperties
    <3> QED
      BY <3>2, <3>4
  <2> QED
    BY <1>4, <2>2, <2>3 DEF y, Flushed
<1> QED
  BY <1>3, <1>4

-----------------------------------------------------------------------------
(***************************************************************************)
(* A pass over the buffer.                                                 *)
(***************************************************************************)

\* All of T but what waits in the buffer of x right of position k.
Taken(x, T, k) == T \ {x.pending[i] : i \in k + 1 .. Len(x.pending)}

(***************************************************************************)
(* s is what the pass has made of x after k buffered operations.  It has   *)
(* kept all of them only if none of them could be applied.                 *)
(***************************************************************************)
Passing(x, T, k, s) ==
    /\ Covers(s, Taken(x, T, k))
    /\ s.counter = x.counter /\ s.seen = x.seen
    /\ Len(s.pending) <= k
    /\ Len(s.pending) = k =>
          /\ s.nodes = x.nodes /\ s.index = x.index
          /\ \A i \in 1 .. k : s.pending[i] = x.pending[i] /\ ~ready(x, x.pending[i])
    /\ Done(x) => Len(s.pending) = k

\* A pass begins with an empty buffer and the whole old one to go through.
LEMMA PassStarts ==
    ASSUME NEW x, NEW T, Covers(x, T)
    PROVE  Passing(x, T, 0, [x EXCEPT !.pending = <<>>])
<1> DEFINE A == T \ Waiting(x)
           s == [x EXCEPT !.pending = <<>>]
<1>1. Holds(x, A) /\ IsReplica(x) /\ Listed(x)
  BY DEF Covers, Holds
<1>2. s = [counter |-> x.counter, nodes |-> x.nodes, index |-> x.index,
           seen |-> x.seen, pending |-> <<>>]
  BY <1>1 DEF IsReplica
<1> HIDE DEF s
<1>3. /\ s.counter = x.counter /\ s.nodes = x.nodes /\ s.index = x.index
      /\ s.seen = x.seen /\ s.pending = <<>> /\ IsReplica(s)
  BY <1>2 DEF IsReplica
<1>4. Holds(s, A)
  <2>1. ListIDs(s) = ListIDs(x) /\ Parents(s) = Parents(x) /\ IDs(s) = IDs(x)
    BY <1>3 DEF ListIDs, Parents, IDs, PositionOf
  <2>2. Listed(s)
    BY <1>1, <1>3, <2>1 DEF Listed
  <2> HIDE DEF A
  <2> QED
    BY <1>1, <1>3, <2>2 DEF Holds
<1>5. Taken(x, T, 0) = A
  <2>1. Len(x.pending) \in Nat /\ DOMAIN x.pending = 1 .. Len(x.pending)
    BY DEF Covers
  <2> QED
    BY <2>1 DEF Taken, Waiting
<1>6. Waiting(s) = {}
  BY <1>3 DEF Waiting
<1>7. Covers(s, A)
  <2>1. OperationSet(A)
    BY DEF Covers, OperationSet
  <2>2. A \ Waiting(s) = A
    BY <1>6
  <2>3. s.pending \in Seq(A) /\ DOMAIN s.pending = {}
    BY <1>3
  <2> HIDE DEF A
  <2> QED
    BY <1>4, <2>1, <2>2, <2>3 DEF Covers
<1>8. Len(s.pending) = 0 /\ 1 .. 0 = {}
  BY <1>3
<1> HIDE DEF A
<1>9. Passing(x, T, 0, s)
  BY <1>3, <1>5, <1>7, <1>8 DEF Passing
<1> QED
  BY <1>9 DEF s

\* Each operation of the old buffer is applied or put back, in its turn.
LEMMA PassStep ==
    ASSUME NEW x, NEW T, Covers(x, T), NEW k \in 1 .. Len(x.pending),
           NEW s, Passing(x, T, k - 1, s)
    PROVE  Passing(x, T, k, flushOp(s, x.pending[k]))
<1> DEFINE n == Len(x.pending)
           op == x.pending[k]
           y == flushOp(s, op)
           U == Taken(x, T, k - 1)
<1>1. n \in Nat /\ DOMAIN x.pending = 1 .. n /\ \A i \in 1 .. n : x.pending[i] \in T
  BY DEF Covers
<1>2. Covers(s, U)
  BY DEF Passing
<1>3. op \notin U /\ Taken(x, T, k) = U \cup {op}
  <2>1. \A i \in k .. n : i = k \/ i \in k + 1 .. n
    BY <1>1
  <2>2. \A i \in k + 1 .. n : x.pending[i] # op
    BY <1>1 DEF Covers
  <2>3. U = T \ {x.pending[i] : i \in k .. n}
    BY DEF Taken
  <2>4. k \in k .. n /\ \A i \in k + 1 .. n : i \in k .. n
    BY <1>1
  <2>5. op \in T
    BY <1>1
  <2> HIDE DEF n, U, op
  <2> QED
    BY <2>1, <2>2, <2>3, <2>4, <2>5 DEF Taken, n, op
<1>4. OperationSet(U \cup {op})
  <2>1. U \cup {op} \subseteq T
    BY <1>1 DEF Taken
  <2> HIDE DEF U, op
  <2> QED
    BY <2>1 DEF Covers, OperationSet
<1>5. /\ Covers(y, U \cup {op})
      /\ y.counter = s.counter /\ y.seen = s.seen
      /\ ready(s, op) => y.pending = s.pending
      /\ ~ready(s, op) => /\ y.nodes = s.nodes /\ y.index = s.index
                          /\ Len(y.pending) = Len(s.pending) + 1
                          /\ y.pending[Len(s.pending) + 1] = op
                          /\ \A i \in 1 .. Len(s.pending) : y.pending[i] = s.pending[i]
  <2> HIDE DEF U, op
  <2>1. MayTake(s, U, op)
    BY <1>2, <1>3, <1>4 DEF MayTake
  <2>2. Flushed(s, U, op, y)
    BY <2>1, FlushesOp, Zenon
  <2> HIDE DEF y
  <2> QED
    BY <2>2 DEF Flushed
<1> HIDE DEF y, U
<1>6. Len(s.pending) \in Nat
  BY <1>2 DEF Covers
<1>7. /\ s.counter = x.counter /\ s.seen = x.seen
      /\ Len(s.pending) <= k - 1
      /\ Len(s.pending) = k - 1 =>
            /\ s.nodes = x.nodes /\ s.index = x.index
            /\ \A i \in 1 .. k - 1 : s.pending[i] = x.pending[i] /\ ~ready(x, x.pending[i])
      /\ Done(x) => Len(s.pending) = k - 1
  BY DEF Passing
<1>8. Len(s.pending) = k - 1 => (ready(s, op) <=> ready(x, op))
  BY <1>7 DEF ready
<1>9. Len(y.pending) <= k
  BY <1>5, <1>6, <1>7
<1>10. ASSUME Len(y.pending) = k
       PROVE  /\ y.nodes = x.nodes /\ y.index = x.index
              /\ \A i \in 1 .. k : y.pending[i] = x.pending[i] /\ ~ready(x, x.pending[i])
  <2>1. ~ready(s, op) /\ Len(s.pending) = k - 1
    BY <1>5, <1>6, <1>7, <1>10
  <2>2. \A i \in 1 .. k : i = k \/ i \in 1 .. k - 1
    OBVIOUS
  <2> QED
    BY <1>5, <1>7, <1>8, <2>1, <2>2
<1>11. Done(x) => Len(y.pending) = k
  <2>1. Done(x) => ~ready(x, op)
    BY <1>1 DEF Done
  <2> QED
    BY <1>5, <1>7, <1>8, <2>1
<1>12. Passing(x, T, k, y)
  <2> HIDE DEF op
  <2> QED
    BY <1>3, <1>5, <1>7, <1>9, <1>10, <1>11 DEF Passing
<1> QED
  BY <1>12 DEF y

\* What a pass makes of x.
Pass(x, T, y) ==
    /\ Covers(y, T)
    /\ y.counter = x.counter /\ y.seen = x.seen
    /\ Done(x) => y = x
    /\ ~Done(x) => Len(y.pending) < Len(x.pending)

\* A pass of flushPending loses nothing, and applies something if anything is ready.
LEMMA Passes ==
    ASSUME NEW x, NEW T, Covers(x, T)
    PROVE  Pass(x, T, flushPass(x))
<1> DEFINE n == Len(x.pending)
           start == [x EXCEPT !.pending = <<>>]
           step(k, v) == Through(LAMBDA s : flushOp(s, x.pending[k]), v)
           F(m, f) == [k \in 0 .. m |-> IF k = 0 THEN start ELSE step(k, f[k - 1])]
           Good(m) == \E f : f = F(m, f)
           after == CHOOSE f : f = F(n, f)
<1>1. n \in Nat /\ DOMAIN x.pending = 1 .. n
  BY DEF Covers
<1>2. flushPass(x) = after[n]
  BY DEF flushPass
<1>3. ASSUME NEW k, NEW v PROVE step(k, v) = flushOp(v, x.pending[k])
  <2> DEFINE image == {flushOp(s, x.pending[k]) : s \in {v}}
  <2>1. step(k, v) = CHOOSE z \in image : TRUE
    BY DEF Through
  <2>2. image = {flushOp(v, x.pending[k])}
    OBVIOUS
  <2> HIDE DEF image
  <2> QED
    BY <2>1, <2>2
<1> HIDE DEF n, start, step
<1>4. Good(n)
  <2> DEFINE bad == {m \in 0 .. n : ~Good(m)}
  <2>1. SUFFICES ASSUME bad # {} PROVE FALSE
    <3> HIDE DEF Good
    <3> QED
      BY <1>1
  <2>2. PICK m \in bad : \A l \in bad : m <= l
    <3> HIDE DEF Good
    <3>1. bad \in SUBSET Nat
      BY <1>1
    <3> HIDE DEF bad
    <3> QED
      BY <2>1, <3>1, Least
  <2>3. m \in 0 .. n /\ ~Good(m)
    <3> HIDE DEF Good
    <3> QED
      BY <2>2
  <2>4. m # 0
    <3> DEFINE g == [k \in 0 .. 0 |-> start]
    <3>1. g = F(0, g)
      OBVIOUS
    <3>2. Good(0)
      <4> HIDE DEF F
      <4> QED
        BY <3>1
    <3> QED
      BY <2>3, <3>2
  <2>5. Good(m - 1)
    <3> HIDE DEF Good
    <3>1. m - 1 \in 0 .. n /\ m - 1 \notin bad
      BY <1>1, <2>2, <2>3, <2>4
    <3> QED
      BY <3>1
  <2>6. PICK f : f = F(m - 1, f)
    <3> HIDE DEF F
    <3> QED
      BY <2>5
  <2>7. \A k \in 0 .. m - 1 : f[k] = IF k = 0 THEN start ELSE step(k, f[k - 1])
    BY <2>6
  <2> DEFINE g == [k \in 0 .. m |-> IF k < m THEN f[k] ELSE step(m, f[m - 1])]
  <2>8. \A k \in 0 .. m : g[k] = IF k = 0 THEN start ELSE step(k, g[k - 1])
    <3> SUFFICES ASSUME NEW k \in 0 .. m
                 PROVE  g[k] = IF k = 0 THEN start ELSE step(k, g[k - 1])
      OBVIOUS
    <3>1. k # 0 => g[k - 1] = f[k - 1]
      BY <1>1, <2>3
    <3>2. CASE k = m
      BY <2>4, <3>1, <3>2
    <3>3. CASE k < m
      <4>1. k \in 0 .. m - 1 /\ g[k] = f[k]
        BY <1>1, <2>3, <3>3
      <4> HIDE DEF g
      <4> QED
        BY <2>7, <3>1, <4>1
    <3> QED
      BY <1>1, <2>3, <3>2, <3>3
  <2>9. g = F(m, g)
    <3>1. g = [k \in 0 .. m |-> g[k]]
      OBVIOUS
    <3> HIDE DEF g
    <3> QED
      BY <2>8, <3>1
  <2> HIDE DEF F, g
  <2> QED
    BY <2>3, <2>9
<1>5. after = F(n, after)
  <2> HIDE DEF F
  <2> QED
    BY <1>4
<1> HIDE DEF after
<1>6. after[0] = start /\ \A k \in 1 .. n : after[k] = flushOp(after[k - 1], x.pending[k])
  <2>1. \A k \in 0 .. n : after[k] = IF k = 0 THEN start ELSE step(k, after[k - 1])
    BY <1>5
  <2> QED
    BY <1>1, <1>3, <2>1
<1> HIDE DEF Good, F
<1>7. Passing(x, T, n, after[n])
  <2> DEFINE bad == {k \in 0 .. n : ~Passing(x, T, k, after[k])}
  <2>1. SUFFICES ASSUME bad # {} PROVE FALSE
    BY <1>1
  <2>2. PICK k \in bad : \A l \in bad : k <= l
    <3>1. bad \in SUBSET Nat
      BY <1>1
    <3> HIDE DEF bad
    <3> QED
      BY <2>1, <3>1, Least
  <2>3. k \in 0 .. n /\ ~Passing(x, T, k, after[k])
    BY <2>2
  <2>4. k # 0
    BY <1>6, <2>3, PassStarts DEF start
  <2>5. k \in 1 .. n /\ Passing(x, T, k - 1, after[k - 1])
    BY <1>1, <2>2, <2>3, <2>4
  <2>6. k \in 1 .. Len(x.pending)
    BY <2>5 DEF n
  <2>7. Passing(x, T, k, flushOp(after[k - 1], x.pending[k]))
    BY <2>5, <2>6, PassStep
  <2> QED
    BY <1>6, <2>3, <2>5, <2>7
<1> DEFINE y == after[n]
<1>8. /\ Covers(y, Taken(x, T, n))
      /\ y.counter = x.counter /\ y.seen = x.seen
      /\ Len(y.pending) <= n
      /\ Len(y.pending) = n =>
            /\ y.nodes = x.nodes /\ y.index = x.index
            /\ \A i \in 1 .. n : y.pending[i] = x.pending[i] /\ ~ready(x, x.pending[i])
      /\ Done(x) => Len(y.pending) = n
  BY <1>7 DEF Passing
<1>9. Taken(x, T, n) = T
  <2>1. n + 1 .. n = {}
    BY <1>1
  <2> QED
    BY <2>1 DEF Taken, n
<1> HIDE DEF y
<1>10. Len(y.pending) \in Nat /\ DOMAIN y.pending = 1 .. Len(y.pending) /\ IsReplica(y)
  BY <1>8 DEF Covers, Holds
<1>11. ASSUME Done(x) PROVE y = x
  <2>1. /\ Len(y.pending) = n /\ y.nodes = x.nodes /\ y.index = x.index
        /\ \A i \in 1 .. n : y.pending[i] = x.pending[i]
    BY <1>8, <1>11
  <2>2. y.pending = x.pending
    <3>1. x.pending \in Seq(T) /\ y.pending \in Seq(T)
      BY <1>8, <1>9 DEF Covers
    <3> QED
      BY <2>1, <3>1, SeqEqual DEF n
  <2> QED
    BY <1>8, <1>10, <2>1, <2>2 DEF IsReplica, Covers, Holds
<1>12. ASSUME ~Done(x) PROVE Len(y.pending) < Len(x.pending)
  <2>1. Len(y.pending) # n
    BY <1>1, <1>8, <1>12 DEF Done
  <2> QED
    BY <1>1, <1>8, <1>10, <2>1 DEF n
<1>13. Pass(x, T, y)
  BY <1>8, <1>9, <1>11, <1>12 DEF Pass
<1> QED
  BY <1>2, <1>13 DEF y

-----------------------------------------------------------------------------
(***************************************************************************)
(* Every pass but the last applies something, so that as many passes as    *)
(* there are buffered operations leave none that could be applied.         *)
(***************************************************************************)
Settles(x, T, y) ==
    /\ Covers(y, T) /\ Done(y)
    /\ y.counter = x.counter /\ y.seen = x.seen
    /\ Done(x) => y = x

\* flushPending leaves no operation in the buffer that could be applied.
LEMMA FlushSettles ==
    ASSUME NEW x, NEW T, Covers(x, T)
    PROVE  Settles(x, T, flushPending(x))
<1> DEFINE n == Len(x.pending)
           step(v) == Through(flushPass, v)
           F(m, f) == [k \in 0 .. m |-> IF k = 0 THEN x ELSE step(f[k - 1])]
           Good(m) == \E f : f = F(m, f)
           after == CHOOSE f : f = F(n, f)
<1>1. n \in Nat
  BY DEF Covers
<1>2. flushPending(x) = after[n]
  BY DEF flushPending
<1>3. ASSUME NEW v PROVE step(v) = flushPass(v)
  <2> DEFINE image == {flushPass(s) : s \in {v}}
  <2>1. step(v) = CHOOSE z \in image : TRUE
    BY DEF Through
  <2>2. image = {flushPass(v)}
    OBVIOUS
  <2> HIDE DEF image
  <2> QED
    BY <2>1, <2>2
<1> HIDE DEF n, step
<1>4. Good(n)
  <2> DEFINE bad == {m \in 0 .. n : ~Good(m)}
  <2>1. SUFFICES ASSUME bad # {} PROVE FALSE
    <3> HIDE DEF Good
    <3> QED
      BY <1>1
  <2>2. PICK m \in bad : \A l \in bad : m <= l
    <3> HIDE DEF Good
    <3>1. bad \in SUBSET Nat
      BY <1>1
    <3> HIDE DEF bad
    <3> QED
      BY <2>1, <3>1, Least
  <2>3. m \in 0 .. n /\ ~Good(m)
    <3> HIDE DEF Good
    <3> QED
      BY <2>2
  <2>4. m # 0
    <3> DEFINE g == [k \in 0 .. 0 |-> x]
    <3>1. g = F(0, g)
      OBVIOUS
    <3>2. Good(0)
      <4> HIDE DEF F
      <4> QED
        BY <3>1
    <3> QED
      BY <2>3, <3>2
  <2>5. Good(m - 1)
    <3> HIDE DEF Good
    <3>1. m - 1 \in 0 .. n /\ m - 1 \notin bad
      BY <1>1, <2>2, <2>3, <2>4
    <3> QED
      BY <3>1
  <2>6. PICK f : f = F(m - 1, f)
    <3> HIDE DEF F
    <3> QED
      BY <2>5
  <2>7. \A k \in 0 .. m - 1 : f[k] = IF k = 0 THEN x ELSE step(f[k - 1])
    BY <2>6
  <2> DEFINE g == [k \in 0 .. m |-> IF k < m THEN f[k] ELSE step(f[m - 1])]
  <2>8. \A k \in 0 .. m : g[k] = IF k = 0 THEN x ELSE step(g[k - 1])
    <3> SUFFICES ASSUME NEW k \in 0 .. m
                 PROVE  g[k] = IF k = 0 THEN x ELSE step(g[k - 1])
      OBVIOUS
    <3>1. k # 0 => g[k - 1] = f[k - 1]
      BY <1>1, <2>3
    <3>2. CASE k = m
      BY <2>4, <3>1, <3>2
    <3>3. CASE k < m
      <4>1. k \in 0 .. m - 1 /\ g[k] = f[k]
        BY <1>1, <2>3, <3>3
      <4> HIDE DEF g
      <4> QED
        BY <2>7, <3>1, <4>1
    <3> QED
      BY <1>1, <2>3, <3>2, <3>3
  <2>9. g = F(m, g)
    <3>1. g = [k \in 0 .. m |-> g[k]]
      OBVIOUS
    <3> HIDE DEF g
    <3> QED
      BY <2>8, <3>1
  <2> HIDE DEF F, g
  <2> QED
    BY <2>3, <2>9
<1>5. after = F(n, after)
  <2> HIDE DEF F
  <2> QED
    BY <1>4
<1> HIDE DEF after
<1>6. after[0] = x /\ \A k \in 1 .. n : after[k] = flushPass(after[k - 1])
  <2>1. \A k \in 0 .. n : after[k] = IF k = 0 THEN x ELSE step(after[k - 1])
    BY <1>5
  <2> QED
    BY <1>1, <1>3, <2>1
<1> HIDE DEF Good, F
<1> DEFINE Inv(k, s) == /\ Covers(s, T)
                        /\ s.counter = x.counter /\ s.seen = x.seen
                        /\ Done(x) => s = x
                        /\ Done(s) \/ Len(s.pending) <= n - k
<1>7. Inv(n, after[n])
  <2> DEFINE bad == {k \in 0 .. n : ~Inv(k, after[k])}
  <2>1. SUFFICES ASSUME bad # {} PROVE FALSE
    <3> HIDE DEF Inv
    <3> QED
      BY <1>1
  <2>2. PICK k \in bad : \A l \in bad : k <= l
    <3> HIDE DEF Inv
    <3>1. bad \in SUBSET Nat
      BY <1>1
    <3> HIDE DEF bad
    <3> QED
      BY <2>1, <3>1, Least
  <2>3. k \in 0 .. n /\ ~Inv(k, after[k])
    <3> HIDE DEF Inv
    <3> QED
      BY <2>2
  <2>4. k # 0
    <3>1. Inv(0, x)
      BY <1>1 DEF n
    <3> HIDE DEF Inv
    <3> QED
      BY <1>6, <2>3, <3>1
  <2>5. k \in 1 .. n /\ Inv(k - 1, after[k - 1])
    <3> HIDE DEF Inv
    <3> QED
      BY <1>1, <2>2, <2>3, <2>4
  <2> DEFINE s == after[k - 1]
             y == flushPass(s)
  <2>6. /\ Covers(s, T) /\ s.counter = x.counter /\ s.seen = x.seen
        /\ Done(x) => s = x
        /\ Done(s) \/ Len(s.pending) <= n - (k - 1)
    BY <2>5
  <2> HIDE DEF s
  <2>7. Pass(s, T, y)
    BY <2>6, Passes, Zenon
  <2> HIDE DEF y
  <2>8. /\ Covers(y, T) /\ y.counter = x.counter /\ y.seen = x.seen
        /\ Done(x) => y = x
    BY <2>6, <2>7 DEF Pass
  <2>9. Done(y) \/ Len(y.pending) <= n - k
    <3>1. CASE Done(s)
      BY <2>7, <3>1 DEF Pass
    <3>2. CASE ~Done(s)
      <4>1. Len(y.pending) < Len(s.pending) /\ Len(s.pending) <= n - (k - 1)
        BY <2>6, <2>7, <3>2 DEF Pass
      <4>2. Len(y.pending) \in Nat /\ Len(s.pending) \in Nat
        BY <2>6, <2>8 DEF Covers
      <4> QED
        BY <1>1, <2>5, <4>1, <4>2
    <3> QED
      BY <3>1, <3>2
  <2>10. Inv(k, y)
    BY <2>8, <2>9
  <2> HIDE DEF Inv
  <2> QED
    BY <1>6, <2>3, <2>5, <2>10 DEF s, y
<1> DEFINE y == after[n]
<1>8. /\ Covers(y, T) /\ y.counter = x.counter /\ y.seen = x.seen
      /\ Done(x) => y = x
      /\ Done(y) \/ Len(y.pending) <= 0
  BY <1>1, <1>7
<1> HIDE DEF y
<1>9. Done(y)
  <2>1. ASSUME Len(y.pending) <= 0 PROVE DOMAIN y.pending = {}
    BY <1>8, <2>1 DEF Covers
  <2> QED
    BY <1>8, <2>1 DEF Done
<1>10. Settles(x, T, y)
  BY <1>8, <1>9 DEF Settles
<1> QED
  BY <1>2, <1>10 DEF y

-----------------------------------------------------------------------------
(***************************************************************************)
(* Apply.  The state of a replica that has seen the operations of T: all   *)
(* that could be applied have been.                                        *)
(***************************************************************************)
Settled(x, T) == Covers(x, T) /\ Done(x)

\* What Apply makes of x for an operation it has not seen.
Took(x, T, op, y) ==
    /\ Settled(y, T \cup {op})
    /\ y.seen = x.seen \cup {op.req}
    /\ y.counter = IF op.id.ts > x.counter THEN op.id.ts ELSE x.counter

\* The clock and the set of request ids do not matter to the list.
LEMMA CoversList ==
    ASSUME NEW x, NEW T, Covers(x, T), NEW y, IsReplica(y),
           y.nodes = x.nodes, y.index = x.index, y.pending = x.pending
    PROVE  Covers(y, T)
<1> DEFINE A == T \ Waiting(x)
<1>1. Holds(x, A) /\ Listed(x)
  BY DEF Covers, Holds
<1>2. /\ ListIDs(y) = ListIDs(x) /\ Parents(y) = Parents(x) /\ IDs(y) = IDs(x)
      /\ Waiting(y) = Waiting(x)
  BY DEF ListIDs, Parents, IDs, PositionOf, Waiting
<1>3. Listed(y)
  BY <1>1, <1>2 DEF Listed
<1>4. Holds(y, A)
  <2> HIDE DEF A
  <2> QED
    BY <1>1, <1>3 DEF Holds
<1>5. Holds(y, T \ Waiting(y))
  BY <1>2, <1>4
<1> QED
  BY <1>5 DEF Covers

(***************************************************************************)
(* Apply takes the operation in as flushPending does one of the buffer,    *)
(* and flushes the buffer after an insert.                                 *)
(***************************************************************************)
Known(x, op) ==
    [counter |-> IF op.id.ts > x.counter THEN op.id.ts ELSE x.counter,
     nodes |-> x.nodes, index |-> x.index, seen |-> x.seen \cup {op.req},
     pending |-> x.pending]

\* Apply is flushOp of the new operation, and flushPending after an insert.
LEMMA ApplyFlushes ==
    ASSUME NEW x, NEW T, NEW op, MayTake(x, T, op), op.req \notin x.seen
    PROVE  /\ MayTake(Known(x, op), T, op)
           /\ Apply(x, op) = IF op.type = "insert" /\ ready(x, op)
                             THEN flushPending(flushOp(Known(x, op), op))
                             ELSE flushOp(Known(x, op), op)
<1> DEFINE k == Known(x, op)
           known == Update([x EXCEPT !.seen = @ \cup {op.req}], op.id.ts)
           list(s) == [known EXCEPT !.nodes = s.nodes, !.index = s.index, !.pending = s.pending]
           U == T \cup {op}
<1>1. IsReplica(x) /\ Covers(x, T) /\ IsOperation(op)
  BY DEF MayTake, Covers, Holds, OperationSet
<1>2. known = k
  <2> DEFINE z == [x EXCEPT !.seen = @ \cup {op.req}]
  <2>1. z = [counter |-> x.counter, nodes |-> x.nodes, index |-> x.index,
             seen |-> x.seen \cup {op.req}, pending |-> x.pending]
    BY <1>1 DEF IsReplica
  <2> HIDE DEF z
  <2>2. known = [z EXCEPT !.counter = IF op.id.ts > z.counter THEN op.id.ts ELSE z.counter]
    BY DEF Update, z
  <2> HIDE DEF known
  <2> QED
    BY <2>1, <2>2 DEF Known
<1>3. /\ IsReplica(k) /\ k.nodes = x.nodes /\ k.index = x.index
      /\ k.pending = x.pending
  BY DEF Known, IsReplica
<1>4. ready(k, op) <=> ready(x, op)
  BY <1>3 DEF ready
<1>5. MayTake(k, T, op)
  <2>1. Covers(k, T)
    <3> HIDE DEF k
    <3> QED
      BY <1>1, <1>3, CoversList
  <2> QED
    BY <2>1 DEF MayTake
<1>6. CASE ~ready(x, op)
  <2>1. Apply(x, op) = [known EXCEPT !.pending = Append(@, op)]
    BY <1>6 DEF Apply
  <2> HIDE DEF k, known
  <2>2. flushOp(k, op) = [k EXCEPT !.pending = Append(@, op)]
    BY <1>4, <1>6 DEF flushOp
  <2> QED
    BY <1>2, <1>5, <1>6, <2>1, <2>2 DEF k
<1>7. CASE ready(x, op) /\ op.type = "delete"
  <2>1. Apply(x, op) = applyDelete(known, op)
    BY <1>7 DEF Apply
  <2> HIDE DEF k, known
  <2>2. flushOp(k, op) = applyDelete(k, op)
    BY <1>4, <1>7 DEF flushOp, applyOp
  <2> QED
    BY <1>2, <1>5, <1>7, <2>1, <2>2 DEF k
<1>8. CASE ready(x, op) /\ op.type = "insert"
  <2> DEFINE a == applyInsert(known, op)
             b == Through(flushPending, a)
             images == {list(s) : s \in {b}}
             flushes == {flushPending(s) : s \in {a}}
  <2>1. Apply(x, op) = CHOOSE z \in images : TRUE
    BY <1>8 DEF Apply, Through
  <2>2. b = flushPending(a)
    <3>1. b = CHOOSE z \in flushes : TRUE
      BY DEF Through
    <3>2. flushes = {flushPending(a)}
      OBVIOUS
    <3> HIDE DEF flushes, b
    <3> QED
      BY <3>1, <3>2
  <2>3. Apply(x, op) = list(b)
    <3>1. images = {list(b)}
      <4> HIDE DEF b, list
      <4> QED
        OBVIOUS
    <3> HIDE DEF images, list, b
    <3> QED
      BY <2>1, <3>1
  <2> HIDE DEF b, known, k
  <2>4. a = flushOp(k, op)
    BY <1>2, <1>4, <1>8 DEF flushOp, applyOp
  <2> HIDE DEF a
  <2>5. Flushed(k, T, op, a)
    BY <1>5, <2>4, FlushesOp, Zenon
  <2>6. Covers(a, U) /\ a.counter = k.counter /\ a.seen = k.seen
    BY <2>5 DEF Flushed
  <2>7. Settles(a, U, b)
    <3> HIDE DEF U
    <3> QED
      BY <2>2, <2>6, FlushSettles, Zenon
  <2>8. IsReplica(b) /\ b.counter = k.counter /\ b.seen = k.seen
    BY <2>6, <2>7 DEF Settles, Covers, Holds
  <2>9. list(b) = b
    <3>1. list(b) = [k EXCEPT !.nodes = b.nodes, !.index = b.index, !.pending = b.pending]
      BY <1>2
    <3>2. list(b) = [counter |-> k.counter, nodes |-> b.nodes, index |-> b.index,
                     seen |-> k.seen, pending |-> b.pending]
      <4> HIDE DEF list
      <4> QED
        BY <1>3, <3>1 DEF IsReplica
    <3> HIDE DEF list
    <3> QED
      BY <2>8, <3>2, Zenon DEF IsReplica
  <2> HIDE DEF list
  <2> QED
    BY <1>5, <1>8, <2>2, <2>3, <2>4, <2>9 DEF k
<1> QED
  BY <1>1, <1>6, <1>7, <1>8 DEF IsOperation

\* Apply brings a replica from what it has seen to that and the new operation.
LEMMA Applies ==
    ASSUME NEW x, NEW T, NEW op, Done(x), MayTake(x, T, op), op.req \notin x.seen
    PROVE  Took(x, T, op, Apply(x, op))
<1> DEFINE k == Known(x, op)
           a == flushOp(k, op)
           y == Apply(x, op)
           U == T \cup {op}
<1>1. /\ MayTake(k, T, op)
      /\ y = IF op.type = "insert" /\ ready(x, op) THEN flushPending(a) ELSE a
  BY ApplyFlushes
<1> HIDE DEF y
<1>2. /\ k.nodes = x.nodes /\ k.index = x.index /\ k.pending = x.pending
      /\ k.counter = IF op.id.ts > x.counter THEN op.id.ts ELSE x.counter
      /\ k.seen = x.seen \cup {op.req}
  BY DEF Known
<1> HIDE DEF k
<1>3. Flushed(k, T, op, a)
  BY <1>1, FlushesOp, Zenon
<1> HIDE DEF a
<1>4. Covers(a, U) /\ a.counter = k.counter /\ a.seen = k.seen
  BY <1>3 DEF Flushed
<1>5. CASE op.type = "insert" /\ ready(x, op)
  <2>1. Settles(a, U, y)
    <3>1. y = flushPending(a)
      BY <1>1, <1>5
    <3> HIDE DEF U
    <3> QED
      BY <1>4, <3>1, FlushSettles, Zenon
  <2> QED
    BY <1>2, <1>4, <2>1 DEF Settles, Settled, Took, y
<1>6. CASE ~(op.type = "insert" /\ ready(x, op))
  <2>1. y = a
    BY <1>1, <1>6
  <2>2. op.type \in {"insert", "delete"} /\ x.pending \in Seq(T)
    BY DEF MayTake, OperationSet, IsOperation, Covers
  <2>3. Len(x.pending) \in Nat /\ DOMAIN x.pending = 1 .. Len(x.pending)
    BY <2>2
  <2>4. (ready(x, op) <=> ready(k, op)) /\ a.index = x.index
    <3>1. ready(x, op) <=> ready(k, op)
      BY <1>2 DEF ready
    <3> QED
      BY <1>2, <1>3, <1>6, <2>2, <3>1 DEF Flushed
  <2>5. \A o : ready(a, o) <=> ready(x, o)
    BY <2>4 DEF ready
  <2>6. \A i \in DOMAIN a.pending :
           \/ i \in DOMAIN x.pending /\ a.pending[i] = x.pending[i]
           \/ a.pending[i] = op /\ ~ready(x, op)
    <3>1. CASE ready(x, op)
      <4>1. a.pending = x.pending
        BY <1>2, <1>3, <2>4, <3>1 DEF Flushed
      <4> QED
        BY <4>1
    <3>2. CASE ~ready(x, op)
      <4>1. /\ Len(a.pending) = Len(x.pending) + 1
            /\ a.pending[Len(x.pending) + 1] = op
            /\ \A i \in 1 .. Len(x.pending) : a.pending[i] = x.pending[i]
        BY <1>2, <1>3, <2>4, <3>2 DEF Flushed
      <4>2. DOMAIN a.pending = 1 .. Len(x.pending) + 1
        BY <1>4, <4>1 DEF Covers
      <4> QED
        BY <2>3, <3>2, <4>1, <4>2
    <3> QED
      BY <3>1, <3>2
  <2>7. Done(a)
    BY <2>5, <2>6 DEF Done
  <2> QED
    BY <1>2, <1>4, <2>1, <2>7 DEF Settled, Took, y
<1> QED
  BY <1>5, <1>6

\* An operation seen before changes nothing.
LEMMA AppliesOnce ==
    ASSUME NEW x, NEW op, op.req \in x.seen
    PROVE  Apply(x, op) = x
  BY DEF Apply

-----------------------------------------------------------------------------
(***************************************************************************)
(* What a replica has seen determines its list.                            *)
(***************************************************************************)

\* What waits is what belongs to no node of the list.
LEMMA SettledFacts ==
    ASSUME NEW x, NEW T, Settled(x, T)
    PROVE  /\ Listed(x) /\ IsReplica(x)
           /\ \A i \in DOMAIN x.nodes :
                 /\ \E op \in T : /\ op.type = "insert" /\ op.id = x.nodes[i].id
                                  /\ op.after = x.nodes[i].after /\ op.auth = x.nodes[i].auth
                 /\ x.nodes[i].deleted <=>
                       \E op \in T : op.type = "delete" /\ op.id = x.nodes[i].id
           /\ \A op \in T : op \in Waiting(x) <=> op.id \notin DOMAIN x.index
           /\ \A op \in T : op.type = "insert" /\ ready(x, op) => op.id \in DOMAIN x.index
<1>1. Covers(x, T) /\ Holds(x, T \ Waiting(x)) /\ Listed(x) /\ IsReplica(x) /\ OperationSet(T)
  BY DEF Settled, Covers, Holds
<1>2. \A op \in Waiting(x) : ~ready(x, op)
  BY DEF Settled, Done, Waiting
<1> DEFINE A == T \ Waiting(x)
<1>3. /\ \A op \in A : op.id \in DOMAIN x.index
      /\ \A i \in DOMAIN x.nodes :
            /\ \E op \in A : /\ op.type = "insert" /\ op.id = x.nodes[i].id
                             /\ op.after = x.nodes[i].after /\ op.auth = x.nodes[i].auth
            /\ x.nodes[i].deleted <=> \E op \in A : op.type = "delete" /\ op.id = x.nodes[i].id
  <2>1. Holds(x, A)
    BY <1>1
  <2> HIDE DEF A
  <2> QED
    BY <2>1 DEF Holds
<1>4. \A op \in T : op.type = "delete" /\ op.id \in DOMAIN x.index => op \in A
  BY <1>2 DEF ready
<1>5. \A op \in T : op.type = "insert" /\ op.id \in DOMAIN x.index => op \in A
  <2> SUFFICES ASSUME NEW op \in T, op.type = "insert", op.id \in DOMAIN x.index
               PROVE  op \in A
    OBVIOUS
  <2>1. x.index[op.id] \in DOMAIN x.nodes /\ x.nodes[x.index[op.id]].id = op.id
    BY <1>1, ListFacts
  <2>2. PICK o \in A : o.type = "insert" /\ o.id = op.id
    <3> HIDE DEF A
    <3> QED
      BY <1>3, <2>1
  <2> QED
    BY <1>1, <2>2 DEF OperationSet
<1>6. \A op \in T : op.type = "insert" \/ op.type = "delete"
  BY <1>1 DEF OperationSet, IsOperation
<1>7. \A op \in T : op \in Waiting(x) <=> op.id \notin DOMAIN x.index
  BY <1>3, <1>4, <1>5, <1>6
<1>8. \A op \in T : op.type = "insert" /\ ready(x, op) => op.id \in DOMAIN x.index
  BY <1>2, <1>7
<1>9. ASSUME NEW i \in DOMAIN x.nodes
      PROVE  /\ \E op \in T : /\ op.type = "insert" /\ op.id = x.nodes[i].id
                              /\ op.after = x.nodes[i].after /\ op.auth = x.nodes[i].auth
             /\ x.nodes[i].deleted <=>
                   \E op \in T : op.type = "delete" /\ op.id = x.nodes[i].id
  <2>1. x.nodes[i].id \in DOMAIN x.index
    BY <1>1 DEF Listed, ListIDs
  <2> QED
    BY <1>3, <1>4, <2>1
<1> QED
  BY <1>1, <1>7, <1>8, <1>9

\* A replica has the nodes of any other that has seen the same operations.
LEMMA SameIDs ==
    ASSUME NEW x, NEW y, NEW T, Settled(x, T), Settled(y, T)
    PROVE  DOMAIN x.index \subseteq DOMAIN y.index
<1> DEFINE bad == {i \in DOMAIN x.nodes : x.nodes[i].id \notin DOMAIN y.index}
<1>1. Listed(x)
  BY SettledFacts
<1>2. \A id \in DOMAIN x.index : x.index[id] \in DOMAIN x.nodes /\ x.nodes[x.index[id]].id = id
  BY <1>1, ListFacts
<1>3. SUFFICES ASSUME bad # {} PROVE FALSE
  BY <1>2
<1>4. PICK i \in bad : \A j \in bad : i <= j
  <2>1. DOMAIN x.nodes = 1 .. Len(x.nodes)
    BY <1>1, ListFacts
  <2>2. bad \in SUBSET Nat
    BY <2>1
  <2> HIDE DEF bad
  <2> QED
    BY <1>3, <2>2, Least
<1>5. PICK op \in T : op.type = "insert" /\ op.id = x.nodes[i].id /\ op.after = x.nodes[i].after
  BY <1>4, SettledFacts
<1>6. op.after = Nil \/ op.after \in DOMAIN y.index
  <2> SUFFICES ASSUME op.after # Nil PROVE op.after \in DOMAIN y.index
    OBVIOUS
  <2>1. i \in 1 .. Len(x.nodes) /\ Len(x.nodes) \in Nat
    BY <1>1, <1>4, ListFacts
  <2>2. op.after \in DOMAIN x.index /\ Parents(x)[i] < i /\ Parents(x)[i] = x.index[op.after]
    BY <1>1, <1>5, <2>1, ListFacts DEF PositionOf
  <2>3. x.index[op.after] \in 1 .. Len(x.nodes)
    BY <1>1, <2>2, ListFacts
  <2>4. x.index[op.after] \notin bad
    BY <1>4, <2>1, <2>2, <2>3
  <2> QED
    BY <1>2, <2>2, <2>4
<1>7. op.id \in DOMAIN y.index
  BY <1>5, <1>6, SettledFacts DEF ready
<1> QED
  BY <1>4, <1>5, <1>7

(***************************************************************************)
(* Two lists of the same tree are the same: where they differ first, the   *)
(* two nodes are siblings, in different orders.                            *)
(***************************************************************************)
SameTree(x, y) ==
    /\ Listed(x) /\ Listed(y) /\ DOMAIN x.index = DOMAIN y.index
    /\ \A id \in DOMAIN x.index : x.nodes[x.index[id]].after = y.nodes[y.index[id]].after

AgreeBelow(x, y, m) ==
    \A id \in DOMAIN x.index : x.index[id] < m \/ y.index[id] < m => x.index[id] = y.index[id]

\* At the first position where two lists of one tree differ, priority decides.
LEMMA FirstDifference ==
    ASSUME NEW x, NEW y, SameTree(x, y), NEW a \in DOMAIN x.index,
           AgreeBelow(x, y, x.index[a]), x.index[a] < y.index[a]
    PROVE  FALSE
<1> DEFINE m == x.index[a]
           b == y.nodes[m].id
<1>1. Listed(x) /\ Listed(y) /\ DOMAIN x.index = DOMAIN y.index
  BY DEF SameTree
<1>2. Len(x.nodes) \in Nat /\ Len(y.nodes) \in Nat
  BY <1>1, ListFacts
<1>3. /\ m \in 1 .. Len(x.nodes) /\ x.nodes[m].id = a
      /\ y.index[a] \in 1 .. Len(y.nodes) /\ y.nodes[y.index[a]].id = a
  BY <1>1, ListFacts
<1>4. m \in 1 .. Len(y.nodes)
  BY <1>2, <1>3
<1>5. b \in DOMAIN x.index /\ y.index[b] = m
  BY <1>1, <1>4, ListFacts
<1>6. x.index[b] \in 1 .. Len(x.nodes) /\ x.nodes[x.index[b]].id = b
  <2> HIDE DEF b
  <2> QED
    BY <1>1, <1>5, ListFacts
<1>7. b # a /\ y.nodes[m].id = b
  BY <1>3, <1>5
<1>8. x.index[b] > m
  <2>1. x.index[b] # m
    BY <1>3, <1>6, <1>7
  <2>2. AgreeBelow(x, y, m)
    OBVIOUS
  <2> HIDE DEF m, b
  <2>3. x.index[b] < m => x.index[b] = m
    BY <1>5, <2>2 DEF AgreeBelow
  <2> QED
    BY <1>2, <1>3, <1>6, <2>1, <2>3
<1>9. /\ x.nodes[m].after = y.nodes[y.index[a]].after
      /\ x.nodes[x.index[b]].after = y.nodes[m].after
  BY <1>5 DEF SameTree
<1> HIDE DEF m, b
<1> DEFINE pa == PositionOf(x, x.nodes[m].after)
           pb == PositionOf(y, y.nodes[m].after)
<1>10. pa < m /\ pb < m /\ pa \in 0 .. Len(x.nodes) /\ pb \in 0 .. Len(y.nodes)
  <2>1. pa = Parents(x)[m] /\ pa < m /\ Parents(x)[m] \in 0 .. Len(x.nodes)
    BY <1>1, <1>3, ListFacts
  <2>2. pb = Parents(y)[m] /\ pb < m /\ Parents(y)[m] \in 0 .. Len(y.nodes)
    <3>1. Parents(y)[m] = PositionOf(y, y.nodes[m].after)
      BY <1>1, <1>4, ListFacts
    <3>2. Parents(y)[m] < m /\ Parents(y)[m] \in 0 .. Len(y.nodes)
      BY <1>1, <1>4, ListFacts
    <3> QED
      BY <3>1, <3>2
  <2> QED
    BY <2>1, <2>2
<1>11. PositionOf(y, x.nodes[m].after) = pa
  <2>1. x.nodes[m].after = Nil \/ x.nodes[m].after \in DOMAIN x.index
    BY <1>1, <1>3, ListFacts
  <2>2. AgreeBelow(x, y, m)
    BY DEF m
  <2> QED
    BY <1>10, <2>1, <2>2 DEF PositionOf, AgreeBelow
<1>12. PositionOf(x, y.nodes[m].after) = pb
  <2>1. y.nodes[m].after = Nil \/ y.nodes[m].after \in DOMAIN x.index
    BY <1>1, <1>4, ListFacts
  <2>2. AgreeBelow(x, y, m)
    BY DEF m
  <2> QED
    BY <1>10, <2>1, <2>2 DEF PositionOf, AgreeBelow
<1>13. /\ Parents(x)[m] = pa /\ Parents(x)[x.index[b]] = pb
       /\ IDs(x)[m] = a /\ IDs(x)[x.index[b]] = b
  <2>1. /\ Parents(x)[m] = pa
        /\ Parents(x)[x.index[b]] = PositionOf(x, x.nodes[x.index[b]].after)
    BY <1>1, <1>3, <1>6, ListFacts
  <2>2. IDs(x)[m] = a /\ IDs(x)[x.index[b]] = b
    BY <1>1, <1>3, <1>6, ListFacts
  <2> QED
    BY <1>9, <1>12, <2>1, <2>2
<1>14. /\ Parents(y)[m] = pb /\ Parents(y)[y.index[a]] = pa
       /\ IDs(y)[m] = b /\ IDs(y)[y.index[a]] = a
  <2>1. /\ Parents(y)[m] = pb
        /\ Parents(y)[y.index[a]] = PositionOf(y, y.nodes[y.index[a]].after)
    BY <1>1, <1>3, <1>4, ListFacts
  <2>2. IDs(y)[m] = b /\ IDs(y)[y.index[a]] = a
    BY <1>1, <1>3, <1>4, <1>7, ListFacts
  <2> QED
    BY <1>9, <1>11, <2>1, <2>2
<1>15. m < y.index[a]
  BY DEF m
<1>16. /\ Preorder(Len(x.nodes), Parents(x), IDs(x))
       /\ Preorder(Len(y.nodes), Parents(y), IDs(y))
  BY <1>1 DEF Listed
<1> HIDE DEF pa, pb
<1>17. pb <= pa /\ pa <= pb
  <2>1. pb < m /\ m < x.index[b] => pb <= pa
    BY <1>3, <1>6, <1>13, <1>16 DEF Preorder
  <2>2. pa < m /\ m < y.index[a] => pa <= pb
    BY <1>3, <1>4, <1>14, <1>16 DEF Preorder
  <2> QED
    BY <1>8, <1>10, <1>15, <2>1, <2>2
<1>18. pa = pb
  BY <1>10, <1>17
<1>19. nodeIDPriority(a, b) /\ nodeIDPriority(b, a)
  <2>1. nodeIDPriority(a, b)
    BY <1>3, <1>6, <1>8, <1>13, <1>16, <1>18 DEF Preorder
  <2>2. nodeIDPriority(b, a)
    BY <1>3, <1>4, <1>14, <1>15, <1>16, <1>18 DEF Preorder
  <2> QED
    BY <2>1, <2>2
<1>20. a \in LamportID /\ b \in LamportID
  BY <1>1, <1>5, ListFacts
<1> QED
  BY <1>19, <1>20, PriorityOrder

\* A tree has one order.
LEMMA SameOrder ==
    ASSUME NEW x, NEW y, SameTree(x, y)
    PROVE  \A id \in DOMAIN x.index : x.index[id] = y.index[id]
<1> DEFINE D == {id \in DOMAIN x.index : x.index[id] # y.index[id]}
           bad == {x.index[id] : id \in D} \cup {y.index[id] : id \in D}
<1>1. SUFFICES ASSUME D # {} PROVE FALSE
  OBVIOUS
<1>2. \A id \in DOMAIN x.index : x.index[id] \in Nat /\ y.index[id] \in Nat
  <2>1. \A id \in DOMAIN x.index : x.index[id] \in 1 .. Len(x.nodes)
    BY ListFacts DEF SameTree
  <2>2. \A id \in DOMAIN x.index : y.index[id] \in 1 .. Len(y.nodes)
    BY ListFacts DEF SameTree
  <2>3. Len(x.nodes) \in Nat /\ Len(y.nodes) \in Nat
    BY ListFacts DEF SameTree
  <2> QED
    BY <2>1, <2>2, <2>3
<1>3. PICK m \in bad : \A l \in bad : m <= l
  <2>1. bad \in SUBSET Nat /\ bad # {}
    BY <1>1, <1>2
  <2> HIDE DEF bad
  <2> QED
    BY <2>1, Least
<1>4. PICK a \in D : m = x.index[a] \/ m = y.index[a]
  BY <1>3
<1>5. AgreeBelow(x, y, m) /\ AgreeBelow(y, x, m)
  <2>1. \A id \in D : m <= x.index[id] /\ m <= y.index[id]
    BY <1>3
  <2>2. m \in Nat
    BY <1>2, <1>4
  <2>3. DOMAIN y.index = DOMAIN x.index
    BY DEF SameTree
  <2> QED
    BY <1>2, <2>1, <2>2, <2>3 DEF AgreeBelow
<1>6. CASE m = x.index[a]
  <2>1. x.index[a] < y.index[a]
    <3>1. y.index[a] \in bad
      BY <1>4
    <3>2. m <= y.index[a]
      BY <1>3, <3>1
    <3>3. x.index[a] \in Nat /\ y.index[a] \in Nat /\ x.index[a] # y.index[a]
      BY <1>2, <1>4
    <3> QED
      BY <1>6, <3>2, <3>3
  <2> QED
    BY <1>4, <1>5, <1>6, <2>1, FirstDifference
<1>7. CASE m = y.index[a]
  <2>1. y.index[a] < x.index[a]
    <3>1. x.index[a] \in bad
      BY <1>4
    <3>2. m <= x.index[a]
      BY <1>3, <3>1
    <3>3. x.index[a] \in Nat /\ y.index[a] \in Nat /\ x.index[a] # y.index[a]
      BY <1>2, <1>4
    <3> QED
      BY <1>7, <3>2, <3>3
  <2>2. SameTree(y, x) /\ a \in DOMAIN y.index
    BY <1>4 DEF SameTree
  <2> QED
    BY <1>5, <1>7, <2>1, <2>2, FirstDifference
<1> QED
  BY <1>4, <1>6, <1>7

(***************************************************************************)
(* Two replicas that have seen the same operations have the same list.     *)
(***************************************************************************)
LEMMA Converges ==
    ASSUME NEW x, NEW y, NEW T, Settled(x, T), Settled(y, T)
    PROVE  x.nodes = y.nodes
<1>1. Listed(x) /\ Listed(y)
  BY SettledFacts
<1>2. DOMAIN x.index = DOMAIN y.index
  BY SameIDs
<1>3. /\ DOMAIN x.nodes = 1 .. Len(x.nodes) /\ Len(x.nodes) \in Nat
      /\ DOMAIN y.nodes = 1 .. Len(y.nodes) /\ Len(y.nodes) \in Nat
  BY <1>1, ListFacts
<1>4. /\ \A id \in DOMAIN x.index : x.index[id] \in DOMAIN x.nodes /\ x.nodes[x.index[id]].id = id
      /\ \A id \in DOMAIN x.index : y.index[id] \in DOMAIN y.nodes /\ y.nodes[y.index[id]].id = id
  BY <1>1, <1>2, ListFacts
<1>5. ASSUME NEW id \in DOMAIN x.index
      PROVE  /\ x.nodes[x.index[id]].after = y.nodes[y.index[id]].after
             /\ x.nodes[x.index[id]].auth = y.nodes[y.index[id]].auth
             /\ x.nodes[x.index[id]].deleted <=> y.nodes[y.index[id]].deleted
  <2> DEFINE i == x.index[id]
             j == y.index[id]
  <2>1. i \in DOMAIN x.nodes /\ j \in DOMAIN y.nodes /\ x.nodes[i].id = id /\ y.nodes[j].id = id
    BY <1>4
  <2> HIDE DEF i, j
  <2>2. PICK o \in T : /\ o.type = "insert" /\ o.id = id
                       /\ o.after = x.nodes[i].after /\ o.auth = x.nodes[i].auth
    BY <2>1, SettledFacts
  <2>3. PICK p \in T : /\ p.type = "insert" /\ p.id = id
                       /\ p.after = y.nodes[j].after /\ p.auth = y.nodes[j].auth
    BY <2>1, SettledFacts
  <2>4. o = p
    BY <2>2, <2>3 DEF Settled, Covers, OperationSet
  <2>5. x.nodes[i].deleted <=> \E op \in T : op.type = "delete" /\ op.id = id
    BY <2>1, SettledFacts
  <2>6. y.nodes[j].deleted <=> \E op \in T : op.type = "delete" /\ op.id = id
    BY <2>1, SettledFacts
  <2> QED
    BY <2>2, <2>3, <2>4, <2>5, <2>6 DEF i, j
<1>6. \A id \in DOMAIN x.index : x.index[id] = y.index[id]
  <2>1. SameTree(x, y)
    BY <1>1, <1>2, <1>5 DEF SameTree
  <2> QED
    BY <2>1, SameOrder, Zenon
<1>7. \A i \in DOMAIN x.nodes : x.nodes[i].id \in DOMAIN x.index /\ x.index[x.nodes[i].id] = i
  BY <1>1, <1>3, ListFacts
<1>8. \A i \in DOMAIN y.nodes : y.nodes[i].id \in DOMAIN x.index /\ y.index[y.nodes[i].id] = i
  BY <1>1, <1>2, <1>3, ListFacts
<1>9. DOMAIN x.nodes = DOMAIN y.nodes
  <2>1. \A i \in DOMAIN x.nodes : i \in DOMAIN y.nodes
    BY <1>4, <1>6, <1>7
  <2>2. \A i \in DOMAIN y.nodes : i \in DOMAIN x.nodes
    BY <1>4, <1>6, <1>8
  <2> QED
    BY <2>1, <2>2
<1>10. Len(x.nodes) = Len(y.nodes)
  BY <1>3, <1>9
<1>11. ASSUME NEW i \in DOMAIN x.nodes PROVE x.nodes[i] = y.nodes[i]
  <2> DEFINE id == x.nodes[i].id
  <2>1. id \in DOMAIN x.index /\ x.index[id] = i /\ y.index[id] = i
    BY <1>6, <1>7
  <2>2. x.nodes[i].id = y.nodes[i].id
    BY <1>4, <2>1
  <2>3. /\ x.nodes[i].after = y.nodes[i].after /\ x.nodes[i].auth = y.nodes[i].auth
        /\ x.nodes[i].deleted <=> y.nodes[i].deleted
    BY <1>5, <2>1
  <2>4. x.nodes[i] \in ListNode /\ y.nodes[i] \in ListNode
    BY <1>1, <1>3, <1>9, ListFacts
  <2> QED
    BY <2>2, <2>3, <2>4 DEF ListNode
<1>12. x.nodes \in Seq(ListNode) /\ y.nodes \in Seq(ListNode)
  BY <1>1 DEF Listed
<1> QED
  BY <1>3, <1>10, <1>11, <1>12, SeqEqual

-----------------------------------------------------------------------------
(***************************************************************************)
(* A node newer than all others lands directly right of its After, and the *)
(* buffer has nothing that waited for it.                                  *)
(***************************************************************************)
Newest(x, T, op) ==
    /\ \A o \in T : o.id # op.id /\ o.after # op.id
    /\ \A id \in DOMAIN x.index : id.ts < op.id.ts

\* Apply puts a node with the newest id directly right of its After.
LEMMA InsertLands ==
    ASSUME NEW x, NEW T, NEW op, Done(x), MayTake(x, T, op), op.req \notin x.seen,
           op.type = "insert", ready(x, op), Newest(x, T, op)
    PROVE  Apply(x, op).index[op.id] = PositionOf(Apply(x, op), op.after) + 1
<1> DEFINE k == Known(x, op)
           a == flushOp(k, op)
           y == Apply(x, op)
           U == T \cup {op}
           at == insertIdx(k, op)
           q == PositionOf(k, op.after)
<1>1. /\ MayTake(k, T, op) /\ y = flushPending(a)
  BY ApplyFlushes
<1> HIDE DEF y
<1>2. k.nodes = x.nodes /\ k.index = x.index /\ k.pending = x.pending
  BY DEF Known
<1>3. ready(k, op)
  BY <1>2 DEF ready
<1> HIDE DEF k
<1>4. a = applyInsert(k, op)
  BY <1>3 DEF flushOp, applyOp
<1>5. Flushed(k, T, op, a)
  BY <1>1, FlushesOp, Zenon
<1> HIDE DEF a
<1>6. Covers(a, U) /\ a.pending = k.pending
  BY <1>3, <1>5 DEF Flushed
<1>7. Listed(k) /\ IsReplica(k) /\ IsOperation(op) /\ k.pending \in Seq(T)
  BY <1>1 DEF MayTake, Covers, Holds, OperationSet
<1>8. op.after = Nil \/ op.after \in DOMAIN k.index
  BY <1>3 DEF ready
<1>9. op.id \notin DOMAIN k.index /\ op.id \in LamportID
  BY <1>2, <1>7 DEF Newest, IsOperation, LamportID
<1>10. /\ q \in 0 .. Len(k.nodes)
       /\ Stops(Len(k.nodes), Parents(k), IDs(k), q, op.id, q + 1) => at = q + 1
  BY <1>7, <1>8, <1>9, InsertPlace
<1>11. Stops(Len(k.nodes), Parents(k), IDs(k), q, op.id, q + 1)
  <2> SUFFICES ASSUME q + 1 <= Len(k.nodes) PROVE nodeIDPriority(op.id, IDs(k)[q + 1])
    BY DEF Stops
  <2> HIDE DEF q
  <2>1. q + 1 \in 1 .. Len(k.nodes)
    BY <1>10
  <2>2. IDs(k)[q + 1] \in DOMAIN k.index /\ IDs(k)[q + 1] \in LamportID
    <3>1. /\ IDs(k)[q + 1] = k.nodes[q + 1].id
          /\ k.nodes[q + 1].id \in DOMAIN k.index /\ k.nodes[q + 1].id \in LamportID
      BY <1>7, <2>1, ListFacts
    <3> QED
      BY <3>1
  <2> QED
    BY <1>2, <1>9, <2>2 DEF nodeIDPriority, Newest, LamportID
<1>12. at = q + 1
  BY <1>10, <1>11
<1>13. Puts(k, op, at, a)
  BY <1>4, <1>7, ApplyInsertPuts
<1> HIDE DEF at
<1>14. /\ DOMAIN a.index = DOMAIN k.index \cup {op.id}
       /\ a.index[op.id] = at
       /\ \A id \in DOMAIN k.index : a.index[id] = Moved(at, k.index[id])
  BY <1>7, <1>8, <1>9, <1>13, InsertListed
<1>15. a.index[op.id] = PositionOf(a, op.after) + 1
  <2>1. CASE op.after = Nil
    BY <1>12, <1>14, <2>1 DEF PositionOf
  <2>2. CASE op.after # Nil
    <3>1. q = k.index[op.after] /\ op.after \in DOMAIN k.index
      BY <1>8, <2>2 DEF PositionOf
    <3>2. Moved(at, q) = q
      BY <1>10, <1>12 DEF Moved
    <3> HIDE DEF q
    <3> QED
      BY <1>12, <1>14, <2>2, <3>1, <3>2 DEF PositionOf
  <2> QED
    BY <2>1, <2>2
<1>16. Done(a)
  <2> SUFFICES ASSUME NEW i \in DOMAIN x.pending PROVE ~ready(a, x.pending[i])
    BY <1>2, <1>6 DEF Done
  <2>1. x.pending[i] \in T
    BY <1>2, <1>7
  <2>2. ~ready(x, x.pending[i])
    BY DEF Done
  <2> QED
    BY <1>2, <1>14, <2>1, <2>2 DEF ready, Newest
<1>17. Settles(a, U, y)
  <2> HIDE DEF U
  <2> QED
    BY <1>1, <1>6, FlushSettles, Zenon
<1> QED
  BY <1>15, <1>16, <1>17 DEF Settles, y

-----------------------------------------------------------------------------
(***************************************************************************)
(* The index that ImportRGA builds is the one Apply has kept.              *)
(***************************************************************************)
LEMMA Reimported ==
    ASSUME NEW x, Listed(x), IsReplica(x)
    PROVE  ImportRGA(Export(x)) = x
<1> DEFINE empty == NewRGA.index
           new == reindex(empty, x.nodes, 1)
           ids == DOMAIN x.index
<1>1. DOMAIN empty = {}
  BY DEF NewRGA
<1> HIDE DEF empty
<1>2. /\ Len(x.nodes) \in Nat /\ x.nodes \in Seq(ListNode)
      /\ \A i \in 1 .. Len(x.nodes) : x.nodes[i].id \in ids /\ x.index[x.nodes[i].id] = i
      /\ \A id \in ids : /\ x.index[id] \in 1 .. Len(x.nodes)
                         /\ x.nodes[x.index[id]].id = id
      /\ \A i, j \in 1 .. Len(x.nodes) : x.nodes[i].id = x.nodes[j].id => i = j
  <2>1. Len(x.nodes) \in Nat /\ x.nodes \in Seq(ListNode)
    BY DEF Listed
  <2>2. \A i \in 1 .. Len(x.nodes) : x.nodes[i].id \in ids /\ x.index[x.nodes[i].id] = i
    BY ListFacts
  <2>3. \A id \in ids : /\ x.index[id] \in 1 .. Len(x.nodes)
                        /\ x.nodes[x.index[id]].id = id
    BY ListFacts
  <2> QED
    BY <2>1, <2>2, <2>3
<1> HIDE DEF ids
<1>3. IndexedUpTo(x.nodes, empty, 1, ids)
  BY <1>1, <1>2 DEF IndexedUpTo
<1>4. new \in [ids -> 1 .. Len(x.nodes)] /\ \A i \in 1 .. Len(x.nodes) : new[x.nodes[i].id] = i
  BY <1>3, Reindexed
<1> HIDE DEF new
<1>5. \A id \in ids : new[id] = x.index[id]
  BY <1>2, <1>4
<1>6. new = x.index
  <2>1. x.index = [id \in ids |-> x.index[id]]
    BY DEF Listed, ids
  <2> QED
    BY <1>4, <1>5, <2>1
<1> QED
  BY <1>6 DEF ImportRGA, Export, IsReplica, new, empty

\* A replica that has seen nothing.
LEMMA Starts ==
    Settled(NewRGA, {}) /\ NewRGA.seen = {} /\ NewRGA.counter = 0
<1> DEFINE x == NewRGA
<1>1. /\ x.nodes = <<>> /\ x.pending = <<>> /\ x.seen = {} /\ x.counter = 0
      /\ x.index = [id \in {} |-> 0] /\ IsReplica(x)
  BY DEF NewRGA, IsReplica
<1> HIDE DEF x
<1>2. DOMAIN x.nodes = {} /\ DOMAIN x.pending = {} /\ DOMAIN x.index = {}
  BY <1>1
<1>3. Listed(x)
  <2>1. ListIDs(x) = {}
    BY <1>2 DEF ListIDs
  <2>2. Len(x.nodes) = 0 /\ 1 .. 0 = {}
    BY <1>1
  <2>3. Preorder(Len(x.nodes), Parents(x), IDs(x))
    BY <2>2 DEF Preorder
  <2>4. x.nodes \in Seq(ListNode) /\ x.index \in [ListIDs(x) -> DOMAIN x.nodes]
    BY <1>1, <1>2, <2>1
  <2> QED
    BY <1>2, <2>3, <2>4 DEF Listed
<1>4. Waiting(x) = {} /\ OperationSet({})
  BY <1>2 DEF Waiting, OperationSet
<1>5. Holds(x, {} \ Waiting(x))
  BY <1>1, <1>2, <1>3 DEF Holds
<1>6. Covers(x, {})
  BY <1>1, <1>2, <1>4, <1>5 DEF Covers
<1> QED
  BY <1>1, <1>2, <1>6 DEF Settled, Done, x
=============================================================================
