--------------------------- MODULE SchedulerProofs ---------------------------
(***************************************************************************)
(* NewScheduler is correct for every list of systems and every list of     *)
(* phases.  The argument is the one for Kahn's algorithm: what is sorted   *)
(* is closed under dependencies, and when the queue runs empty before all  *)
(* of a phase is sorted, no order of the phase exists.                     *)
(***************************************************************************)
EXTENDS Scheduler, FiniteSetTheorems, FunctionTheorems, SequenceTheorems, TLAPS

-----------------------------------------------------------------------------
(***************************************************************************)
(* Lists and their sublists.                                               *)
(***************************************************************************)

(***************************************************************************)
(* Counting from 1 to the size of a set of positions, Nth goes through the *)
(* set and meets each position once.                                       *)
(***************************************************************************)
LEMMA NthEnumerates ==
    ASSUME NEW m \in Nat, NEW I \in SUBSET (1 .. m)
    PROVE  /\ IsFiniteSet(I) /\ Cardinality(I) \in Nat
           /\ \A k \in 1 .. Cardinality(I) : Nth(I, k) \in I
           /\ \A i \in I : \E k \in 1 .. Cardinality(I) : Nth(I, k) = i
           /\ \A k, l \in 1 .. Cardinality(I) : Nth(I, k) = Nth(I, l) => k = l
           /\ \A k \in 1 .. Cardinality(I) : Cardinality({j \in I : j <= Nth(I, k)}) = k
<1> DEFINE n == Cardinality(I)
           upto(i) == {j \in I : j <= i}
           rank == [i \in I |-> Cardinality(upto(i))]
<1>1. IsFiniteSet(1 .. m)
  <2>1. 1 \in Int /\ m \in Int
    OBVIOUS
  <2> QED
    BY <2>1, FS_Interval, Zenon
<1>2. IsFiniteSet(I) /\ n \in Nat
  BY <1>1, FS_Subset, FS_CardinalityType
<1>3. \A i \in I : IsFiniteSet(upto(i)) /\ Cardinality(upto(i)) \in Nat
                   /\ Cardinality(upto(i)) <= n
  <2> SUFFICES ASSUME NEW i \in I
               PROVE  IsFiniteSet(upto(i)) /\ Cardinality(upto(i)) \in Nat
                      /\ Cardinality(upto(i)) <= n
    OBVIOUS
  <2>1. upto(i) \in SUBSET I
    OBVIOUS
  <2> HIDE DEF upto
  <2>2. IsFiniteSet(upto(i)) /\ Cardinality(upto(i)) <= n
    BY <1>2, <2>1, FS_Subset
  <2> QED
    BY <2>2, FS_CardinalityType
<1>4. \A i \in I : i \in upto(i)
  OBVIOUS
<1>5. \A i \in I : Cardinality(upto(i)) # 0
  <2> HIDE DEF upto
  <2> QED
    BY <1>3, <1>4, FS_EmptySet
<1>6. rank \in [I -> 1 .. n]
  <2> HIDE DEF upto
  <2>1. \A i \in I : Cardinality(upto(i)) \in 1 .. n
    BY <1>2, <1>3, <1>5
  <2> QED
    BY <2>1
<1>7. ASSUME NEW i \in I, NEW j \in I, i < j PROVE rank[i] # rank[j]
  <2>0. \A l \in I : l \in Int
    OBVIOUS
  <2>1. upto(i) \in SUBSET upto(j) /\ j \in upto(j) /\ j \notin upto(i)
    <3>1. \A l \in upto(i) : l \in I /\ l <= i
      OBVIOUS
    <3>2. \A l \in I : l <= j => l \in upto(j)
      OBVIOUS
    <3> HIDE DEF upto
    <3>3. upto(i) \subseteq upto(j)
      <4>1. \A l \in I : l <= i => l <= j
        BY <1>7, <2>0
      <4> QED
        BY <3>1, <3>2, <4>1, Zenon
    <3>4. j \in upto(j) /\ j \notin upto(i)
      BY <1>7, <2>0, <3>1, <3>2
    <3> QED
      BY <3>3, <3>4
  <2> HIDE DEF upto
  <2>2. Cardinality(upto(i)) # Cardinality(upto(j))
    BY <1>3, <2>1, FS_Subset
  <2> QED
    BY <2>2
<1>8. \A i, j \in I : rank[i] = rank[j] => i = j
  <2> HIDE DEF rank
  <2>1. \A i, j \in I : i = j \/ i < j \/ j < i
    OBVIOUS
  <2> QED
    BY <1>7, <2>1
<1>9. \A k \in 1 .. n : \E i \in I : rank[i] = k
  <2> HIDE DEF rank
  <2>1. rank \in Injection(I, 1 .. n)
    BY <1>6, <1>8, Fun_IsInj
  <2>2. IsFiniteSet(1 .. n) /\ Cardinality(1 .. n) = n
    <3>1. 1 \in Int /\ n \in Int
      BY <1>2
    <3> HIDE DEF n
    <3>2. IsFiniteSet(1 .. n) /\ Cardinality(1 .. n) = IF 1 > n THEN 0 ELSE n - 1 + 1
      BY <3>1, FS_Interval, Zenon
    <3> QED
      BY <1>2, <3>2
  <2>3. rank \in Surjection(I, 1 .. n)
    BY <2>1, <2>2, FS_Injection
  <2> QED
    BY <2>3, Fun_SurjectionProperties
<1>10. \A k \in 1 .. n : /\ Nth(I, k) \in I /\ rank[Nth(I, k)] = k
                          /\ Cardinality({j \in I : j <= Nth(I, k)}) = k
  <2> SUFFICES ASSUME NEW k \in 1 .. n
               PROVE  /\ Nth(I, k) \in I /\ rank[Nth(I, k)] = k
                      /\ Cardinality({j \in I : j <= Nth(I, k)}) = k
    OBVIOUS
  <2>1. PICK i \in I : rank[i] = k
    BY <1>9
  <2>2. Cardinality({j \in I : j <= i}) = k
    BY <2>1
  <2>3. Nth(I, k) \in I /\ Cardinality({j \in I : j <= Nth(I, k)}) = k
    BY <2>2, Zenon DEF Nth
  <2> QED
    BY <2>3
<1> HIDE DEF rank, n
<1>11. \A i \in I : \E k \in 1 .. n : Nth(I, k) = i
  <2>1. \A k \in 1 .. n : Nth(I, k) \in I /\ rank[Nth(I, k)] = k
    BY <1>10
  <2> QED
    BY <1>6, <1>8, <2>1
<1>12. \A k, l \in 1 .. n : Nth(I, k) = Nth(I, l) => k = l
  BY <1>10
<1> QED
  BY <1>2, <1>10, <1>11, <1>12 DEF n

\* A set of positions that is not empty has a first one.
LEMMA FirstPosition ==
    ASSUME NEW m \in Nat, NEW I \in SUBSET (1 .. m), I # {}
    PROVE  \E i \in I : \A j \in I : i <= j
<1> DEFINE i == Nth(I, 1)
           U == {j \in I : j <= i}
<1>1. IsFiniteSet(I) /\ Cardinality(I) \in Nat /\ Cardinality(I) # 0
  BY NthEnumerates, FS_EmptySet
<1>2. i \in I /\ Cardinality(U) = 1
  <2>1. 1 \in 1 .. Cardinality(I)
    BY <1>1
  <2> QED
    BY <2>1, NthEnumerates, Zenon
<1>3. U \in SUBSET I /\ i \in U
  <2> HIDE DEF i
  <2>1. i <= i
    BY <1>2
  <2> QED
    BY <1>2, <2>1
<1>4. \A j \in I : j <= i => j \in U
  OBVIOUS
<1> HIDE DEF i, U
<1>5. U = {i}
  <2>1. IsFiniteSet(U)
    BY <1>1, <1>3, FS_Subset
  <2>2. {i} \in SUBSET U /\ Cardinality({i}) = 1
    BY <1>3, FS_Singleton
  <2> QED
    BY <1>2, <2>1, <2>2, FS_Subset
<1>6. ASSUME NEW j \in I PROVE i <= j
  <2>1. i \in Int /\ j \in Int
    BY <1>2
  <2>2. j <= i => j = i
    BY <1>4, <1>5
  <2> QED
    BY <2>1, <2>2
<1> QED
  BY <1>2, <1>6

\* What two lists hold one after the other.
LEMMA ConcatHolds ==
    ASSUME NEW T, NEW s \in Seq(T), NEW t \in Seq(T)
    PROVE  /\ Range(s \o t) = Range(s) \union Range(t)
           /\ IsInjective(s \o t) <=>
                 /\ IsInjective(s) /\ IsInjective(t)
                 /\ Range(s) \intersect Range(t) = {}
<1> DEFINE m == Len(s)
           n == Len(t)
           c == s \o t
<1>1. /\ m \in Nat /\ n \in Nat
      /\ DOMAIN s = 1 .. m /\ DOMAIN t = 1 .. n /\ DOMAIN c = 1 .. m + n
      /\ \A i \in 1 .. m : c[i] = s[i]
      /\ \A i \in 1 .. m + n : i > m => c[i] = t[i - m]
  OBVIOUS
<1> HIDE DEF m, n, c
<1>2. \A i \in 1 .. n : m + i \in 1 .. m + n /\ c[m + i] = t[i]
  BY <1>1
<1>3. \A i \in 1 .. m + n : i \in 1 .. m \/ (i > m /\ i - m \in 1 .. n /\ c[i] = t[i - m])
  BY <1>1
<1>4. \A i \in 1 .. m : i \in 1 .. m + n
  BY <1>1
<1>5. Range(c) = Range(s) \union Range(t)
  <2>1. Range(c) \subseteq Range(s) \union Range(t)
    BY <1>1, <1>3 DEF Range
  <2>2. Range(s) \subseteq Range(c)
    BY <1>1, <1>4 DEF Range
  <2>3. Range(t) \subseteq Range(c)
    BY <1>1, <1>2 DEF Range
  <2> QED
    BY <2>1, <2>2, <2>3
<1>6. ASSUME IsInjective(c)
      PROVE  IsInjective(s) /\ IsInjective(t) /\ Range(s) \intersect Range(t) = {}
  <2>1. IsInjective(s)
    BY <1>1, <1>4, <1>6 DEF IsInjective
  <2>2. IsInjective(t)
    <3> SUFFICES ASSUME NEW i \in 1 .. n, NEW j \in 1 .. n, t[i] = t[j] PROVE i = j
      BY <1>1 DEF IsInjective
    <3>1. m + i \in DOMAIN c /\ m + j \in DOMAIN c /\ c[m + i] = c[m + j]
      BY <1>1, <1>2
    <3>2. m + i = m + j
      BY <1>6, <3>1 DEF IsInjective
    <3> QED
      BY <1>1, <3>2
  <2>3. Range(s) \intersect Range(t) = {}
    <3> SUFFICES ASSUME NEW i \in 1 .. m, NEW j \in 1 .. n, s[i] = t[j] PROVE FALSE
      BY <1>1 DEF Range
    <3>1. i \in DOMAIN c /\ m + j \in DOMAIN c /\ c[i] = c[m + j] /\ i # m + j
      BY <1>1, <1>2, <1>4
    <3> QED
      BY <1>6, <3>1 DEF IsInjective
  <2> QED
    BY <2>1, <2>2, <2>3
<1>7. ASSUME IsInjective(s), IsInjective(t), Range(s) \intersect Range(t) = {}
      PROVE  IsInjective(c)
  <2>1. \A i \in 1 .. m : \A j \in 1 .. n : s[i] # t[j]
    BY <1>1, <1>7 DEF Range
  <2> SUFFICES ASSUME NEW i \in 1 .. m + n, NEW j \in 1 .. m + n, c[i] = c[j] PROVE i = j
    BY <1>1 DEF IsInjective
  <2>2. CASE i \in 1 .. m /\ j \in 1 .. m
    BY <1>1, <1>7, <2>2 DEF IsInjective
  <2>3. CASE i \notin 1 .. m /\ j \notin 1 .. m
    <3>1. i - m \in 1 .. n /\ j - m \in 1 .. n /\ t[i - m] = t[j - m]
      BY <1>3, <2>3
    <3>2. i - m = j - m
      BY <1>1, <1>7, <3>1 DEF IsInjective
    <3> QED
      BY <1>1, <3>2
  <2>4. CASE i \in 1 .. m /\ j \notin 1 .. m
    BY <1>1, <1>3, <2>1, <2>4
  <2>5. CASE i \notin 1 .. m /\ j \in 1 .. m
    BY <1>1, <1>3, <2>1, <2>5
  <2> QED
    BY <2>2, <2>3, <2>4, <2>5
<1> QED
  BY <1>5, <1>6, <1>7 DEF c

\* What a sublist holds: the elements at the positions, and each once if it was once before.
LEMMA SublistHolds ==
    ASSUME NEW s, NEW m \in Nat, DOMAIN s = 1 .. m, NEW I \in SUBSET (1 .. m)
    PROVE  /\ Cardinality(I) \in Nat
           /\ Len(Sublist(s, I)) = Cardinality(I)
           /\ DOMAIN Sublist(s, I) = 1 .. Cardinality(I)
           /\ \A T : (\A i \in I : s[i] \in T) => Sublist(s, I) \in Seq(T)
           /\ \A k \in DOMAIN Sublist(s, I) : \E i \in I : Sublist(s, I)[k] = s[i]
           /\ \A i \in I : \E k \in DOMAIN Sublist(s, I) : Sublist(s, I)[k] = s[i]
           /\ IsInjective(s) => IsInjective(Sublist(s, I))
<1> DEFINE n == Cardinality(I)
           q == Sublist(s, I)
<1>1. /\ n \in Nat
      /\ \A k \in 1 .. n : Nth(I, k) \in I
      /\ \A i \in I : \E k \in 1 .. n : Nth(I, k) = i
      /\ \A k, l \in 1 .. n : Nth(I, k) = Nth(I, l) => k = l
  BY NthEnumerates
<1>2. q = [k \in 1 .. n |-> s[Nth(I, k)]]
  BY DEF Sublist
<1> HIDE DEF n, q
<1>3. DOMAIN q = 1 .. n /\ \A k \in 1 .. n : q[k] = s[Nth(I, k)]
  BY <1>2
<1>4. ASSUME NEW T, \A i \in I : s[i] \in T PROVE q \in Seq(T)
  <2>1. q \in [1 .. n -> T]
    BY <1>1, <1>2, <1>4
  <2> QED
    BY <1>1, <2>1
<1>5. Len(q) = n
  BY <1>1, <1>2
<1>6. \A k \in 1 .. n : \E i \in I : q[k] = s[i]
  BY <1>1, <1>3
<1>7. \A i \in I : \E k \in 1 .. n : q[k] = s[i]
  BY <1>1, <1>3
<1>8. IsInjective(s) => IsInjective(q)
  <2> SUFFICES ASSUME IsInjective(s), NEW k \in 1 .. n, NEW l \in 1 .. n, q[k] = q[l]
               PROVE  k = l
    BY <1>3 DEF IsInjective
  <2>1. Nth(I, k) \in DOMAIN s /\ Nth(I, l) \in DOMAIN s /\ s[Nth(I, k)] = s[Nth(I, l)]
    BY <1>1, <1>3
  <2>2. Nth(I, k) = Nth(I, l)
    BY <2>1 DEF IsInjective
  <2> QED
    BY <1>1, <2>2
<1> QED
  BY <1>1, <1>3, <1>4, <1>5, <1>6, <1>7, <1>8 DEF n, q

(***************************************************************************)
(* A list has as many different elements as it is long exactly when it     *)
(* holds nothing twice.                                                    *)
(***************************************************************************)
LEMMA InjectiveSize ==
    ASSUME NEW s, NEW m \in Nat, NEW T, s \in [1 .. m -> T]
    PROVE  /\ IsFiniteSet(Range(s))
           /\ Cardinality(Range(s)) = m <=> IsInjective(s)
<1>1. s \in Surjection(1 .. m, Range(s))
  BY Fun_RangeProperties
<1>2. IsFiniteSet(1 .. m) /\ Cardinality(1 .. m) = m
  <2>1. 1 \in Int /\ m \in Int
    OBVIOUS
  <2>2. IsFiniteSet(1 .. m) /\ Cardinality(1 .. m) = IF 1 > m THEN 0 ELSE m - 1 + 1
    BY <2>1, FS_Interval, Zenon
  <2> QED
    BY <2>2
<1>3. /\ IsFiniteSet(Range(s))
      /\ Cardinality(Range(s)) = m <=> s \in Injection(1 .. m, Range(s))
  BY <1>1, <1>2, FS_Surjection
<1>4. s \in [1 .. m -> Range(s)]
  BY <1>1, Fun_SurjectionProperties
<1> QED
  BY <1>3, <1>4 DEF Injection

-----------------------------------------------------------------------------
(***************************************************************************)
(* The inductive invariant.                                                *)
(***************************************************************************)

Names == Range(Ids(Current))

After(id) == Lookup(id).after

\* Every dependency is a system of the phase.
Known == \A i \in DOMAIN Current : Range(Current[i].after) \subseteq Names

\* The entries of the After list that are not sorted yet.
Waiting(id) == {i \in DOMAIN After(id) : After(id)[i] \notin Range(sorted)}

(***************************************************************************)
(* While a phase is sorted: degrees count what a system waits for, the     *)
(* ones that wait for nothing are sorted or queued, once, and each sorted  *)
(* one comes after its dependencies.                                       *)
(***************************************************************************)
Sorting ==
    /\ phase \in DOMAIN Phases /\ Known
    /\ sorted \in Seq(Names) /\ queue \in Seq(Names)
    /\ DOMAIN inDegree = Names
    /\ \A id \in Names : inDegree[id] = Cardinality(Waiting(id))
    /\ IsInjective(sorted \o queue)
    /\ \A id \in Names : id \in Range(sorted) \union Range(queue) <=> inDegree[id] = 0
    /\ \A k \in DOMAIN sorted : \A dep \in Range(After(sorted[k])) :
           \E j \in DOMAIN sorted : j < k /\ sorted[j] = dep

Distinct == NoId \notin Range(Ids(systems)) /\ IsInjective(Ids(systems))

\* The phases that are done have valid orders.
Orders ==
    /\ ordered \in Seq(Seq(Range(Ids(systems)))) /\ Len(ordered) = phase - 1
    /\ \A k \in 1 .. phase - 1 : ValidOrder(ordered[k], Phases[k])

Codes == {"validate", "count", "sort", "ok", "empty_system_id", "duplicate_system_id",
          "missing_dependency", "cyclic_dependency"}

\* What the algorithm knows when it is at each place, and when it has given up.
Places ==
    /\ pc \in Codes
    /\ pc \in {"empty_system_id", "duplicate_system_id"} => ~Distinct
    /\ pc \notin {"validate", "empty_system_id", "duplicate_system_id"} => Distinct
    /\ pc = "sort" => Sorting
    /\ pc = "cyclic_dependency" => Sorting /\ queue = <<>> /\ Len(sorted) # Len(Current)
    /\ pc = "missing_dependency" => phase \in DOMAIN Phases /\ ~Known
    /\ pc = "ok" => phase > Len(Phases)

IInv ==
    /\ systems \in Inputs
    /\ phase \in 1 .. Len(Phases) + 1
    /\ Orders
    /\ Places

-----------------------------------------------------------------------------
\* The argument is a list of systems with lists of dependencies.
LEMMA InputLists ==
    ASSUME systems \in Inputs
    PROVE  /\ Len(systems) \in Nat /\ DOMAIN systems = 1 .. Len(systems)
           /\ systems \in [1 .. Len(systems) -> Range(systems)]
           /\ \A i \in DOMAIN systems : IsList(systems[i].after)
           /\ DOMAIN Ids(systems) = 1 .. Len(systems)
           /\ Ids(systems) \in [1 .. Len(systems) -> Range(Ids(systems))]
           /\ \A i \in DOMAIN systems : Ids(systems)[i] = systems[i].id
<1>1. systems \in Seq(Range(systems)) /\ \A i \in DOMAIN systems : IsList(systems[i].after)
  BY ListAssumption DEF IsList
<1>2. /\ Len(systems) \in Nat /\ DOMAIN systems = 1 .. Len(systems)
      /\ systems \in [1 .. Len(systems) -> Range(systems)]
  BY <1>1
<1>3. Ids(systems) = [i \in 1 .. Len(systems) |-> systems[i].id]
  BY <1>2 DEF Ids
<1>4. Ids(systems) \in [1 .. Len(systems) -> Range(Ids(systems))]
  BY <1>3 DEF Range
<1> QED
  BY <1>1, <1>2, <1>3, <1>4

\* The systems of a phase, and their ids, are lists without repetition.
LEMMA PhaseLists ==
    ASSUME systems \in Inputs, IsInjective(Ids(systems)), NEW p
    PROVE  /\ Len(InPhase(p)) \in Nat
           /\ DOMAIN InPhase(p) = 1 .. Len(InPhase(p))
           /\ \A i \in DOMAIN InPhase(p) : IsList(InPhase(p)[i].after)
           /\ DOMAIN Ids(InPhase(p)) = 1 .. Len(InPhase(p))
           /\ \A i \in DOMAIN InPhase(p) : Ids(InPhase(p))[i] = InPhase(p)[i].id
           /\ Ids(InPhase(p)) \in [1 .. Len(InPhase(p)) -> Range(Ids(InPhase(p)))]
           /\ IsInjective(Ids(InPhase(p)))
           /\ Range(Ids(InPhase(p))) \subseteq Range(Ids(systems))
<1> DEFINE I == {i \in DOMAIN systems : systems[i].phase = p}
           q == InPhase(p)
           ids == Ids(q)
<1>1. /\ Len(systems) \in Nat /\ DOMAIN systems = 1 .. Len(systems)
      /\ \A i \in DOMAIN systems : IsList(systems[i].after)
      /\ DOMAIN Ids(systems) = 1 .. Len(systems)
      /\ \A i \in DOMAIN systems : Ids(systems)[i] = systems[i].id
  BY InputLists
<1>2. I \in SUBSET (1 .. Len(systems))
  BY <1>1
<1>3. q = Sublist(systems, I)
  BY DEF InPhase
<1>4. \A i, j \in DOMAIN systems : systems[i].id = systems[j].id => i = j
  BY <1>1 DEF IsInjective
<1>5. IsInjective(systems)
  BY <1>4 DEF IsInjective
<1> HIDE DEF I
<1>6. /\ Cardinality(I) \in Nat
      /\ Len(q) = Cardinality(I)
      /\ DOMAIN q = 1 .. Cardinality(I)
      /\ \A k \in DOMAIN q : \E i \in I : q[k] = systems[i]
      /\ IsInjective(q)
  BY <1>1, <1>2, <1>3, <1>5, SublistHolds
<1> HIDE DEF q
<1>7. \A k \in DOMAIN q : \E i \in DOMAIN systems : q[k] = systems[i]
  BY <1>1, <1>2, <1>6
<1>8. \A k \in DOMAIN q : IsList(q[k].after)
  BY <1>1, <1>7
<1>9. ids = [k \in DOMAIN q |-> q[k].id]
  BY DEF Ids
<1>10. DOMAIN ids = DOMAIN q /\ \A k \in DOMAIN q : ids[k] = q[k].id
  BY <1>9
<1>11. ids \in [DOMAIN q -> Range(ids)]
  BY <1>9 DEF Range
<1> HIDE DEF ids
<1>12. IsInjective(ids)
  <2> SUFFICES ASSUME NEW k \in DOMAIN q, NEW l \in DOMAIN q, q[k].id = q[l].id PROVE k = l
    BY <1>10 DEF IsInjective
  <2>1. PICK i \in DOMAIN systems : q[k] = systems[i]
    BY <1>7
  <2>2. PICK j \in DOMAIN systems : q[l] = systems[j]
    BY <1>7
  <2>3. q[k] = q[l]
    BY <1>4, <2>1, <2>2
  <2> QED
    BY <1>6, <2>3 DEF IsInjective
<1>13. Range(ids) \subseteq Range(Ids(systems))
  BY <1>1, <1>7, <1>10 DEF Range
<1> QED
  BY <1>6, <1>8, <1>10, <1>11, <1>12, <1>13 DEF q, ids

\* Lookup finds the system that has the id.
LEMMA LookupFinds ==
    ASSUME systems \in Inputs, IsInjective(Ids(systems))
    PROVE  /\ \A i \in DOMAIN Current : Lookup(Ids(Current)[i]) = Current[i]
           /\ \A id \in Names : \E i \in DOMAIN Current :
                 id = Ids(Current)[i] /\ Lookup(id) = Current[i] /\ After(id) = Current[i].after
           /\ \A id \in Names : IsList(After(id))
<1> DEFINE ids == Ids(Current)
<1>1. /\ \A i \in DOMAIN Current : ids[i] = Current[i].id /\ IsList(Current[i].after)
      /\ DOMAIN ids = DOMAIN Current /\ IsInjective(ids)
  BY PhaseLists DEF Current
<1>2. ASSUME NEW i \in DOMAIN Current PROVE Lookup(ids[i]) = Current[i]
  <2>1. \A j \in DOMAIN Current : Current[j].id = ids[i] <=> j = i
    BY <1>1 DEF IsInjective
  <2>2. (CHOOSE j \in DOMAIN Current : Current[j].id = ids[i]) = i
    BY <2>1
  <2> QED
    BY <2>2 DEF Lookup
<1>3. \A id \in Names : \E i \in DOMAIN Current : id = ids[i]
  BY <1>1 DEF Names, Range
<1> QED
  BY <1>1, <1>2, <1>3 DEF After

\* A step that leaves the argument and the phase alone leaves the systems being sorted.
LEMMA SamePhase ==
    ASSUME systems' = systems, phase' = phase
    PROVE  /\ Current' = Current /\ Names' = Names /\ Known' = Known
           /\ \A id : After(id)' = After(id) /\ Lookup(id)' = Lookup(id)
<1>1. Current' = Current
  BY DEF Current, InPhase, Sublist, Nth
<1>2. \A id : Lookup(id)' = Lookup(id)
  BY <1>1 DEF Lookup
<1> QED
  BY <1>1, <1>2 DEF Names, Known, After, Ids

\* A step that leaves the argument and the results alone leaves the results valid.
LEMMA SameOrders ==
    ASSUME Orders, systems' = systems, phase' = phase, ordered' = ordered
    PROVE  Orders' /\ Distinct' = Distinct
<1>1. \A list, p : ValidOrder(list, p)' = ValidOrder(list, p)
  BY DEF ValidOrder, InPhase, Ids, Sublist, Nth
<1>2. Ids(systems') = Ids(systems)
  BY DEF Ids
<1> QED
  BY <1>1, <1>2 DEF Orders, Distinct

-----------------------------------------------------------------------------
(***************************************************************************)
(* Every action keeps the invariant.                                       *)
(***************************************************************************)

\* Nothing is sorted at first.
LEMMA InitHolds == Init => IInv
<1> SUFFICES ASSUME Init PROVE IInv
  OBVIOUS
<1>1. systems \in Inputs /\ phase = 1 /\ pc = "validate" /\ ordered = <<>>
  BY DEF Init
<1>2. Len(Phases) \in Nat
  BY ListAssumption DEF IsList
<1>3. Orders
  BY <1>1 DEF Orders
<1>4. Places
  BY <1>1 DEF Places, Codes
<1> QED
  BY <1>1, <1>2, <1>3, <1>4 DEF IInv

\* The loop that looks for empty and repeated ids finds one exactly if there is one.
LEMMA ValidateStep == IInv /\ Validate => IInv'
<1> SUFFICES ASSUME IInv, Validate PROVE IInv'
  OBVIOUS
<1> DEFINE ids == Ids(systems)
           empty == {i \in DOMAIN systems : systems[i].id = NoId}
           repeated == {i \in DOMAIN systems : \E j \in 1 .. i - 1 : systems[j].id = systems[i].id}
           bad == empty \union repeated
<1>1. /\ systems' = systems /\ phase' = phase /\ ordered' = ordered
      /\ pc' \in {"count", "empty_system_id", "duplicate_system_id"}
      /\ pc' = "count" <=> bad = {}
  BY DEF Validate
<1>2. Orders' /\ Distinct' = Distinct
  BY <1>1, SameOrders DEF IInv
<1>3. /\ Len(systems) \in Nat /\ DOMAIN systems = 1 .. Len(systems)
      /\ DOMAIN ids = 1 .. Len(systems)
      /\ \A i \in DOMAIN systems : ids[i] = systems[i].id
  BY InputLists DEF IInv
<1> HIDE DEF ids
<1>4. NoId \notin Range(ids) <=> empty = {}
  BY <1>3 DEF Range
<1>5. IsInjective(ids) <=> repeated = {}
  <2>1. ASSUME IsInjective(ids) PROVE repeated = {}
    BY <1>3, <2>1 DEF IsInjective
  <2>2. ASSUME ~IsInjective(ids) PROVE repeated # {}
    <3>1. PICK i \in 1 .. Len(systems), j \in 1 .. Len(systems) : i # j /\ ids[i] = ids[j]
      BY <1>3, <2>2 DEF IsInjective
    <3>2. i < j => i \in 1 .. j - 1
      BY <1>3
    <3>3. j < i => j \in 1 .. i - 1
      BY <1>3
    <3>4. i < j \/ j < i
      BY <3>1, <1>3
    <3>5. systems[i].id = systems[j].id
      BY <1>3, <3>1
    <3> QED
      BY <1>3, <3>2, <3>3, <3>4, <3>5
  <2> QED
    BY <2>1, <2>2
<1>6. Distinct <=> bad = {}
  BY <1>4, <1>5 DEF Distinct, ids
<1> HIDE DEF bad
<1>7. Places'
  BY <1>1, <1>2, <1>6 DEF Places, Codes
<1> QED
  BY <1>1, <1>2, <1>7 DEF IInv

\* Before any system is sorted, each waits for its whole After list.
LEMMA CountStep == IInv /\ Count => IInv'
<1> SUFFICES ASSUME IInv, Count PROVE IInv'
  OBVIOUS
<1> DEFINE ids == Ids(Current)
           degree == [id \in Names |-> Len(After(id))]
           J == {i \in DOMAIN ids : degree[ids[i]] = 0}
<1>1. /\ systems' = systems /\ phase' = phase /\ ordered' = ordered /\ sorted' = <<>>
      /\ pc = "count" /\ phase <= Len(Phases)
      /\ pc' = IF Known THEN "sort" ELSE "missing_dependency"
      /\ inDegree' = degree
      /\ queue' = Sublist(ids, J)
  BY DEF Count, Known, Names, After
<1>2. Orders' /\ Distinct' = Distinct
  BY <1>1, SameOrders DEF IInv
<1>3. /\ Current' = Current /\ Names' = Names /\ Known' = Known
      /\ \A id : After(id)' = After(id)
  BY <1>1, SamePhase
<1>4. phase \in DOMAIN Phases /\ Distinct /\ systems \in Inputs
  <2>1. Phases \in Seq(Range(Phases))
    BY ListAssumption DEF IsList
  <2> QED
    BY <1>1, <2>1 DEF IInv, Places
<1>5. /\ Len(Current) \in Nat /\ DOMAIN ids = 1 .. Len(Current)
      /\ ids \in [1 .. Len(Current) -> Names] /\ IsInjective(ids)
  BY <1>4, PhaseLists DEF Distinct, Current, Names
<1>6. \A id \in Names : IsList(After(id))
  BY <1>4, LookupFinds DEF Distinct
<1>7. \A id \in Names : Len(After(id)) \in Nat /\ DOMAIN After(id) = 1 .. Len(After(id))
  <2> SUFFICES ASSUME NEW id \in Names
               PROVE  Len(After(id)) \in Nat /\ DOMAIN After(id) = 1 .. Len(After(id))
    OBVIOUS
  <2>1. After(id) \in Seq(Range(After(id)))
    BY <1>6 DEF IsList
  <2> QED
    BY <2>1
<1>8. ASSUME Known PROVE Sorting'
  <2>1. J \in SUBSET (1 .. Len(Current))
    BY <1>5
  <2>2. \A id \in Names : degree[id] = Len(After(id))
    OBVIOUS
  <2>3. DOMAIN degree = Names
    OBVIOUS
  <2>4. \A i \in DOMAIN ids : i \in J <=> degree[ids[i]] = 0
    OBVIOUS
  <2> HIDE DEF ids, degree, J
  <2>5. /\ queue' \in Seq(Names) /\ IsInjective(queue')
        /\ \A k \in DOMAIN queue' : \E i \in J : queue'[k] = ids[i]
        /\ \A i \in J : \E k \in DOMAIN queue' : queue'[k] = ids[i]
    <3>1. \A i \in J : ids[i] \in Names
      BY <1>5, <2>1
    <3> QED
      BY <1>1, <1>5, <2>1, <3>1, SublistHolds
  <2>6. \A id \in Names : id \in Range(queue') <=> degree[id] = 0
    <3> SUFFICES ASSUME NEW id \in Names PROVE id \in Range(queue') <=> degree[id] = 0
      OBVIOUS
    <3>1. PICK i \in DOMAIN ids : ids[i] = id
      BY DEF Names, Range, ids
    <3>2. ASSUME degree[id] = 0 PROVE id \in Range(queue')
      BY <2>4, <2>5, <3>1, <3>2 DEF Range
    <3>3. ASSUME id \in Range(queue') PROVE degree[id] = 0
      <4>1. PICK j \in J : id = ids[j]
        BY <2>5, <3>3 DEF Range
      <4> QED
        BY <1>5, <2>1, <2>4, <4>1
    <3> QED
      BY <3>2, <3>3
  <2>7. \A id \in Names : degree[id] = Cardinality(Waiting(id)')
    <3> SUFFICES ASSUME NEW id \in Names PROVE degree[id] = Cardinality(Waiting(id)')
      OBVIOUS
    <3>1. PICK n \in Nat : n = Len(After(id)) /\ DOMAIN After(id) = 1 .. n
      BY <1>7
    <3>2. Waiting(id)' = 1 .. n
      <4>1. Range(<<>>) = {}
        BY DEF Range
      <4> QED
        BY <1>1, <1>3, <3>1, <4>1 DEF Waiting
    <3>3. Cardinality(1 .. n) = n
      <4>1. 1 \in Int /\ n \in Int
        OBVIOUS
      <4>2. Cardinality(1 .. n) = IF 1 > n THEN 0 ELSE n - 1 + 1
        BY <4>1, FS_Interval, Zenon
      <4> QED
        BY <4>2
    <3> QED
      BY <2>2, <3>1, <3>2, <3>3
  <2>8. /\ sorted' \in Seq(Names) /\ sorted' \o queue' = queue' /\ Range(sorted') = {}
        /\ DOMAIN sorted' = {}
    BY <1>1, <2>5 DEF Range
  <2>9. \A id \in Names : inDegree'[id] = Cardinality(Waiting(id)')
    BY <1>1, <2>7
  <2>10. \A id \in Names : id \in Range(sorted') \union Range(queue') <=> inDegree'[id] = 0
    BY <1>1, <2>6, <2>8
  <2> QED
    BY <1>1, <1>3, <1>4, <1>8, <2>3, <2>5, <2>8, <2>9, <2>10 DEF Sorting
<1>9. Places'
  <2> HIDE DEF degree, J
  <2> QED
    BY <1>1, <1>2, <1>3, <1>4, <1>8 DEF Places, Codes
<1> QED
  BY <1>1, <1>2, <1>4, <1>9 DEF IInv

(***************************************************************************)
(* Taking the first of the queue takes its entries out of what the others  *)
(* wait for, and queues exactly those that wait for nothing from now on.   *)
(***************************************************************************)
LEMMA TakeNextStep == IInv /\ TakeNext => IInv'
<1> SUFFICES ASSUME IInv, TakeNext PROVE IInv'
  OBVIOUS
<1> DEFINE ids == Ids(Current)
           left == [id \in DOMAIN inDegree |->
                       inDegree[id] - Occurrences(After(id), Head(queue))]
           J == {i \in DOMAIN ids : left[ids[i]] = 0 /\ inDegree[ids[i]] > 0}
<1>1. PICK more : more = Sublist(ids, J)
  OBVIOUS
<1>2. PICK current : current = Head(queue)
  OBVIOUS
<1>3. /\ systems' = systems /\ phase' = phase /\ ordered' = ordered /\ pc' = pc
      /\ pc = "sort" /\ queue # <<>>
      /\ sorted' = Append(sorted, current)
      /\ inDegree' = left
      /\ queue' = Tail(queue) \o more
  BY <1>1, <1>2 DEF TakeNext, After, Released
<1>4. Orders' /\ Distinct' = Distinct
  BY <1>3, SameOrders DEF IInv
<1>5. /\ Current' = Current /\ Names' = Names /\ Known' = Known
      /\ \A id : After(id)' = After(id)
  BY <1>3, SamePhase
<1>6. Sorting /\ Distinct /\ systems \in Inputs
  BY <1>3 DEF IInv, Places
<1>7. /\ Len(Current) \in Nat /\ DOMAIN ids = 1 .. Len(Current)
      /\ ids \in [1 .. Len(Current) -> Names] /\ IsInjective(ids)
  BY <1>6, PhaseLists DEF Distinct, Current, Names
<1>8. \A id \in Names : IsList(After(id))
  BY <1>6, LookupFinds DEF Distinct
<1>9. /\ sorted \in Seq(Names) /\ queue \in Seq(Names) /\ IsInjective(sorted \o queue)
      /\ DOMAIN inDegree = Names
      /\ \A id \in Names : inDegree[id] = Cardinality(Waiting(id))
      /\ \A id \in Names : id \in Range(sorted) \union Range(queue) <=> inDegree[id] = 0
  BY <1>6 DEF Sorting
<1>10. /\ IsInjective(sorted) /\ IsInjective(queue) /\ Range(sorted) \intersect Range(queue) = {}
  BY <1>9, ConcatHolds
<1>11. /\ current \in Names /\ <<current>> \in Seq(Names) /\ Tail(queue) \in Seq(Names)
       /\ queue = <<current>> \o Tail(queue) /\ sorted' = sorted \o <<current>>
       /\ Range(<<current>>) = {current}
  <2>1. current \in Names /\ Tail(queue) \in Seq(Names) /\ queue = <<current>> \o Tail(queue)
    BY <1>2, <1>3, <1>9
  <2>2. Range(<<current>>) = {current}
    BY DEF Range
  <2>3. sorted' = sorted \o <<current>>
    BY <1>3, <1>9, <2>1, AppendIsConcat
  <2>4. <<current>> \in Seq(Names)
    BY <2>1
  <2> QED
    BY <2>1, <2>2, <2>3, <2>4
<1>12. /\ Range(queue) = {current} \union Range(Tail(queue))
       /\ Range(sorted') = Range(sorted) \union {current}
  <2>1. PICK one \in Seq(Names) : one = <<current>> /\ Range(one) = {current}
    BY <1>11
  <2>2. Range(one \o Tail(queue)) = Range(one) \union Range(Tail(queue))
    BY <1>11, ConcatHolds
  <2>3. Range(sorted \o one) = Range(sorted) \union Range(one)
    BY <1>9, ConcatHolds
  <2>4. queue = one \o Tail(queue) /\ sorted' = sorted \o one
    BY <1>11, <2>1
  <2> QED
    BY <2>1, <2>2, <2>3, <2>4, Zenon
<1>13. current \notin Range(sorted) /\ inDegree[current] = 0
  BY <1>9, <1>10, <1>11, <1>12
<1>14. \A id \in Names : left[id] = inDegree[id] - Occurrences(After(id), current)
  BY <1>2, <1>9
<1>15. DOMAIN left = Names
  BY <1>9
<1>16. \A i \in DOMAIN ids : i \in J <=> left[ids[i]] = 0 /\ inDegree[ids[i]] > 0
  OBVIOUS
<1>17. J \in SUBSET (1 .. Len(Current))
  BY <1>7
<1> HIDE DEF ids, left, J
<1>18. \A id \in Names : /\ IsFiniteSet(Waiting(id))
                         /\ inDegree[id] \in Nat /\ left[id] \in Nat /\ left[id] <= inDegree[id]
                         /\ left[id] = Cardinality(Waiting(id)')
  <2> SUFFICES ASSUME NEW id \in Names
               PROVE  /\ IsFiniteSet(Waiting(id))
                      /\ inDegree[id] \in Nat /\ left[id] \in Nat /\ left[id] <= inDegree[id]
                      /\ left[id] = Cardinality(Waiting(id)')
    OBVIOUS
  <2> DEFINE W == Waiting(id)
             B == {i \in DOMAIN After(id) : After(id)[i] = current}
  <2>1. PICK n \in Nat : DOMAIN After(id) = 1 .. n
    <3>1. After(id) \in Seq(Range(After(id)))
      BY <1>8 DEF IsList
    <3> QED
      BY <3>1
  <2>2. IsFiniteSet(1 .. n)
    <3>1. 1 \in Int /\ n \in Int
      OBVIOUS
    <3> QED
      BY <3>1, FS_Interval, Zenon
  <2>3. W \in SUBSET (1 .. n) /\ B \in SUBSET W
    BY <1>13, <2>1 DEF Waiting
  <2>4. Waiting(id)' = W \ B
    BY <1>5, <1>12 DEF Waiting
  <2>5. Occurrences(After(id), current) = Cardinality(B)
    BY DEF Occurrences
  <2> HIDE DEF W, B
  <2>6. IsFiniteSet(W) /\ IsFiniteSet(B) /\ W \intersect B = B
    BY <2>2, <2>3, FS_Subset
  <2>7. /\ Cardinality(W) \in Nat /\ Cardinality(B) \in Nat /\ Cardinality(B) <= Cardinality(W)
    BY <2>3, <2>6, FS_Subset, FS_CardinalityType
  <2>8. Cardinality(W \ B) = Cardinality(W) - Cardinality(B)
    BY <2>6, FS_Difference
  <2>9. inDegree[id] = Cardinality(W)
    BY <1>9 DEF W
  <2>10. left[id] = Cardinality(W) - Cardinality(B)
    BY <1>14, <2>5, <2>9
  <2> QED
    BY <2>4, <2>6, <2>7, <2>8, <2>9, <2>10 DEF W
<1>19. /\ more \in Seq(Names) /\ IsInjective(more)
       /\ \A k \in DOMAIN more : \E i \in J : more[k] = ids[i]
       /\ \A i \in J : \E k \in DOMAIN more : more[k] = ids[i]
  <2>1. \A i \in J : ids[i] \in Names
    BY <1>7, <1>17
  <2> QED
    BY <1>1, <1>7, <1>17, <2>1, SublistHolds
<1>20. \A id \in Names : id \in Range(more) <=> left[id] = 0 /\ inDegree[id] > 0
  <2> SUFFICES ASSUME NEW id \in Names
               PROVE  id \in Range(more) <=> left[id] = 0 /\ inDegree[id] > 0
    OBVIOUS
  <2>1. PICK i \in DOMAIN ids : ids[i] = id
    BY DEF Names, Range, ids
  <2>2. ASSUME left[id] = 0, inDegree[id] > 0 PROVE id \in Range(more)
    BY <1>16, <1>19, <2>1, <2>2 DEF Range
  <2>3. ASSUME id \in Range(more) PROVE left[id] = 0 /\ inDegree[id] > 0
    <3>1. PICK j \in J : id = ids[j]
      BY <1>19, <2>3 DEF Range
    <3> QED
      BY <1>7, <1>16, <1>17, <3>1
  <2> QED
    BY <2>2, <2>3
<1>21. sorted' \in Seq(Names) /\ queue' \in Seq(Names)
  BY <1>3, <1>9, <1>11, <1>19
<1>22. sorted' \o queue' = (sorted \o queue) \o more
  <2>1. PICK one \in Seq(Names) : one = <<current>>
    BY <1>11
  <2>2. PICK rest \in Seq(Names) : rest = Tail(queue)
    BY <1>11
  <2>3. queue = one \o rest /\ sorted' = sorted \o one /\ queue' = rest \o more
    BY <1>3, <1>11, <2>1, <2>2
  <2>4. PICK before \in Seq(Names) : before = sorted
    BY <1>9
  <2>5. PICK after \in Seq(Names) : after = sorted'
    BY <1>21
  <2>6. (before \o one) \o rest = before \o (one \o rest)
    BY ConcatAssociative, SMTT(30)
  <2>7. more \in Seq(Names)
    BY <1>19
  <2>8. (after \o rest) \o more = after \o (rest \o more)
    BY <2>7, ConcatAssociative, SMTT(30)
  <2> QED
    BY <2>3, <2>4, <2>5, <2>6, <2>8, Zenon
<1>23. IsInjective(sorted' \o queue')
  <2>1. sorted \o queue \in Seq(Names) /\ Range(sorted \o queue) = Range(sorted) \union Range(queue)
    BY <1>9, ConcatHolds
  <2>2. \A id \in Names : id \in Range(sorted \o queue) => id \notin Range(more)
    BY <1>9, <1>20, <2>1
  <2>3. Range(more) \subseteq Names
    BY <1>19 DEF Range
  <2>4. Range(sorted \o queue) \intersect Range(more) = {}
    BY <2>2, <2>3
  <2>5. IsInjective((sorted \o queue) \o more)
    BY <1>9, <1>19, <2>1, <2>4, ConcatHolds, Zenon
  <2> QED
    BY <1>22, <2>5, Zenon
<1>24. ASSUME NEW id \in Names
       PROVE  id \in Range(sorted') \union Range(queue') <=> inDegree'[id] = 0
  <2>1. Range(queue') = Range(Tail(queue)) \union Range(more)
    <3>1. PICK rest \in Seq(Names) : rest = Tail(queue)
      BY <1>11
    <3>2. more \in Seq(Names)
      BY <1>19
    <3>3. Range(rest \o more) = Range(rest) \union Range(more)
      BY <3>2, ConcatHolds
    <3> QED
      BY <1>3, <3>1, <3>3, Zenon
  <2>2. id \in Range(sorted') \union Range(queue') <=>
            inDegree[id] = 0 \/ (left[id] = 0 /\ inDegree[id] > 0)
    BY <1>9, <1>12, <1>20, <2>1
  <2> QED
    BY <1>3, <1>18, <2>2
<1>25. ASSUME NEW k \in DOMAIN sorted', NEW dep \in Range(After(sorted'[k]))
       PROVE  \E j \in DOMAIN sorted' : j < k /\ sorted'[j] = dep
  <2>1. /\ DOMAIN sorted = 1 .. Len(sorted) /\ DOMAIN sorted' = 1 .. Len(sorted) + 1
        /\ Len(sorted) \in Nat /\ sorted'[Len(sorted) + 1] = current
        /\ \A j \in 1 .. Len(sorted) : sorted'[j] = sorted[j]
    BY <1>3, <1>9, <1>11
  <2>2. CASE k \in DOMAIN sorted
    <3>1. PICK j \in DOMAIN sorted : j < k /\ sorted[j] = dep
      BY <1>6, <1>25, <2>1, <2>2 DEF Sorting
    <3> QED
      BY <2>1, <3>1
  <2>3. CASE k = Len(sorted) + 1
    <3>1. IsFiniteSet(Waiting(current)) /\ Cardinality(Waiting(current)) = 0
      BY <1>9, <1>11, <1>13, <1>18
    <3>2. Waiting(current) = {}
      BY <3>1, FS_EmptySet
    <3>3. dep \in Range(After(current))
      BY <1>25, <2>1, <2>3
    <3>4. dep \in Range(sorted)
      BY <3>2, <3>3 DEF Waiting, Range
    <3>5. PICK j \in DOMAIN sorted : sorted[j] = dep
      BY <3>4 DEF Range
    <3> QED
      BY <2>1, <2>3, <3>5
  <2> QED
    BY <2>1, <2>2, <2>3
<1>26. Sorting'
  <2>1. \A k \in DOMAIN sorted' : \A dep \in Range(After(sorted'[k])) :
            \E j \in DOMAIN sorted' : j < k /\ sorted'[j] = dep
    BY <1>25
  <2>2. \A k \in DOMAIN sorted' : After(sorted[k])' = After(sorted'[k])
    BY <1>5
  <2>3. phase' \in DOMAIN Phases /\ Known'
    BY <1>3, <1>5, <1>6 DEF Sorting
  <2>4. \A id \in Names : inDegree'[id] = Cardinality(Waiting(id)')
    BY <1>3, <1>18
  <2>5. DOMAIN inDegree' = Names
    BY <1>3, <1>15
  <2>6. \A id \in Names : id \in Range(sorted') \union Range(queue') <=> inDegree'[id] = 0
    BY <1>24
  <2> QED
    BY <1>5, <1>21, <1>23, <2>1, <2>2, <2>3, <2>4, <2>5, <2>6 DEF Sorting
<1>27. Places'
  BY <1>3, <1>4, <1>6, <1>26 DEF Places, Codes
<1> QED
  BY <1>3, <1>4, <1>6, <1>27 DEF IInv

\* The sort is complete exactly when it has as many systems as the phase, and it is valid then.
LEMMA SortedAll ==
    ASSUME systems \in Inputs, Distinct, Sorting
    PROVE  /\ Len(sorted) = Len(Current) <=> Range(sorted) = Names
           /\ Range(sorted) = Names => ValidOrder(sorted, Phases[phase])
<1> DEFINE ids == Ids(Current)
           n == Len(sorted)
           m == Len(Current)
<1>1. /\ m \in Nat /\ DOMAIN Current = 1 .. m /\ DOMAIN ids = 1 .. m
      /\ ids \in [1 .. m -> Names] /\ IsInjective(ids)
  BY PhaseLists DEF Distinct, Current, Names
<1>2. sorted \in Seq(Names) /\ queue \in Seq(Names) /\ IsInjective(sorted \o queue)
  BY DEF Sorting
<1>3. IsInjective(sorted)
  BY <1>2, ConcatHolds
<1>4. n \in Nat /\ sorted \in [1 .. n -> Names] /\ Range(sorted) \subseteq Names
  BY <1>2 DEF Range
<1>5. IsFiniteSet(Names) /\ Cardinality(Names) = m
  <2> HIDE DEF m
  <2>1. IsFiniteSet(Range(ids)) /\ Cardinality(Range(ids)) = m
    <3> HIDE DEF ids
    <3> QED
      BY <1>1, InjectiveSize
  <2> QED
    BY <2>1 DEF Names
<1>6. IsFiniteSet(Range(sorted)) /\ Cardinality(Range(sorted)) = n
  BY <1>3, <1>4, InjectiveSize
<1>7. n = m <=> Range(sorted) = Names
  <2> HIDE DEF n, m
  <2>1. Range(sorted) = Names => n = m
    BY <1>5, <1>6
  <2>2. n = m => Range(sorted) = Names
    BY <1>4, <1>5, <1>6, FS_Subset
  <2> QED
    BY <2>1, <2>2
<1>8. ASSUME Range(sorted) = Names PROVE ValidOrder(sorted, Phases[phase])
  <2>1. Len(sorted) = Len(Current) /\ Range(sorted) = Range(ids)
    BY <1>7, <1>8 DEF Names
  <2>2. ASSUME NEW i \in DOMAIN Current, NEW dep \in Range(Current[i].after)
        PROVE  \E j, k \in DOMAIN sorted :
                   sorted[j] = dep /\ sorted[k] = Current[i].id /\ j < k
    <3>1. /\ ids[i] = Current[i].id
          /\ After(ids[i]) = Current[i].after
      BY LookupFinds, PhaseLists DEF Distinct, After, Current
    <3>2. ids[i] \in Range(sorted)
      BY <1>1, <1>8
    <3>3. PICK k \in DOMAIN sorted : sorted[k] = ids[i]
      BY <3>2 DEF Range
    <3>4. PICK j \in DOMAIN sorted : j < k /\ sorted[j] = dep
      BY <2>2, <3>1, <3>3 DEF Sorting
    <3> QED
      BY <3>1, <3>3, <3>4
  <2> QED
    BY <2>1, <2>2 DEF ValidOrder, Current
<1> QED
  BY <1>7, <1>8

\* A phase is done when all of it is sorted, and its order is the last result.
LEMMA SortEndsStep == IInv /\ SortEnds => IInv'
<1> SUFFICES ASSUME IInv, SortEnds PROVE IInv'
  OBVIOUS
<1>1. /\ systems' = systems /\ inDegree' = inDegree /\ queue' = queue /\ sorted' = sorted
      /\ pc = "sort" /\ queue = <<>>
  BY DEF SortEnds
<1>2. systems \in Inputs /\ Distinct /\ Sorting /\ Orders /\ phase \in 1 .. Len(Phases) + 1
  BY <1>1 DEF IInv, Places
<1>3. /\ Distinct' = Distinct
      /\ \A list, p : ValidOrder(list, p)' = ValidOrder(list, p)
  BY <1>1 DEF Distinct, ValidOrder, InPhase, Ids, Sublist, Nth
<1>4. CASE Len(sorted) = Len(Current)
  <2>1. pc' = "count" /\ ordered' = Append(ordered, sorted) /\ phase' = phase + 1
    BY <1>4 DEF SortEnds
  <2>2. ValidOrder(sorted, Phases[phase])
    BY <1>2, <1>4, SortedAll
  <2>3. PICK T : T = Range(Ids(systems))
    OBVIOUS
  <2>4. sorted \in Seq(T)
    <3>1. Names \subseteq T
      BY <1>2, <2>3, PhaseLists DEF Distinct, Names, Current
    <3> QED
      BY <1>2, <3>1 DEF Sorting
  <2>5. ordered \in Seq(Seq(T)) /\ Len(ordered) = phase - 1 /\ phase \in 1 .. Len(Phases)
    <3>1. Phases \in Seq(Range(Phases))
      BY ListAssumption DEF IsList
    <3>2. DOMAIN Phases = 1 .. Len(Phases)
      BY <3>1
    <3> QED
      BY <1>2, <2>3, <3>2 DEF Orders, Sorting
  <2>6. /\ ordered' \in Seq(Seq(T)) /\ Len(ordered') = phase' - 1
        /\ \A k \in 1 .. phase - 1 : ordered'[k] = ordered[k]
        /\ ordered'[phase] = sorted
    BY <2>1, <2>4, <2>5
  <2>7. \A k \in 1 .. phase' - 1 : ValidOrder(ordered'[k], Phases[k])
    <3>1. \A k \in 1 .. phase' - 1 : k \in 1 .. phase - 1 \/ k = phase
      BY <2>1, <2>5
    <3>2. \A k \in 1 .. phase - 1 : ValidOrder(ordered[k], Phases[k])
      BY <1>2 DEF Orders
    <3> QED
      BY <2>2, <2>6, <3>1, <3>2
  <2>8. Ids(systems') = Ids(systems)
    BY <1>1
  <2>9. Orders'
    BY <1>3, <2>3, <2>6, <2>7, <2>8 DEF Orders
  <2>10. Places'
    BY <1>2, <1>3, <2>1 DEF Places, Codes
  <2>11. phase' \in 1 .. Len(Phases) + 1
    BY <2>1, <2>5
  <2> QED
    BY <1>1, <1>2, <2>9, <2>10, <2>11 DEF IInv
<1>5. CASE Len(sorted) # Len(Current)
  <2>1. pc' = "cyclic_dependency" /\ ordered' = ordered /\ phase' = phase
    BY <1>5 DEF SortEnds
  <2>2. Orders'
    BY <1>1, <1>2, <2>1, SameOrders
  <2>3. /\ Current' = Current /\ Names' = Names /\ Known' = Known
        /\ \A id : After(id)' = After(id)
    BY <1>1, <2>1, SamePhase
  <2>4. \A id : Waiting(id)' = Waiting(id)
    BY <1>1, <2>3 DEF Waiting
  <2>5. Sorting'
    BY <1>1, <1>2, <2>1, <2>3, <2>4 DEF Sorting
  <2>6. Places'
    BY <1>1, <1>2, <1>3, <1>5, <2>1, <2>3, <2>5 DEF Places, Codes
  <2> QED
    BY <1>1, <1>2, <2>1, <2>2, <2>6 DEF IInv
<1> QED
  BY <1>4, <1>5

\* NewScheduler returns when every phase has its order.
LEMMA ReturnStep == IInv /\ Return => IInv'
<1> SUFFICES ASSUME IInv, Return PROVE IInv'
  OBVIOUS
<1>1. /\ systems' = systems /\ phase' = phase /\ ordered' = ordered
      /\ pc = "count" /\ phase > Len(Phases) /\ pc' = "ok"
  BY DEF Return
<1>2. Orders' /\ Distinct' = Distinct
  BY <1>1, SameOrders DEF IInv
<1>3. Places'
  BY <1>1, <1>2 DEF IInv, Places, Codes
<1> QED
  BY <1>1, <1>2, <1>3 DEF IInv

\* Nothing changes in a stuttering step.
LEMMA StutterStep == IInv /\ UNCHANGED vars => IInv'
<1> SUFFICES ASSUME IInv, UNCHANGED vars PROVE IInv'
  OBVIOUS
<1>1. /\ systems' = systems /\ pc' = pc /\ phase' = phase /\ inDegree' = inDegree
      /\ queue' = queue /\ sorted' = sorted /\ ordered' = ordered
  BY DEF vars
<1>2. Orders' /\ Distinct' = Distinct
  BY <1>1, SameOrders DEF IInv
<1>3. /\ Current' = Current /\ Names' = Names /\ Known' = Known
      /\ \A id : After(id)' = After(id)
  BY <1>1, SamePhase
<1>4. \A id : Waiting(id)' = Waiting(id)
  BY <1>1, <1>3 DEF Waiting
<1>5. Sorting => Sorting'
  BY <1>1, <1>3, <1>4 DEF Sorting
<1>6. Places'
  BY <1>1, <1>2, <1>3, <1>5 DEF IInv, Places, Codes
<1> QED
  BY <1>1, <1>2, <1>6 DEF IInv

\* The invariant holds in every state.
LEMMA Inductive == Spec => []IInv
<1>1. IInv /\ [Next]_vars => IInv'
  BY ValidateStep, CountStep, TakeNextStep, SortEndsStep, ReturnStep, StutterStep DEF Next
<1> QED
  BY InitHolds, <1>1, PTL DEF Spec

-----------------------------------------------------------------------------
(***************************************************************************)
(* What the results mean.                                                  *)
(***************************************************************************)

\* A dependency that is not in the phase comes before nothing in any order of it.
LEMMA MissingNotSortable ==
    ASSUME ~Known, NEW list, ValidOrder(list, Phases[phase])
    PROVE  FALSE
<1>1. PICK i \in DOMAIN Current : \E dep \in Range(Current[i].after) : dep \notin Names
  BY DEF Known
<1>2. PICK dep \in Range(Current[i].after) : dep \notin Names
  BY <1>1
<1>3. /\ Range(list) = Names
      /\ \E j \in DOMAIN list : list[j] = dep
  BY <1>2 DEF ValidOrder, Names, Current
<1> QED
  BY <1>2, <1>3 DEF Range

(***************************************************************************)
(* The queue is empty and systems are left: in a valid order, take the     *)
(* first of these.  It waits for another one that is left, and which the   *)
(* order has before it.                                                    *)
(***************************************************************************)
LEMMA StuckNotSortable ==
    ASSUME systems \in Inputs, Distinct, Sorting, queue = <<>>, Range(sorted) # Names,
           NEW list \in SetToSeqs(Names), ValidOrder(list, Phases[phase])
    PROVE  FALSE
<1> DEFINE n == Cardinality(Names)
           I == {k \in 1 .. n : list[k] \notin Range(sorted)}
<1>1. /\ DOMAIN list = 1 .. n /\ list \in [1 .. n -> Names]
      /\ \A i, j \in 1 .. n : i # j => list[i] # list[j]
  BY DEF SetToSeqs
<1>2. n \in Nat
  <2>1. /\ Len(Current) \in Nat
        /\ Ids(Current) \in [1 .. Len(Current) -> Range(Ids(Current))]
    BY PhaseLists DEF Distinct, Current
  <2>2. IsFiniteSet(Range(Ids(Current)))
    BY <2>1, InjectiveSize
  <2> QED
    BY <2>2, FS_CardinalityType DEF Names
<1>3. Range(list) = Names
  BY DEF ValidOrder, Names, Current
<1>4. I \in SUBSET (1 .. n) /\ \A k \in 1 .. n : k \in I <=> list[k] \notin Range(sorted)
  OBVIOUS
<1>5. sorted \in Seq(Names) /\ Range(queue) = {} /\ Range(sorted) \subseteq Names
  BY DEF Sorting, Range
<1> HIDE DEF n, I
<1>6. I # {}
  BY <1>1, <1>3, <1>4, <1>5 DEF Range
<1>7. PICK k \in I : \A j \in I : k <= j
  BY <1>2, <1>4, <1>6, FirstPosition
<1>8. PICK id \in Names : id = list[k] /\ id \notin Range(sorted)
  BY <1>1, <1>4, <1>7
<1>9. inDegree[id] # 0 /\ inDegree[id] = Cardinality(Waiting(id))
  BY <1>5, <1>8 DEF Sorting
<1>10. Waiting(id) # {}
  BY <1>9, FS_EmptySet
<1>11. PICK dep \in Range(After(id)) : dep \notin Range(sorted)
  BY <1>10 DEF Waiting, Range
<1>12. PICK i \in DOMAIN Current : id = Current[i].id /\ After(id) = Current[i].after
  <2>1. \E i \in DOMAIN Current : id = Ids(Current)[i] /\ After(id) = Current[i].after
    BY LookupFinds DEF Distinct
  <2> QED
    BY <2>1 DEF Ids
<1>13. PICK j \in DOMAIN list, l \in DOMAIN list : list[j] = dep /\ list[l] = id /\ j < l
  BY <1>11, <1>12 DEF ValidOrder, Current
<1>14. l = k /\ j \in I
  BY <1>1, <1>4, <1>7, <1>8, <1>11, <1>13
<1>15. j \in 1 .. n /\ k \in 1 .. n
  BY <1>4, <1>7, <1>14, Zenon
<1>16. j < k /\ k <= j
  BY <1>7, <1>13, <1>14
<1> QED
  BY <1>2, <1>15, <1>16

(***************************************************************************)
(* NewScheduler is correct: for every list of systems and phases, what it  *)
(* returns is an order of each phase in which every system follows its     *)
(* After list; the id errors mean an empty or repeated id, and the other   *)
(* errors that some phase has no such order at all.                        *)
(***************************************************************************)
THEOREM Correct == Spec => []SchedulerCorrect
<1>1. ASSUME IInv PROVE SchedulerCorrect
  <2> DEFINE distinct == /\ NoId \notin Range(Ids(systems))
                         /\ Cardinality(Range(Ids(systems))) = Len(systems)
             sortable == \A p \in Range(Phases) :
                             \E list \in SetToSeqs(Range(Ids(InPhase(p)))) : ValidOrder(list, p)
  <2>1. systems \in Inputs /\ Orders /\ Places
    BY <1>1 DEF IInv
  <2>2. distinct <=> Distinct
    <3>1. /\ Len(systems) \in Nat
          /\ Ids(systems) \in [1 .. Len(systems) -> Range(Ids(systems))]
      BY <2>1, InputLists
    <3>2. Cardinality(Range(Ids(systems))) = Len(systems) <=> IsInjective(Ids(systems))
      BY <3>1, InjectiveSize
    <3> QED
      BY <3>2 DEF Distinct
  <2>3. phase \in DOMAIN Phases => Phases[phase] \in Range(Phases)
    BY DEF Range
  <2>4. ASSUME pc = "ok" PROVE \A k \in DOMAIN Phases : ValidOrder(ordered[k], Phases[k])
    <3>1. Len(Phases) \in Nat /\ DOMAIN Phases = 1 .. Len(Phases)
      <4>1. Phases \in Seq(Range(Phases))
        BY ListAssumption DEF IsList
      <4> QED
        BY <4>1
    <3>2. phase = Len(Phases) + 1
      BY <1>1, <2>1, <2>4, <3>1 DEF IInv, Places
    <3> QED
      BY <2>1, <3>1, <3>2 DEF Orders
  <2>5. ASSUME pc = "missing_dependency" PROVE ~sortable
    <3>1. phase \in DOMAIN Phases /\ ~Known
      BY <2>1, <2>5 DEF Places
    <3>2. \A list : ~ValidOrder(list, Phases[phase])
      BY <3>1, MissingNotSortable
    <3> QED
      BY <2>3, <3>1, <3>2
  <2>6. ASSUME pc = "cyclic_dependency" PROVE ~sortable
    <3>1. Distinct /\ Sorting /\ queue = <<>> /\ Range(sorted) # Names
      BY <2>1, <2>6, SortedAll DEF Places
    <3>2. phase \in DOMAIN Phases
      BY <3>1 DEF Sorting
    <3>3. \A list \in SetToSeqs(Names) : ~ValidOrder(list, Phases[phase])
      BY <2>1, <3>1, StuckNotSortable
    <3>4. Names = Range(Ids(InPhase(Phases[phase])))
      BY DEF Names, Current
    <3> QED
      BY <2>3, <3>2, <3>3, <3>4
  <2> HIDE DEF sortable
  <2>7. pc = "ok" => distinct
    BY <2>1, <2>2 DEF Places
  <2>8. pc \in {"empty_system_id", "duplicate_system_id"} => ~distinct
    BY <2>1, <2>2 DEF Places
  <2> HIDE DEF distinct
  <2> QED
    BY <2>4, <2>5, <2>6, <2>7, <2>8 DEF SchedulerCorrect, distinct, sortable
<1> QED
  BY Inductive, <1>1, PTL

(***************************************************************************)
(* While a phase is sorted, the degree of a system is the number of its    *)
(* After entries that are not out yet, and it is in the queue or sorted    *)
(* once if that is zero and not at all otherwise.                          *)
(***************************************************************************)
THEOREM Degrees == Spec => []DegreeIsWaiting
<1>1. ASSUME IInv, pc = "sort"
      PROVE  \A id \in DOMAIN inDegree :
                 /\ inDegree[id] = Cardinality(Waiting(id))
                 /\ Occurrences(sorted \o queue, id) = IF inDegree[id] = 0 THEN 1 ELSE 0
  <2>1. Sorting
    BY <1>1 DEF IInv, Places
  <2> SUFFICES ASSUME NEW id \in Names
               PROVE  Occurrences(sorted \o queue, id) = IF inDegree[id] = 0 THEN 1 ELSE 0
    BY <2>1 DEF Sorting
  <2> DEFINE all == sorted \o queue
             At == {i \in DOMAIN all : all[i] = id}
  <2>2. /\ IsInjective(all)
        /\ id \in Range(all) <=> inDegree[id] = 0
    BY <2>1, ConcatHolds DEF Sorting
  <2>3. Occurrences(all, id) = Cardinality(At)
    BY DEF Occurrences
  <2> HIDE DEF all
  <2>4. CASE inDegree[id] = 0
    <3>1. PICK i \in DOMAIN all : all[i] = id
      BY <2>2, <2>4 DEF Range
    <3>2. At = {i}
      BY <2>2, <3>1 DEF IsInjective
    <3> QED
      BY <2>3, <2>4, <3>2, FS_Singleton DEF all
  <2>5. CASE inDegree[id] # 0
    <3>1. At = {}
      BY <2>2, <2>5 DEF Range
    <3> QED
      BY <2>3, <2>5, <3>1, FS_EmptySet DEF all
  <2> QED
    BY <2>4, <2>5
<1>2. ASSUME IInv PROVE DegreeIsWaiting
  BY <1>1, <1>2 DEF DegreeIsWaiting, Waiting, After
<1> QED
  BY Inductive, <1>2, PTL

=============================================================================
