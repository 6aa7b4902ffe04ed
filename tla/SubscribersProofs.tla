-------------------------- MODULE SubscribersProofs --------------------------
(***************************************************************************)
(* What holds of the subscriber list for every set of connections, every   *)
(* sequence of capacities and any number of broadcasts.                    *)
(***************************************************************************)
EXTENDS Subscribers, FiniteSetTheorems, TLAPS

States == {"open", "subscribed", "broadcasting", "leaving", "removing", "closed"}

Header == [cap : Cap \union {0}, len : Nat]

\* What the variables hold, whatever the locks and the walks are doing.
WellTyped ==
    /\ state \in [Conn -> States]
    /\ slice \in Header
    /\ DOMAIN heap = Cap
    /\ \A n \in Cap : heap[n] \in [1 .. n -> Conn \union {Nobody}]
    /\ lock \in Conn \union {Nobody}
    /\ gap \in Nat
    /\ header \in [Conn -> Header]
    /\ at \in [Conn -> Nat \ {0}]
    /\ got \in [Conn -> [Conn -> Nat]]
    /\ due \in [Conn -> SUBSET Conn]
    /\ calm \in [Conn -> BOOLEAN]

\* The write lock belongs to the one connection inside Unsubscribe.
Locking ==
    /\ \A c \in Conn : state[c] = "removing" <=> lock = c
    /\ lock # Nobody => gap \in 1 .. slice.len

Subscribed == {c \in Conn : state[c] \in Listed}

Cell(i) == heap[slice.cap][i]

(***************************************************************************)
(* While Unsubscribe compacts the array, the cell at gap is the hole: it   *)
(* holds the leaver, or what has been moved down already.  The other cells *)
(* hold the other subscribers, each once.                                  *)
(***************************************************************************)
Live == {i \in 1 .. slice.len : lock # Nobody => i # gap}

Members == {c \in Subscribed : c # lock}

Exact ==
    /\ slice.len <= slice.cap
    /\ slice.len = Cardinality(Subscribed)
    /\ \A i \in Live : Cell(i) \in Members
    /\ \A i, j \in Live : Cell(i) = Cell(j) => i = j
    /\ \A c \in Members : \E i \in Live : Cell(i) = c

(***************************************************************************)
(* The cells under the header that a broadcast copied do not change until  *)
(* somebody unsubscribes: append writes behind them, or into an array that *)
(* is larger.  So each of those connections is met once.                   *)
(***************************************************************************)
Seen(c, i) == heap[header[c].cap][i]

Frozen(c) ==
    /\ lock = Nobody
    /\ header[c].len <= header[c].cap
    /\ header[c].len <= slice.len
    /\ header[c].cap <= slice.cap
    /\ \A i \in 1 .. header[c].len : Seen(c, i) \in Conn
    /\ \A i, j \in 1 .. header[c].len : Seen(c, i) = Seen(c, j) => i = j
    /\ \A d \in due[c] : \E i \in 1 .. header[c].len : Seen(c, i) = d
    /\ \A i \in 1 .. header[c].len : got[c][Seen(c, i)] = IF i < at[c] THEN 1 ELSE 0

Walks == \A c \in Conn : state[c] = "broadcasting" /\ calm[c] => Frozen(c)

IInv == WellTyped /\ Locking /\ Exact /\ Walks

-----------------------------------------------------------------------------
(***************************************************************************)
(* Room for one more: a connection that is not in the list finds a free    *)
(* cell, or a larger array exists for it.                                  *)
(***************************************************************************)
LEMMA Growth ==
    ASSUME WellTyped, Exact, NEW c \in Conn, state[c] \notin Listed
    PROVE  /\ slice.cap = 0 => 1 \in Cap
           /\ slice.cap # 0 /\ slice.len = slice.cap => 2 * slice.cap \in Cap
<1>1. c \notin Subscribed /\ Subscribed \subseteq Conn
  BY DEF Subscribed
<1>2. IsFiniteSet(Subscribed) /\ IsFiniteSet(Conn)
  BY <1>1, ConnAssumption, FS_Subset
<1>3. Cardinality(Subscribed \union {c}) = Cardinality(Subscribed) + 1
  BY <1>1, <1>2, FS_AddElement
<1>4. Cardinality(Subscribed \union {c}) <= Cardinality(Conn)
  <2>1. Subscribed \union {c} \in SUBSET Conn
    BY <1>1
  <2> QED
    BY <1>2, <2>1, FS_Subset
<1>5. Cardinality(Subscribed) \in Nat /\ Cardinality(Conn) \in Nat
  BY <1>2, FS_CardinalityType
<1>6. slice.len < Cardinality(Conn)
  BY <1>3, <1>4, <1>5 DEF Exact
<1>7. slice.cap \in Cap \union {0}
  BY DEF WellTyped, Header
<1> QED
  BY <1>6, <1>7, CapAssumption

(***************************************************************************)
(* What append does to the arrays: the new header covers the old elements  *)
(* and then the new one, and no cell that the old header covered changes.  *)
(***************************************************************************)
LEMMA AppendEffect ==
    ASSUME WellTyped, Exact, NEW c \in Conn, state[c] \notin Listed, AppendSub(c)
    PROVE  /\ slice' \in Header
           /\ slice'.len = slice.len + 1
           /\ slice'.len <= slice'.cap
           /\ slice.cap <= slice'.cap
           /\ DOMAIN heap' = Cap
           /\ \A n \in Cap : heap'[n] \in [1 .. n -> Conn \union {Nobody}]
           /\ \A i \in 1 .. slice.len : heap'[slice'.cap][i] = heap[slice.cap][i]
           /\ heap'[slice'.cap][slice'.len] = c
           /\ \A n \in Cap : n <= slice.cap =>
                 \A i \in 1 .. n : (n = slice.cap => i <= slice.len) => heap'[n][i] = heap[n][i]
<1> DEFINE len == slice.len + 1
           cap == IF slice.len < slice.cap THEN slice.cap
                  ELSE IF slice.cap = 0 THEN 1 ELSE 2 * slice.cap
           cell(i) == CASE i = len -> c
                        [] i < len -> heap[slice.cap][i]
                        [] i > len -> heap[cap][i]
           new == [i \in 1 .. cap |-> cell(i)]
<1>1. slice' = [cap |-> cap, len |-> len] /\ heap' = [heap EXCEPT ![cap] = new]
  BY DEF AppendSub
<1>2. /\ slice.len \in Nat /\ slice.cap \in Nat /\ slice.cap \in Cap \union {0}
      /\ slice.len <= slice.cap /\ DOMAIN heap = Cap
  <2>1. slice.cap \in Cap \union {0} /\ slice.len \in Nat /\ DOMAIN heap = Cap
    BY DEF WellTyped, Header
  <2>2. slice.len <= slice.cap
    BY DEF Exact
  <2>3. \A n \in Cap : n \in Nat
    BY CapAssumption
  <2> QED
    BY <2>1, <2>2, <2>3
<1>3. cap \in Cap /\ cap \in Nat /\ len <= cap /\ slice.cap <= cap
      /\ (cap = slice.cap => slice.len < slice.cap)
  BY <1>2, Growth, CapAssumption
<1>4. /\ \A i \in 1 .. slice.len : i \in 1 .. cap /\ i < len /\ i # len
      /\ len \in 1 .. cap
  BY <1>2, <1>3
<1> HIDE DEF cap
<1>5. cell(len) = c /\ \A i \in 1 .. slice.len : cell(i) = heap[slice.cap][i]
  BY <1>2, <1>4
<1>6. \A i \in 1 .. cap : i > len => cell(i) = heap[cap][i]
  BY <1>2
<1>7. \A i \in 1 .. cap : i = len \/ i \in 1 .. slice.len \/ i > len
  BY <1>2, <1>3
<1>8. \A n \in Cap : heap[n] \in [1 .. n -> Conn \union {Nobody}]
  BY DEF WellTyped
<1>9. \A i \in 1 .. slice.len : heap[slice.cap][i] \in Conn \union {Nobody}
  BY <1>2, <1>8
<1>10. new \in [1 .. cap -> Conn \union {Nobody}]
  <2>1. \A i \in 1 .. cap : cell(i) \in Conn \union {Nobody}
    <3>1. \A i \in 1 .. cap : heap[cap][i] \in Conn \union {Nobody}
      BY <1>3, <1>8
    <3> HIDE DEF cell
    <3> QED
      BY <1>5, <1>6, <1>7, <1>9, <3>1
  <2> HIDE DEF cell
  <2> QED
    BY <2>1
<1>11. new[len] = c /\ \A i \in 1 .. slice.len : new[i] = heap[slice.cap][i]
  <2> HIDE DEF cell
  <2> QED
    BY <1>4, <1>5
<1> HIDE DEF new
<1>12. /\ DOMAIN heap' = Cap /\ heap'[cap] = new
       /\ \A n \in Cap : n # cap => heap'[n] = heap[n]
  BY <1>1, <1>2, <1>3
<1>13. slice' \in Header /\ slice'.cap = cap /\ slice'.len = len
  BY <1>1, <1>2, <1>3 DEF Header
<1>14. ASSUME NEW n \in Cap, n <= slice.cap, NEW i \in 1 .. n, n = slice.cap => i <= slice.len
       PROVE  heap'[n][i] = heap[n][i]
  <2>1. CASE n # cap
    BY <1>12, <2>1
  <2>2. CASE n = cap
    <3>1. n = slice.cap /\ i \in 1 .. slice.len
      BY <1>2, <1>3, <1>14, <2>2, CapAssumption
    <3> QED
      BY <1>11, <1>12, <2>2, <3>1
  <2> QED
    BY <2>1, <2>2
<1>15. \A n \in Cap : heap'[n] \in [1 .. n -> Conn \union {Nobody}]
  BY <1>8, <1>10, <1>12
<1> QED
  BY <1>3, <1>11, <1>12, <1>13, <1>14, <1>15

-----------------------------------------------------------------------------
(***************************************************************************)
(* A step that leaves the list alone and moves connections within Listed,  *)
(* or outside of it, keeps the list exact.                                 *)
(***************************************************************************)
LEMMA ListKept ==
    ASSUME Exact, UNCHANGED list,
           \A c \in Conn : state'[c] \in Listed <=> state[c] \in Listed
    PROVE  Exact'
<1>1. Subscribed' = Subscribed
  BY DEF Subscribed
<1>2. Live' = Live /\ Members' = Members /\ \A i : Cell(i)' = Cell(i)
  BY <1>1 DEF Live, Members, Cell, list
<1> QED
  BY <1>1, <1>2 DEF Exact, list

\* A walk is as frozen as before when neither it nor the list has changed.
LEMMA WalkKept ==
    ASSUME NEW c \in Conn, Frozen(c), UNCHANGED list,
           header'[c] = header[c], at'[c] = at[c], got'[c] = got[c], due'[c] = due[c]
    PROVE  Frozen(c)'
  BY DEF Frozen, Seen, list

\* Subscribe adds the connection behind the others and disturbs no walk.
LEMMA SubscribeStep ==
    ASSUME IInv, NEW c \in Conn, Subscribe(c)
    PROVE  IInv'
<1> USE DEF IInv
<1>1. state[c] = "open" /\ state[c] \notin Listed /\ lock = Nobody /\ AppendSub(c)
  BY DEF Subscribe, Listed
<1>2. /\ state' = [state EXCEPT ![c] = "subscribed"]
      /\ UNCHANGED <<lock, gap, walk, sent>>
  BY DEF Subscribe, Goto
<1>3. /\ slice' \in Header
      /\ slice'.len = slice.len + 1
      /\ slice'.len <= slice'.cap
      /\ slice.cap <= slice'.cap
      /\ DOMAIN heap' = Cap
      /\ \A n \in Cap : heap'[n] \in [1 .. n -> Conn \union {Nobody}]
      /\ \A i \in 1 .. slice.len : heap'[slice'.cap][i] = heap[slice.cap][i]
      /\ heap'[slice'.cap][slice'.len] = c
      /\ \A n \in Cap : n <= slice.cap =>
            \A i \in 1 .. n : (n = slice.cap => i <= slice.len) => heap'[n][i] = heap[n][i]
  BY <1>1, AppendEffect
<1>4. WellTyped'
  BY <1>2, <1>3 DEF WellTyped, States, walk
<1>5. Locking'
  BY <1>1, <1>2, ConnAssumption DEF Locking, WellTyped
<1>6. Subscribed' = Subscribed \union {c} /\ c \notin Subscribed
  BY <1>1, <1>2 DEF Subscribed, Listed, WellTyped
<1>7. Members = Subscribed /\ Members' = Subscribed'
  BY <1>1, <1>2, ConnAssumption DEF Members, Subscribed
<1>8. slice.len \in Nat /\ Live = 1 .. slice.len /\ Live' = 1 .. slice.len + 1
  BY <1>1, <1>2, <1>3 DEF Live, WellTyped, Header
<1>9. slice'.len = Cardinality(Subscribed')
  <2>1. IsFiniteSet(Subscribed)
    BY ConnAssumption, FS_Subset DEF Subscribed
  <2>2. Cardinality(Subscribed \union {c}) = Cardinality(Subscribed) + 1
    BY <1>6, <2>1, FS_AddElement
  <2> QED
    BY <1>3, <1>6, <2>2 DEF Exact
<1>10. PICK last \in Nat : last = slice.len + 1
  BY <1>8
<1>11. Cell(last)' = c /\ \A i \in Live : Cell(i)' = Cell(i)
  BY <1>3, <1>8, <1>10 DEF Cell
<1>12. Exact'
  <2>1. \A i \in Live' : i = last \/ i \in Live
    BY <1>8, <1>10
  <2>2. \A i \in Live : Cell(i)' \in Subscribed
    BY <1>7, <1>11 DEF Exact
  <2>3. \A i \in Live' : Cell(i)' \in Members'
    BY <1>6, <1>7, <1>11, <2>1, <2>2
  <2>4. \A i, j \in Live' : Cell(i)' = Cell(j)' => i = j
    <3> SUFFICES ASSUME NEW i \in Live', NEW j \in Live', Cell(i)' = Cell(j)'
                 PROVE  i = j
      OBVIOUS
    <3>1. CASE i \in Live /\ j \in Live
      BY <1>11, <3>1 DEF Exact
    <3>2. CASE i \in Live /\ j = last
      BY <1>6, <1>11, <2>2, <3>2
    <3>3. CASE j \in Live /\ i = last
      BY <1>6, <1>11, <2>2, <3>3
    <3> QED
      BY <2>1, <3>1, <3>2, <3>3
  <2>5. \A d \in Members' : \E i \in Live' : Cell(i)' = d
    <3> SUFFICES ASSUME NEW d \in Members' PROVE \E i \in Live' : Cell(i)' = d
      OBVIOUS
    <3>1. CASE d = c
      BY <1>8, <1>10, <1>11, <3>1
    <3>2. CASE d # c
      <4>1. d \in Members
        BY <1>6, <1>7, <3>2
      <4>2. PICK i \in Live : Cell(i) = d
        BY <4>1 DEF Exact
      <4> QED
        BY <1>8, <1>10, <1>11, <4>2
    <3> QED
      BY <3>1, <3>2
  <2> QED
    BY <1>3, <1>9, <2>3, <2>4, <2>5 DEF Exact
<1>13. Walks'
  <2> SUFFICES ASSUME NEW b \in Conn, state'[b] = "broadcasting", calm'[b]
               PROVE  Frozen(b)'
    BY DEF Walks
  <2>1. Frozen(b)
    BY <1>2 DEF Walks, WellTyped, walk
  <2>2. UNCHANGED <<header, at, got, due>>
    BY <1>2 DEF walk
  <2>3. /\ header[b].cap \in Cap \union {0} /\ header[b].len \in Nat
        /\ slice.cap \in Nat /\ header[b].cap \in Nat /\ slice'.cap \in Nat
    <3>1. /\ header[b] \in Header /\ slice \in Header /\ slice' \in Header
      BY <1>3 DEF WellTyped
    <3>2. \A n \in Cap : n \in Nat
      BY CapAssumption
    <3> QED
      BY <3>1, <3>2 DEF Header
  <2>4. ASSUME NEW i \in 1 .. header[b].len PROVE Seen(b, i)' = Seen(b, i)
    <3>1. i \in 1 .. header[b].cap /\ header[b].cap \in Cap /\ i <= slice.len
          /\ header[b].cap <= slice.cap
      BY <1>8, <2>1, <2>3 DEF Frozen
    <3> QED
      BY <1>3, <2>2, <3>1 DEF Seen
  <2>5. /\ header[b].len <= slice'.len /\ header[b].cap <= slice'.cap
    BY <1>3, <1>8, <2>1, <2>3 DEF Frozen
  <2>6. header'[b] = header[b] /\ at'[b] = at[b] /\ got'[b] = got[b] /\ due'[b] = due[b]
    BY <2>2
  <2> QED
    BY <1>1, <1>2, <2>1, <2>4, <2>5, <2>6 DEF Frozen
<1> QED
  BY <1>4, <1>5, <1>12, <1>13

(***************************************************************************)
(* Disconnect and the end of an idle connection touch neither list nor     *)
(* walks.                                                                  *)
(***************************************************************************)
LEMMA LeaveStep ==
    ASSUME IInv, NEW c \in Conn, Disconnect(c) \/ DisconnectEarly(c)
    PROVE  IInv'
<1> USE DEF IInv
<1>1. UNCHANGED <<list, walk, sent>>
  BY DEF Disconnect, DisconnectEarly
<1>2. PICK s \in {"leaving", "closed"} :
         /\ state' = [state EXCEPT ![c] = s]
         /\ s = "leaving" => state[c] = "subscribed"
         /\ s = "closed" => state[c] = "open"
  BY DEF Disconnect, DisconnectEarly, Goto
<1>3. WellTyped'
  BY <1>1, <1>2 DEF WellTyped, States, list, walk
<1>4. Locking'
  BY <1>1, <1>2 DEF Locking, WellTyped, list
<1>5. Exact'
  <2>1. \A d \in Conn : state'[d] \in Listed <=> state[d] \in Listed
    BY <1>2 DEF Listed, WellTyped
  <2> QED
    BY <1>1, <2>1, ListKept
<1>6. Walks'
  <2> SUFFICES ASSUME NEW b \in Conn, state'[b] = "broadcasting", calm'[b]
               PROVE  Frozen(b)'
    BY DEF Walks
  <2>1. Frozen(b)
    BY <1>1, <1>2 DEF Walks, WellTyped, walk
  <2> QED
    BY <1>1, <2>1, WalkKept DEF walk
<1> QED
  BY <1>3, <1>4, <1>5, <1>6

\* Unsubscribe finds its cell, which becomes the hole, and ends the calm.
LEMMA FindStep ==
    ASSUME IInv, NEW c \in Conn, UnsubscribeFind(c)
    PROVE  IInv'
<1> USE DEF IInv
<1>1. /\ state[c] = "leaving" /\ lock = Nobody /\ lock' = c
      /\ state' = [state EXCEPT ![c] = "removing"]
      /\ due' = [b \in Conn |-> due[b] \ {c}]
      /\ calm' = [b \in Conn |-> FALSE]
      /\ UNCHANGED <<slice, heap, header, at, got, sent>>
  BY DEF UnsubscribeFind, Goto
<1>2. PICK n \in 1 .. slice.len : Found(c, n) /\ gap' = n
  BY DEF UnsubscribeFind
<1>3. slice.len \in Nat /\ n \in Nat
  BY <1>2 DEF WellTyped, Header
<1>4. WellTyped'
  BY <1>1, <1>2, <1>3 DEF WellTyped, States
<1>5. Locking'
  BY <1>1, <1>2, ConnAssumption DEF Locking, WellTyped
<1>6. Subscribed' = Subscribed
  BY <1>1 DEF Subscribed, Listed, WellTyped
<1>7. Members' = Members \ {c} /\ c \in Members
  BY <1>1, <1>6, ConnAssumption DEF Members, Subscribed, Listed
<1>8. Live = 1 .. slice.len /\ Live' = Live \ {n}
  BY <1>1, <1>2, ConnAssumption DEF Live
<1>9. Cell(n) = c /\ \A i : Cell(i)' = Cell(i)
  BY <1>1, <1>2 DEF Cell, Found
<1>10. Exact'
  <2>1. \A i \in Live' : Cell(i)' \in Members'
    BY <1>2, <1>7, <1>8, <1>9 DEF Exact
  <2>2. \A i, j \in Live' : Cell(i)' = Cell(j)' => i = j
    BY <1>8, <1>9 DEF Exact
  <2>3. \A d \in Members' : \E i \in Live' : Cell(i)' = d
    BY <1>7, <1>8, <1>9 DEF Exact
  <2> QED
    BY <1>1, <1>6, <2>1, <2>2, <2>3 DEF Exact
<1>11. Walks'
  BY <1>1 DEF Walks
<1> QED
  BY <1>4, <1>5, <1>10, <1>11

\* One element is moved down: the hole moves one cell up.
LEMMA MoveStep ==
    ASSUME IInv, NEW c \in Conn, UnsubscribeMove(c)
    PROVE  IInv'
<1> USE DEF IInv
<1>1. /\ lock = c /\ gap < slice.len /\ gap' = gap + 1
      /\ heap' = [heap EXCEPT ![slice.cap][gap] = heap[slice.cap][gap + 1]]
      /\ UNCHANGED <<state, slice, lock, walk, sent>>
  BY DEF UnsubscribeMove
<1>2. /\ slice.len \in Nat /\ gap \in 1 .. slice.len /\ slice.len <= slice.cap
      /\ slice.cap \in Cap \union {0}
  <2>1. slice.len \in Nat /\ slice.cap \in Cap \union {0}
    BY DEF WellTyped, Header
  <2>2. gap \in 1 .. slice.len
    BY <1>1, ConnAssumption DEF Locking
  <2>3. slice.len <= slice.cap
    BY DEF Exact
  <2> QED
    BY <2>1, <2>2, <2>3
<1>3. slice.cap \in Cap /\ slice.cap \in Nat
  <2>1. \A n \in Cap : n \in Nat
    BY CapAssumption
  <2> QED
    BY <1>2, <2>1
<1>4. gap \in 1 .. slice.cap /\ gap + 1 \in 1 .. slice.cap /\ gap + 1 \in 1 .. slice.len
  BY <1>1, <1>2, <1>3
<1>5. DOMAIN heap = Cap /\ \A n \in Cap : heap[n] \in [1 .. n -> Conn \union {Nobody}]
  BY DEF WellTyped
<1>6. /\ DOMAIN heap' = Cap
      /\ heap'[slice.cap] = [heap[slice.cap] EXCEPT ![gap] = heap[slice.cap][gap + 1]]
      /\ \A n \in Cap : n # slice.cap => heap'[n] = heap[n]
  BY <1>1, <1>3, <1>5
<1>7. heap'[slice.cap] \in [1 .. slice.cap -> Conn \union {Nobody}]
  BY <1>3, <1>4, <1>5, <1>6
<1>8. WellTyped'
  <2>1. \A n \in Cap : heap'[n] \in [1 .. n -> Conn \union {Nobody}]
    <3> SUFFICES ASSUME NEW n \in Cap PROVE heap'[n] \in [1 .. n -> Conn \union {Nobody}]
      OBVIOUS
    <3>1. CASE n = slice.cap
      BY <1>7, <3>1
    <3>2. CASE n # slice.cap
      BY <1>5, <1>6, <3>2
    <3> QED
      BY <3>1, <3>2
  <2>2. gap' \in Nat
    BY <1>1, <1>2
  <2> QED
    BY <1>1, <1>6, <2>1, <2>2 DEF WellTyped, walk
<1>9. Locking'
  BY <1>1, <1>4 DEF Locking
<1>10. PICK hole \in Nat : hole = gap
  BY <1>2
<1>11. /\ Cell(hole)' = Cell(hole + 1)
       /\ \A i \in 1 .. slice.len : i # hole => Cell(i)' = Cell(i)
  <2>1. \A i \in 1 .. slice.len : i \in 1 .. slice.cap
    BY <1>2, <1>3
  <2>2. heap[slice.cap] \in [1 .. slice.cap -> Conn \union {Nobody}]
    BY <1>3, <1>5
  <2>3. /\ heap'[slice.cap][gap] = heap[slice.cap][gap + 1]
        /\ \A i \in 1 .. slice.cap : i # gap => heap'[slice.cap][i] = heap[slice.cap][i]
    BY <1>4, <1>6, <2>2
  <2> QED
    BY <1>1, <1>10, <2>1, <2>3 DEF Cell
<1>12. Subscribed' = Subscribed /\ Members' = Members
  BY <1>1 DEF Subscribed, Members
<1>13. /\ Live = (1 .. slice.len) \ {hole}
       /\ Live' = (1 .. slice.len) \ {hole + 1}
       /\ hole \in 1 .. slice.len /\ hole + 1 \in 1 .. slice.len
  BY <1>1, <1>2, <1>4, <1>10, ConnAssumption DEF Live
<1>14. Exact'
  <2>1. hole # hole + 1
    BY <1>10
  <2>2. \A i \in Live' : i = hole \/ (i \in Live /\ i # hole + 1)
    BY <1>13
  <2>3. \A i \in Live' : Cell(i)' \in Members'
    BY <1>11, <1>12, <1>13, <2>1, <2>2 DEF Exact
  <2>4. \A i, j \in Live' : Cell(i)' = Cell(j)' => i = j
    BY <1>11, <1>13, <2>1, <2>2 DEF Exact
  <2>5. \A d \in Members' : \E i \in Live' : Cell(i)' = d
    <3> SUFFICES ASSUME NEW d \in Members' PROVE \E i \in Live' : Cell(i)' = d
      OBVIOUS
    <3>1. PICK i \in Live : Cell(i) = d
      BY <1>12 DEF Exact
    <3>2. CASE i = hole + 1
      BY <1>11, <1>13, <2>1, <3>1, <3>2
    <3>3. CASE i # hole + 1
      BY <1>11, <1>13, <3>1, <3>3
    <3> QED
      BY <3>2, <3>3
  <2> QED
    BY <1>1, <1>12, <2>3, <2>4, <2>5 DEF Exact
<1>15. Walks'
  <2> SUFFICES ASSUME NEW b \in Conn, state'[b] = "broadcasting", calm'[b]
               PROVE  FALSE
    BY DEF Walks
  <2> QED
    BY <1>1, ConnAssumption DEF Walks, Frozen, walk
<1> QED
  BY <1>8, <1>9, <1>14, <1>15

\* The hole has reached the end: the header gets shorter and the lock is free.
LEMMA DoneStep ==
    ASSUME IInv, NEW c \in Conn, UnsubscribeDone(c)
    PROVE  IInv'
<1> USE DEF IInv
<1>1. /\ lock = c /\ gap = slice.len /\ lock' = Nobody /\ gap' = 0
      /\ slice' = [slice EXCEPT !.len = @ - 1]
      /\ state' = [state EXCEPT ![c] = "closed"]
      /\ UNCHANGED <<heap, walk, sent>>
  BY DEF UnsubscribeDone, Goto
<1>2. slice.len \in Nat /\ slice.cap \in Cap \union {0}
  BY DEF WellTyped, Header
<1>3. gap \in 1 .. slice.len /\ state[c] = "removing"
  BY <1>1, ConnAssumption DEF Locking
<1>4. slice' \in Header /\ slice'.cap = slice.cap /\ slice'.len = slice.len - 1
      /\ slice.len - 1 \in Nat
  <2>1. slice.len - 1 \in Nat
    BY <1>2, <1>3
  <2>2. slice \in [cap : Cap \union {0}, len : Nat]
    BY DEF WellTyped, Header
  <2> QED
    BY <1>1, <2>1, <2>2 DEF Header
<1>5. WellTyped'
  BY <1>1, <1>4 DEF WellTyped, States, walk
<1>6. Locking'
  BY <1>1, ConnAssumption DEF Locking, WellTyped
<1>7. Subscribed' = Subscribed \ {c} /\ c \in Subscribed
  BY <1>1, <1>3 DEF Subscribed, Listed, WellTyped
<1>8. Members' = Members
  BY <1>1, <1>7, ConnAssumption DEF Members, Subscribed
<1>9. Live' = Live
  <2>1. Live = (1 .. slice.len) \ {slice.len}
    BY <1>1, ConnAssumption DEF Live
  <2>2. Live' = 1 .. slice.len - 1
    BY <1>1, <1>4 DEF Live
  <2> QED
    BY <1>2, <2>1, <2>2
<1>10. \A i : Cell(i)' = Cell(i)
  BY <1>1, <1>4 DEF Cell
<1>11. slice'.len = Cardinality(Subscribed')
  <2>1. IsFiniteSet(Subscribed)
    BY ConnAssumption, FS_Subset DEF Subscribed
  <2>2. Cardinality(Subscribed \ {c}) = Cardinality(Subscribed) - 1
    BY <1>7, <2>1, FS_RemoveElement
  <2> QED
    BY <1>4, <1>7, <2>2 DEF Exact
<1>12. slice'.len <= slice'.cap
  <2>1. slice.len <= slice.cap
    BY DEF Exact
  <2>2. slice.cap \in Nat
    <3>1. \A n \in Cap : n \in Nat
      BY CapAssumption
    <3> QED
      BY <1>2, <3>1
  <2> QED
    BY <1>2, <1>4, <2>1, <2>2
<1>13. Exact'
  BY <1>8, <1>9, <1>10, <1>11, <1>12 DEF Exact
<1>14. Walks'
  <2> SUFFICES ASSUME NEW b \in Conn, state'[b] = "broadcasting", calm'[b]
               PROVE  FALSE
    BY DEF Walks
  <2> QED
    BY <1>1, ConnAssumption DEF Walks, Frozen, WellTyped, walk
<1> QED
  BY <1>5, <1>6, <1>13, <1>14

\* A broadcast copies the header of an exact list: everybody due is under it, once.
LEMMA StartStep ==
    ASSUME IInv, NEW c \in Conn, BroadcastStart(c)
    PROVE  IInv'
<1> USE DEF IInv
<1>1. /\ state[c] = "subscribed" /\ lock = Nobody
      /\ state' = [state EXCEPT ![c] = "broadcasting"]
      /\ header' = [header EXCEPT ![c] = slice]
      /\ at' = [at EXCEPT ![c] = 1]
      /\ got' = [got EXCEPT ![c] = Idle]
      /\ due' = [due EXCEPT ![c] = {d \in Conn : state[d] \in Listed}]
      /\ calm' = [calm EXCEPT ![c] = TRUE]
      /\ UNCHANGED list
  BY DEF BroadcastStart, Goto
<1>2. Idle \in [Conn -> Nat] /\ \A d \in Conn : Idle[d] = 0
  BY DEF Idle
<1>3. WellTyped'
  <2>1. state' \in [Conn -> States] /\ calm' \in [Conn -> BOOLEAN]
    BY <1>1 DEF WellTyped, States
  <2>2. header' \in [Conn -> Header] /\ at' \in [Conn -> Nat \ {0}]
    BY <1>1, <1>2 DEF WellTyped
  <2>3. got' \in [Conn -> [Conn -> Nat]]
    BY <1>1, <1>2 DEF WellTyped
  <2>4. due' \in [Conn -> SUBSET Conn]
    BY <1>1 DEF WellTyped
  <2> QED
    BY <1>1, <2>1, <2>2, <2>3, <2>4 DEF WellTyped, list
<1>4. Locking'
  BY <1>1 DEF Locking, WellTyped, list
<1>5. Exact'
  <2>1. \A d \in Conn : state'[d] \in Listed <=> state[d] \in Listed
    BY <1>1 DEF Listed, WellTyped
  <2> QED
    BY <1>1, <2>1, ListKept
<1>6. Frozen(c)'
  <2>1. /\ header'[c] = slice /\ at'[c] = 1 /\ got'[c] = Idle /\ due'[c] = Subscribed
        /\ slice' = slice /\ heap' = heap /\ lock' = lock
    BY <1>1 DEF WellTyped, Subscribed, list
  <2>2. \A i : Seen(c, i)' = Cell(i)
    BY <2>1 DEF Seen, Cell
  <2>3. /\ slice.len \in Nat /\ slice.cap \in Cap \union {0} /\ slice.len <= slice.cap
        /\ Live = 1 .. slice.len /\ Members = Subscribed
    BY <1>1, ConnAssumption DEF WellTyped, Header, Exact, Live, Members, Subscribed
  <2>4. \A i \in 1 .. slice.len : Cell(i) \in Conn
    BY <2>3 DEF Exact, Subscribed
  <2>5. \A i, j \in 1 .. slice.len : Cell(i) = Cell(j) => i = j
    BY <2>3 DEF Exact
  <2>6. \A d \in Subscribed : \E i \in 1 .. slice.len : Cell(i) = d
    BY <2>3 DEF Exact
  <2>7. \A i \in 1 .. slice.len : ~(i < 1)
    BY <2>3
  <2>8. slice.len <= slice.len /\ slice.cap <= slice.cap
    <3>1. \A n \in Cap : n \in Nat
      BY CapAssumption
    <3> QED
      BY <2>3, <3>1
  <2> QED
    BY <1>1, <1>2, <2>1, <2>2, <2>3, <2>4, <2>5, <2>6, <2>7, <2>8 DEF Frozen
<1>7. Walks'
  <2> SUFFICES ASSUME NEW b \in Conn, state'[b] = "broadcasting", calm'[b], b # c
               PROVE  Frozen(b)'
    BY <1>6 DEF Walks
  <2>1. Frozen(b)
    BY <1>1 DEF Walks, WellTyped
  <2>2. header'[b] = header[b] /\ at'[b] = at[b] /\ got'[b] = got[b] /\ due'[b] = due[b]
    BY <1>1 DEF WellTyped
  <2> QED
    BY <1>1, <2>1, <2>2, WalkKept
<1> QED
  BY <1>3, <1>4, <1>5, <1>7

\* A turn of the walk: a connection not met before, since the cells are distinct.
LEMMA SendStep ==
    ASSUME IInv, NEW c \in Conn, Send(c)
    PROVE  IInv'
<1> USE DEF IInv
<1>1. /\ state[c] = "broadcasting" /\ at[c] <= header[c].len
      /\ got' = [got EXCEPT ![c][Target(c)] = @ + 1]
      /\ at' = [at EXCEPT ![c] = @ + 1]
      /\ UNCHANGED <<state, list, header, due, calm, sent>>
  BY DEF Send
<1>2. at[c] \in Nat /\ at[c] + 1 \in Nat \ {0} /\ at[c] \in 1 .. header[c].len
  BY <1>1 DEF WellTyped, Header
<1>3. got[c] \in [Conn -> Nat] /\ got'[c] = [got[c] EXCEPT ![Target(c)] = @ + 1]
  BY <1>1 DEF WellTyped
<1>4. got'[c] \in [Conn -> Nat]
  <2>1. CASE Target(c) \in Conn
    <3>1. got[c][Target(c)] + 1 \in Nat
      BY <1>3, <2>1
    <3> QED
      BY <1>3, <2>1, <3>1
  <2>2. CASE Target(c) \notin Conn
    <3>1. got'[c] = got[c]
      BY <1>3, <2>2
    <3> QED
      BY <1>3, <3>1
  <2> QED
    BY <2>1, <2>2
<1>5. WellTyped'
  <2>1. got' \in [Conn -> [Conn -> Nat]]
    BY <1>1, <1>3, <1>4 DEF WellTyped
  <2>2. at' \in [Conn -> Nat \ {0}]
    BY <1>1, <1>2 DEF WellTyped
  <2> QED
    BY <1>1, <2>1, <2>2 DEF WellTyped, list
<1>6. Locking'
  BY <1>1 DEF Locking, list
<1>7. Exact'
  BY <1>1, ListKept
<1>8. ASSUME Frozen(c) PROVE Frozen(c)'
  <2>1. PICK n \in 1 .. header[c].len : n = at[c]
    BY <1>2
  <2>2. /\ header' = header /\ heap' = heap /\ slice' = slice /\ lock' = lock /\ due' = due
        /\ at'[c] = n + 1
    BY <1>1, <2>1 DEF WellTyped, list
  <2>3. \A i : Seen(c, i)' = Seen(c, i)
    BY <2>2 DEF Seen
  <2>4. Target(c) = Seen(c, n) /\ Seen(c, n) \in Conn
    BY <1>8, <2>1 DEF Target, Seen, Frozen
  <2>5. ASSUME NEW i \in 1 .. header[c].len
        PROVE  got'[c][Seen(c, i)] = IF i < n + 1 THEN 1 ELSE 0
    <3>1. Seen(c, i) \in Conn /\ (Seen(c, i) = Seen(c, n) => i = n)
          /\ got[c][Seen(c, i)] = IF i < n THEN 1 ELSE 0
      BY <1>8, <2>1 DEF Frozen
    <3>2. CASE i = n
      <4>1. got[c][Seen(c, n)] = 0 /\ got'[c][Seen(c, n)] = got[c][Seen(c, n)] + 1
        BY <1>3, <2>4, <3>1, <3>2
      <4> QED
        BY <3>2, <4>1
    <3>3. CASE i # n
      <4>1. got'[c][Seen(c, i)] = got[c][Seen(c, i)]
        BY <1>3, <2>4, <3>1, <3>3
      <4> QED
        BY <3>1, <3>3, <4>1
    <3> QED
      BY <3>2, <3>3
  <2> QED
    BY <1>8, <2>2, <2>3, <2>5 DEF Frozen
<1>9. Walks'
  <2> SUFFICES ASSUME NEW b \in Conn, state'[b] = "broadcasting", calm'[b]
               PROVE  Frozen(b)'
    BY DEF Walks
  <2>1. Frozen(b)
    BY <1>1 DEF Walks
  <2>2. CASE b # c
    <3>1. header'[b] = header[b] /\ at'[b] = at[b] /\ got'[b] = got[b] /\ due'[b] = due[b]
      BY <1>1, <2>2 DEF WellTyped
    <3> QED
      BY <1>1, <2>1, <3>1, WalkKept
  <2> QED
    BY <1>8, <2>1, <2>2
<1> QED
  BY <1>5, <1>6, <1>7, <1>9

\* The end of a broadcast: its walk is over, the others go on.
LEMMA ReturnStep ==
    ASSUME IInv, NEW c \in Conn, BroadcastReturn(c)
    PROVE  IInv'
<1> USE DEF IInv
<1>1. /\ state[c] = "broadcasting"
      /\ state' = [state EXCEPT ![c] = "subscribed"]
      /\ header' = [header EXCEPT ![c] = Empty]
      /\ at' = [at EXCEPT ![c] = 1]
      /\ got' = [got EXCEPT ![c] = Idle]
      /\ due' = [due EXCEPT ![c] = {}]
      /\ calm' = [calm EXCEPT ![c] = TRUE]
      /\ UNCHANGED list
  BY DEF BroadcastReturn, Walked, Goto
<1>2. Idle \in [Conn -> Nat] /\ Empty \in Header
  BY DEF Idle, Empty, Header
<1>3. WellTyped'
  <2>1. state' \in [Conn -> States] /\ calm' \in [Conn -> BOOLEAN]
    BY <1>1 DEF WellTyped, States
  <2>2. header' \in [Conn -> Header] /\ at' \in [Conn -> Nat \ {0}]
    BY <1>1, <1>2 DEF WellTyped
  <2>3. got' \in [Conn -> [Conn -> Nat]]
    BY <1>1, <1>2 DEF WellTyped
  <2>4. due' \in [Conn -> SUBSET Conn]
    BY <1>1 DEF WellTyped
  <2> QED
    BY <1>1, <2>1, <2>2, <2>3, <2>4 DEF WellTyped, list
<1>4. Locking'
  BY <1>1 DEF Locking, WellTyped, list
<1>5. Exact'
  <2>1. \A d \in Conn : state'[d] \in Listed <=> state[d] \in Listed
    BY <1>1 DEF Listed, WellTyped
  <2> QED
    BY <1>1, <2>1, ListKept
<1>6. Walks'
  <2> SUFFICES ASSUME NEW b \in Conn, state'[b] = "broadcasting", calm'[b]
               PROVE  Frozen(b)'
    BY DEF Walks
  <2>1. b # c /\ Frozen(b)
    BY <1>1 DEF Walks, WellTyped
  <2>2. header'[b] = header[b] /\ at'[b] = at[b] /\ got'[b] = got[b] /\ due'[b] = due[b]
    BY <1>1, <2>1 DEF WellTyped
  <2> QED
    BY <1>1, <2>1, <2>2, WalkKept
<1> QED
  BY <1>3, <1>4, <1>5, <1>6

-----------------------------------------------------------------------------
\* The inductive invariant holds whoever subscribes, leaves and broadcasts.
LEMMA Invariance == Spec => []IInv
<1>1. Init => IInv
  <2> SUFFICES ASSUME Init PROVE IInv
    OBVIOUS
  <2>1. WellTyped
    BY DEF Init, WellTyped, States, Header, Empty, Idle
  <2>2. Locking
    BY ConnAssumption DEF Init, Locking
  <2>3. Subscribed = {} /\ Live = {} /\ Members = {}
    BY DEF Init, Subscribed, Live, Members, Listed, Empty
  <2>4. Exact
    BY <2>3, FS_EmptySet DEF Init, Exact, Empty
  <2>5. Walks
    BY DEF Init, Walks
  <2> QED
    BY <2>1, <2>2, <2>4, <2>5 DEF IInv
<1>2. IInv /\ [Next]_vars => IInv'
  <2> SUFFICES ASSUME IInv, [Next]_vars PROVE IInv'
    OBVIOUS
  <2>1. CASE Next
    BY <2>1, SubscribeStep, LeaveStep, FindStep, MoveStep, DoneStep, StartStep, SendStep,
       ReturnStep DEF Next
  <2>2. CASE UNCHANGED vars
    <3>1. UNCHANGED <<state, list, walk>>
      BY <2>2 DEF vars
    <3>2. WellTyped' /\ Locking'
      BY <3>1 DEF IInv, WellTyped, Locking, list, walk
    <3>3. Exact'
      BY <3>1, ListKept DEF IInv
    <3>4. Walks'
      BY <3>1, WalkKept DEF IInv, Walks, walk
    <3> QED
      BY <3>2, <3>3, <3>4 DEF IInv
  <2> QED
    BY <2>1, <2>2
<1> QED
  BY <1>1, <1>2, PTL DEF Spec

(***************************************************************************)
(* Subscribe and Unsubscribe keep the list exact: whenever the lock is     *)
(* free it holds every subscribed connection once and no other, through    *)
(* any growth and compaction of the array.                                 *)
(***************************************************************************)
THEOREM ListExact == Spec => []SliceIsSubscribers
<1>1. IInv => SliceIsSubscribers
  <2> SUFFICES ASSUME IInv, lock = Nobody
               PROVE  /\ slice.len = Cardinality({c \in Conn : state[c] \in Listed})
                      /\ \A c \in Conn : state[c] \in Listed =>
                             \E i \in 1 .. slice.len : heap[slice.cap][i] = c
    BY DEF SliceIsSubscribers
  <2>1. Live = 1 .. slice.len /\ Members = Subscribed
    BY ConnAssumption DEF Live, Members, Subscribed
  <2>2. slice.len = Cardinality(Subscribed)
    BY DEF IInv, Exact
  <2> QED
    BY <2>1, <2>2 DEF IInv, Exact, Subscribed, Cell
<1> QED
  BY <1>1, Invariance, PTL

(***************************************************************************)
(* Broadcast's walk after it gave the lock back is harmless while nobody   *)
(* unsubscribes: it reaches everybody who was subscribed when it started   *)
(* exactly once, although Subscribe writes to the same arrays meanwhile.   *)
(***************************************************************************)
THEOREM CalmWalk == Spec => []CalmBroadcastReachesAll
<1>1. IInv => CalmBroadcastReachesAll
  <2> SUFFICES ASSUME IInv, NEW c \in Conn, Walked(c), calm[c], NEW d \in due[c]
               PROVE  got[c][d] = 1
    BY DEF CalmBroadcastReachesAll
  <2>1. Frozen(c) /\ at[c] > header[c].len
    BY DEF IInv, Walks, Walked
  <2>2. PICK i \in 1 .. header[c].len : Seen(c, i) = d
    BY <2>1 DEF Frozen
  <2>3. i < at[c]
    BY <2>1 DEF IInv, WellTyped, Header
  <2> QED
    BY <2>1, <2>2, <2>3 DEF Frozen
<1> QED
  BY <1>1, Invariance, PTL

=============================================================================
