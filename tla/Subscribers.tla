----------------------------- MODULE Subscribers -----------------------------
(***************************************************************************)
(* The subscriber list of one entry in the flourish SyncService            *)
(* (server/application/sync_service.go) and the WebSocket connections that *)
(* use it (server/handler/ws.go).                                          *)
(*                                                                         *)
(* The list is a Go slice: a header (length, capacity) over an array that  *)
(* several headers may share.  Subscribe appends, in place while there is  *)
(* room, else into a new array of twice the capacity.  Unsubscribe moves   *)
(* the tail of the array one cell down.  Both hold the write lock.         *)
(* Broadcast copies the header under the read lock and walks the array     *)
(* AFTER it has given the lock back, so its reads race with those moves:   *)
(* each cell is read, and moved, in a step of its own.                     *)
(*                                                                         *)
(* Capacities only grow, so an array is named by its capacity.  Cells      *)
(* count from 1, in the code from 0.                                       *)
(***************************************************************************)
EXTENDS Integers, FiniteSets

CONSTANTS
    Conn,            \* connections, each with its own wsSubscriber
    Cap,             \* capacities append may reach: 1, 2, 4 ...
    MaxBroadcasts,   \* bound: broadcasts in a behaviour
    Nobody           \* a nil Subscriber; also: no one holds the write lock

ASSUME CapAssumption ==
    /\ Cap \subseteq Nat \ {0} /\ 1 \in Cap
    /\ \A n \in Cap : n < Cardinality(Conn) => 2 * n \in Cap
ASSUME ConnAssumption == IsFiniteSet(Conn) /\ Nobody \notin Conn
ASSUME BoundAssumption == MaxBroadcasts \in Nat

VARIABLES
    state,     \* per connection: what its ServeHTTP goroutine is doing
    slice,     \* subscribers[entry]: [cap, len]
    heap,      \* the arrays, by capacity
    lock,      \* SyncService.mu: the connection that holds it for writing
    gap,       \* Unsubscribe: the cell the next element is moved into
    header,    \* Broadcast: the header it copied, per broadcasting connection
    at,        \* Broadcast: the next cell it reads
    got,       \* history: how often each connection got the current broadcast
    due,       \* history: the connections subscribed ever since it started
    calm,      \* history: no Unsubscribe ran since it started
    sent       \* bounded by MaxBroadcasts

list == <<slice, heap, lock, gap>>
walk == <<header, at, got, due, calm>>
vars == <<state, list, walk, sent>>

Listed == {"subscribed", "broadcasting", "leaving", "removing"}

Empty == [cap |-> 0, len |-> 0]

Idle == [c \in Conn |-> 0]

Init ==
    /\ state = [c \in Conn |-> "open"]
    /\ slice = Empty
    /\ heap = [n \in Cap |-> [i \in 1 .. n |-> Nobody]]
    /\ lock = Nobody
    /\ gap = 0
    /\ header = [c \in Conn |-> Empty]
    /\ at = [c \in Conn |-> 1]
    /\ got = [c \in Conn |-> Idle]
    /\ due = [c \in Conn |-> {}]
    /\ calm = [c \in Conn |-> TRUE]
    /\ sent = 0

Goto(c, s) == state' = [state EXCEPT ![c] = s]

-----------------------------------------------------------------------------
\* append(subs, c): in place, or into a new array of twice the capacity.
AppendSub(c) ==
    LET len == slice.len + 1
        cap == IF slice.len < slice.cap THEN slice.cap
               ELSE IF slice.cap = 0 THEN 1 ELSE 2 * slice.cap
    IN  /\ slice' = [cap |-> cap, len |-> len]
        /\ heap' = [heap EXCEPT ![cap] =
                      [i \in 1 .. cap |->
                          CASE i = len -> c
                            [] i < len -> heap[slice.cap][i]
                            [] i > len -> @[i]]]

\* The first op or sync request of a connection: ensureSubscribed, Subscribe.
Subscribe(c) ==
    /\ state[c] = "open"
    /\ lock = Nobody
    /\ AppendSub(c)
    /\ Goto(c, "subscribed")
    /\ UNCHANGED <<lock, gap, walk, sent>>

\* The read loop ends: the deferred Unsubscribe is about to run.
Disconnect(c) ==
    /\ state[c] = "subscribed"
    /\ Goto(c, "leaving")
    /\ UNCHANGED <<list, walk, sent>>

\* The connection ends before it subscribed.
DisconnectEarly(c) ==
    /\ state[c] = "open"
    /\ Goto(c, "closed")
    /\ UNCHANGED <<list, walk, sent>>

(***************************************************************************)
(* Unsubscribe takes the lock and finds the subscriber at the first cell   *)
(* that holds it; append(subs[:i], subs[i+1:]...) then moves every later   *)
(* element down, in the array every header shares.                         *)
(***************************************************************************)
Found(c, i) ==
    /\ i \in 1 .. slice.len
    /\ heap[slice.cap][i] = c
    /\ \A j \in 1 .. i - 1 : heap[slice.cap][j] # c

UnsubscribeFind(c) ==
    /\ state[c] = "leaving"
    /\ lock = Nobody
    /\ \E i \in 1 .. slice.len : Found(c, i) /\ gap' = i
    /\ lock' = c
    /\ Goto(c, "removing")
    /\ due' = [b \in Conn |-> due[b] \ {c}]
    /\ calm' = [b \in Conn |-> FALSE]
    /\ UNCHANGED <<slice, heap, header, at, got, sent>>

UnsubscribeMove_Skips(c) ==                                        \* mutant
    /\ lock = c
    /\ gap < slice.len
    /\ gap' = slice.len
    /\ UNCHANGED <<state, slice, heap, lock, walk, sent>>

UnsubscribeMove(c) ==
    /\ lock = c
    /\ gap < slice.len
    /\ heap' = [heap EXCEPT ![slice.cap][gap] = heap[slice.cap][gap + 1]]
    /\ gap' = gap + 1
    /\ UNCHANGED <<state, slice, lock, walk, sent>>

\* The shorter header is stored; the last cell keeps its old element.
UnsubscribeDone(c) ==
    /\ lock = c
    /\ gap = slice.len
    /\ slice' = [slice EXCEPT !.len = @ - 1]
    /\ lock' = Nobody
    /\ gap' = 0
    /\ Goto(c, "closed")
    /\ UNCHANGED <<heap, walk, sent>>

-----------------------------------------------------------------------------
\* Broadcast, first half: the header is copied under the read lock.
BroadcastStart(c) ==
    /\ state[c] = "subscribed"
    /\ lock = Nobody
    /\ sent < MaxBroadcasts
    /\ sent' = sent + 1
    /\ header' = [header EXCEPT ![c] = slice]
    /\ at' = [at EXCEPT ![c] = 1]
    /\ got' = [got EXCEPT ![c] = Idle]
    /\ due' = [due EXCEPT ![c] = {d \in Conn : state[d] \in Listed}]
    /\ calm' = [calm EXCEPT ![c] = TRUE]
    /\ Goto(c, "broadcasting")
    /\ UNCHANGED list

\* The subscriber the walk reads next.
Target(c) == heap[header[c].cap][at[c]]

Send_StopsEarly(c) ==                                              \* mutant
    /\ state[c] = "broadcasting"
    /\ at[c] <= header[c].len
    /\ got' = [got EXCEPT ![c][Target(c)] = @ + 1]
    /\ at' = [at EXCEPT ![c] = IF Target(c) = c THEN header[c].len + 1 ELSE @ + 1]
    /\ UNCHANGED <<state, list, header, due, calm, sent>>

\* One turn of the loop: Send writes, or ignores the error of a closed connection.
Send(c) ==
    /\ state[c] = "broadcasting"
    /\ at[c] <= header[c].len
    /\ got' = [got EXCEPT ![c][Target(c)] = @ + 1]
    /\ at' = [at EXCEPT ![c] = @ + 1]
    /\ UNCHANGED <<state, list, header, due, calm, sent>>

Walked(c) == state[c] = "broadcasting" /\ at[c] > header[c].len

\* The history of a finished broadcast is forgotten.
BroadcastReturn(c) ==
    /\ Walked(c)
    /\ header' = [header EXCEPT ![c] = Empty]
    /\ at' = [at EXCEPT ![c] = 1]
    /\ got' = [got EXCEPT ![c] = Idle]
    /\ due' = [due EXCEPT ![c] = {}]
    /\ calm' = [calm EXCEPT ![c] = TRUE]
    /\ Goto(c, "subscribed")
    /\ UNCHANGED <<list, sent>>

Next ==
    \E c \in Conn :
        \/ Subscribe(c)
        \/ Disconnect(c)
        \/ DisconnectEarly(c)
        \/ UnsubscribeFind(c)
        \/ UnsubscribeMove(c)
        \/ UnsubscribeDone(c)
        \/ BroadcastStart(c)
        \/ Send(c)
        \/ BroadcastReturn(c)

Spec == Init /\ [][Next]_vars

-----------------------------------------------------------------------------
(***************************************************************************)
(* Whenever the lock is free, the list holds every subscribed connection   *)
(* exactly once and no other: no subscriber is lost when the array grows   *)
(* or is compacted, and none that left stays in it.                        *)
(***************************************************************************)
SliceIsSubscribers ==
    lock = Nobody =>
        /\ slice.len = Cardinality({c \in Conn : state[c] \in Listed})
        /\ \A c \in Conn :
              state[c] \in Listed => \E i \in 1 .. slice.len : heap[slice.cap][i] = c

(***************************************************************************)
(* A broadcast during which nobody unsubscribed reaches every connection   *)
(* that was subscribed when it started, exactly once, whatever subscribes  *)
(* meanwhile.                                                              *)
(***************************************************************************)
CalmBroadcastReachesAll ==
    \A c \in Conn :
        Walked(c) /\ calm[c] => \A d \in due[c] : got[c][d] = 1

=============================================================================
