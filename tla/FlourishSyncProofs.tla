-------------------------- MODULE FlourishSyncProofs --------------------------
(***************************************************************************)
(* What holds of the browsers and the server of flourish for every set of  *)
(* clients and every number of connections, operations and faults.         *)
(***************************************************************************)
EXTENDS FlourishSync, FiniteSetTheorems, SequenceTheorems, TLAPS

(***************************************************************************)
(* The inductive invariant, first part: where an operation and what the    *)
(* server says of it can be.                                               *)
(***************************************************************************)

\* Nothing has happened yet on connections that are still to be accepted.
Unused(k) ==
    /\ handler[k].pc = "none" /\ ~handler[k].subscribed /\ ~handler[k].authenticated
    /\ handler[k].op = 0 /\ handler[k].diff = {}
    /\ up[k] = <<>> /\ down[k] = <<>>

Connections ==
    /\ \A c \in Client : gen[c] >= 1
    /\ \A k \in Conn : k[2] > gen[k[1]] => Unused(k)
    /\ \A c \in Client : sock[c] = "connecting" => Unused(Cur(c))
    /\ \A c \in Client : sock[c] = "open" => handler[Cur(c)].pc # "none"
    /\ \A k \in Conn : ~Up(k) => down[k] = <<>>
    /\ \A k \in Conn : handler[k].subscribed => handler[k].pc # "none"
    /\ \A k, l \in Conn : k \in Range(cells[l]) => handler[k].pc # "none"

\* An operation is on its way up once, before it is in the log ...
UpOnce ==
    /\ \A k \in Conn : \A i \in DOMAIN up[k] : up[k][i].type \in {"op", "sync_request"}
    /\ \A k \in Conn : \A i \in DOMAIN up[k] : up[k][i].type = "op" =>
           LET op == up[k][i].op
           IN  /\ op \in DOMAIN ops /\ ops[op] = k[1] /\ op \in pendingAcks[k[1]]
               /\ op \notin Range(log)
               /\ \A l \in Conn : \A j \in DOMAIN up[l] :
                      up[l][j].type = "op" /\ up[l][j].op = op => l = k /\ j = i
    /\ \A k \in Conn : \A i \in DOMAIN up[k] : up[k][i].type = "sync_request" =>
           i = 1 /\ up[k][i].seq <= Len(log)

\* ... and is then handled by the goroutine of one connection.
HandledOnce ==
    \A k \in Conn :
        /\ handler[k].op # 0 <=> handler[k].pc \in {"appended", "acked", "broadcast"}
        /\ handler[k].op # 0 =>
               /\ handler[k].op \in DOMAIN ops /\ ops[handler[k].op] = k[1]
               /\ handler[k].op \in Range(log)
               /\ \A l \in Conn : handler[l].op = handler[k].op => l = k
        /\ handler[k].pc = "appended" => handler[k].op \in pendingAcks[k[1]]
        /\ handler[k].diff \subseteq Range(log)
        /\ handler[k].diff # {} => handler[k].pc = "diff"

\* What the server writes is true of the log.
DownTrue ==
    \A k \in Conn : \A i \in DOMAIN down[k] :
        LET msg == down[k][i]
        IN  \/ /\ msg.type = "ack"
               /\ msg.op \in DOMAIN ops /\ ops[msg.op] = k[1]
               /\ msg.seq \in DOMAIN log /\ log[msg.seq] = msg.op
               /\ \A l \in Conn : handler[l].pc = "appended" => handler[l].op # msg.op
            \/ /\ msg.type = "sync"
               /\ msg.ops \subseteq Range(log) /\ msg.seq <= Len(log)

(***************************************************************************)
(* The list holds the connections that subscribed, each once.  A broadcast *)
(* that nobody disturbed has still to read cells of different connections, *)
(* and if it walks the list's present array, cells of the list.            *)
(***************************************************************************)
ListTrue ==
    /\ Range(list) = {k \in Conn : handler[k].subscribed}
    /\ \A l \in live : handler[l].pc = "broadcast"
    /\ \A l \in Conn : handler[l].pc # "broadcast" => DOMAIN cells[l] = {}
    /\ \A l \in Conn : handler[l].op \notin disturbed =>
           /\ IsInjective(cells[l])
           /\ l \in live => DOMAIN cells[l] \subseteq DOMAIN list

\* The log holds operations that were typed; a client's own are its to remember.
OpsKnown ==
    /\ Range(log) \subseteq DOMAIN ops
    /\ \A c \in Client : \A op \in pendingAcks[c] \union confirmedReqIds[c] : ops[op] = c
    /\ \A op \in DOMAIN ops : op \in doc[ops[op]]

\* The mark of a client is not below any of its own operations that was acknowledged.
AckedBelowMark ==
    \A op \in DOMAIN ops : op \notin pendingAcks[ops[op]] =>
        \E i \in DOMAIN log : log[i] = op /\ i <= lastServerSeq[ops[op]]

BaseInv ==
    /\ TypeOK
    /\ Connections
    /\ UpOnce
    /\ HandledOnce
    /\ DownTrue
    /\ ListTrue
    /\ OpsKnown
    /\ AckedBelowMark

(***************************************************************************)
(* Second part: tickets and documents that were left.                      *)
(***************************************************************************)
TicketSpent == \A k \in Conn : handler[k].authenticated => k[1] \notin tickets

LeftSilent ==
    \A c \in Client :
        /\ left[c] => ~mounted[c]
        /\ ~mounted[c] /\ sock[c] # "none" =>
               up[Cur(c)] = <<>> /\ ~handler[Cur(c)].subscribed

(***************************************************************************)
(* Third part: how often an operation comes back to the client that typed  *)
(* it.  Once its ack is received, or on its way on the present connection, *)
(* it is in no diff and in one broadcast at most; in none once the client  *)
(* has forgotten it.                                                       *)
(***************************************************************************)

\* The messages on their way to connection k that carry op.
Syncs(k, op) == {i \in DOMAIN down[k] : down[k][i].type = "sync" /\ op \in down[k][i].ops}

OnWayUp(k, op) == \E i \in DOMAIN up[k] : up[k][i].type = "op" /\ up[k][i].op = op

\* The broadcast of op has still to reach connection k.
Outstanding(k, op) ==
    \E l \in Conn :
        /\ handler[l].op = op
        /\ handler[l].pc \in {"appended", "acked"} \/ k \in Range(cells[l])

\* The ack of op is received, or can still come on connection k.
Settled(k, op) ==
    \/ op \notin pendingAcks[k[1]]
    \/ OnWayUp(k, op)
    \/ handler[k].pc = "appended" /\ handler[k].op = op
    \/ \E i \in DOMAIN down[k] : down[k][i].type = "ack" /\ down[k][i].op = op

NoDiff(k, op) ==
    /\ op \notin handler[k].diff
    /\ \A i \in DOMAIN up[k] : up[k][i].type = "sync_request" =>
           \A j \in up[k][i].seq + 1 .. Len(log) : log[j] # op

ComesOnce(k, op) ==
    /\ NoDiff(k, op)
    /\ \A i, j \in Syncs(k, op) : i = j
    /\ OnWayUp(k, op) \/ Outstanding(k, op) => Syncs(k, op) = {}
    /\ op \notin pendingAcks[k[1]] \union confirmedReqIds[k[1]] =>
           Syncs(k, op) = {} /\ ~Outstanding(k, op)

\* As long as no Unsubscribe comes into its broadcast.
OwnInv ==
    \A k \in Conn : \A op \in DOMAIN ops :
        k = Cur(k[1]) /\ ops[op] = k[1] /\ op \notin disturbed /\ Settled(k, op) => ComesOnce(k, op)

\* The client remembers an operation of its own whose broadcast has not begun.
Remembered ==
    \A k \in Conn :
        handler[k].pc \in {"appended", "acked"} /\ handler[k].op \notin disturbed =>
            handler[k].op \in pendingAcks[k[1]] \union confirmedReqIds[k[1]]

(***************************************************************************)
(* Fourth part: what a client that is connected has still to get.          *)
(***************************************************************************)
Coming(k, op) ==
    \/ op \in doc[k[1]] \union withheld \union disturbed
    \/ op \in handler[k].diff
    \/ Syncs(k, op) # {}
    \/ Outstanding(k, op)

\* The request with which the present connection began is the next that its goroutine reads.
Asking(k) == up[k] # <<>> /\ up[k][1] = [type |-> "sync_request", seq |-> asked[k[1]]]

Complete ==
    \A k \in Conn : k = Cur(k[1]) /\ mounted[k[1]] /\ sock[k[1]] = "open" =>
        \/ Asking(k)
        \/ /\ handler[k].subscribed
           /\ \A i \in asked[k[1]] + 1 .. Len(log) : Coming(k, log[i])

-----------------------------------------------------------------------------
(***************************************************************************)
(* Facts about the operators of the model.                                 *)
(***************************************************************************)

\* What the goroutine of a connection keeps.
HandlerState ==
    [pc : {"none", "read", "diff", "appended", "acked", "broadcast", "ended"},
     subscribed : BOOLEAN, authenticated : BOOLEAN,
     op : 0 .. MaxOps, diff : SUBSET OpId]

\* A connection is its client and its number.
LEMMA ConnFacts ==
    ASSUME TypeOK, Connections
    PROVE  /\ \A k \in Conn : k[1] \in Client /\ k[2] \in 1 .. MaxConns /\ k = <<k[1], k[2]>>
           /\ \A c \in Client : /\ Cur(c) \in Conn /\ Cur(c)[1] = c /\ Cur(c)[2] = gen[c]
           /\ \A k \in Conn : Up(k) <=> sock[k[1]] # "none" /\ k = Cur(k[1])
<1>1. \A k \in Conn : k[1] \in Client /\ k[2] \in 1 .. MaxConns /\ k = <<k[1], k[2]>>
  BY DEF Conn
<1>2. \A c \in Client : gen[c] \in 1 .. MaxConns
  BY DEF TypeOK, Connections
<1>3. \A c \in Client : Cur(c) \in Conn /\ Cur(c)[1] = c /\ Cur(c)[2] = gen[c]
  BY <1>2 DEF Cur, Conn
<1>4. \A k \in Conn : Up(k) <=> sock[k[1]] # "none" /\ k = Cur(k[1])
  BY <1>1 DEF Up, Cur
<1> QED
  BY <1>1, <1>3, <1>4

\* A write reaches the client of connection k, or nothing changes.
LEMMA WriteEffect ==
    ASSUME TypeOK, NEW k \in Conn, NEW msg \in Message, Write(k, msg)
    PROVE  /\ down' \in [Conn -> Seq(Message)]
           /\ \A l \in Conn : l # k => down'[l] = down[l]
           /\ Up(k) => down'[k] = Append(down[k], msg)
           /\ ~Up(k) => down'[k] = down[k]
  BY DEF TypeOK, Write

\* Appending a message, and taking the first one.
LEMMA AppendMessage ==
    ASSUME NEW q \in Seq(Message), NEW msg \in Message
    PROVE  /\ Append(q, msg) \in Seq(Message)
           /\ Len(Append(q, msg)) = Len(q) + 1
           /\ DOMAIN Append(q, msg) = DOMAIN q \union {Len(q) + 1}
           /\ Append(q, msg)[Len(q) + 1] = msg
           /\ \A i \in DOMAIN q : i \in Nat /\ i # Len(q) + 1 /\ Append(q, msg)[i] = q[i]
  OBVIOUS

\* What reading the first message leaves of a channel: the others, one place down.
LEMMA TailMessage ==
    ASSUME NEW q \in Seq(Message), q # <<>>
    PROVE  /\ Head(q) = q[1] /\ 1 \in DOMAIN q /\ q[1] \in Message
           /\ Tail(q) \in Seq(Message) /\ Len(Tail(q)) = Len(q) - 1
           /\ \A i \in DOMAIN Tail(q) : i \in Nat /\ i + 1 \in DOMAIN q /\ Tail(q)[i] = q[i + 1]
  OBVIOUS

\* One channel loses its first message: where the others were.
LEMMA TakeFirst ==
    ASSUME NEW f \in [Conn -> Seq(Message)], NEW g \in [Conn -> Seq(Message)],
           NEW k \in Conn, f[k] # <<>>,
           g[k] = Tail(f[k]), \A l \in Conn : l # k => g[l] = f[l]
    PROVE  \A l \in Conn : \A i \in DOMAIN g[l] :
               LET j == IF l = k THEN i + 1 ELSE i
               IN  i \in Nat /\ i >= 1 /\ j \in DOMAIN f[l] /\ g[l][i] = f[l][j]
<1> SUFFICES ASSUME NEW l \in Conn, NEW i \in DOMAIN g[l]
             PROVE  LET j == IF l = k THEN i + 1 ELSE i
                    IN  i \in Nat /\ i >= 1 /\ j \in DOMAIN f[l] /\ g[l][i] = f[l][j]
  OBVIOUS
<1>1. CASE l = k
  <2>1. f[k] \in Seq(Message) /\ i \in DOMAIN Tail(f[k])
    BY <1>1
  <2>2. i \in Nat /\ i + 1 \in DOMAIN f[k] /\ Tail(f[k])[i] = f[k][i + 1]
    BY <2>1, TailMessage
  <2>3. i >= 1
    BY <2>1
  <2> QED
    BY <1>1, <2>2, <2>3
<1>2. CASE l # k
  <2>1. f[l] \in Seq(Message) /\ g[l] = f[l]
    BY <1>2
  <2>2. i \in Nat /\ i >= 1
    BY <2>1
  <2> QED
    BY <1>2, <2>1, <2>2
<1> QED
  BY <1>1, <1>2

\* A channel to a client has one more message.
LEMMA AddLast ==
    ASSUME TypeOK, NEW k \in Conn, NEW msg \in Message,
           down'[k] = Append(down[k], msg), \A l \in Conn : l # k => down'[l] = down[l]
    PROVE  /\ \A l \in Conn : \A i \in DOMAIN down[l] : i \in DOMAIN down'[l] /\ down'[l][i] = down[l][i]
           /\ \A l \in Conn : \A i \in DOMAIN down'[l] :
                  i \in DOMAIN down[l] \/ (l = k /\ i = Len(down[k]) + 1)
           /\ Len(down[k]) + 1 \in DOMAIN down'[k] /\ down'[k][Len(down[k]) + 1] = msg
           /\ Len(down[k]) + 1 \notin DOMAIN down[k]
<1>1. down[k] \in Seq(Message)
  BY DEF TypeOK
<1>2. /\ DOMAIN down'[k] = DOMAIN down[k] \union {Len(down[k]) + 1}
      /\ down'[k][Len(down[k]) + 1] = msg
      /\ \A i \in DOMAIN down[k] : i # Len(down[k]) + 1 /\ down'[k][i] = down[k][i]
  BY <1>1, AppendMessage
<1> QED
  BY <1>2

\* What is in the log after one more event.
LEMMA AppendLog ==
    ASSUME TypeOK, NEW op \in OpId
    PROVE  /\ Append(log, op) \in Seq(OpId)
           /\ Len(Append(log, op)) = Len(log) + 1
           /\ \A i \in DOMAIN log : i \in DOMAIN Append(log, op) /\ Append(log, op)[i] = log[i]
           /\ Len(log) + 1 \in DOMAIN Append(log, op) /\ Append(log, op)[Len(log) + 1] = op
           /\ \A i \in DOMAIN Append(log, op) : i \in DOMAIN log \/ i = Len(log) + 1
           /\ Range(Append(log, op)) = Range(log) \union {op}
           /\ op \notin Range(log) => IsInjective(Append(log, op))
<1> DEFINE new == Append(log, op)
<1>1. log \in Seq(OpId) /\ IsInjective(log)
  BY DEF TypeOK
<1>2. /\ new \in Seq(OpId) /\ Len(new) = Len(log) + 1
      /\ \A i \in DOMAIN log : i \in DOMAIN new /\ new[i] = log[i]
      /\ Len(log) + 1 \in DOMAIN new /\ new[Len(log) + 1] = op
      /\ \A i \in DOMAIN new : i \in DOMAIN log \/ i = Len(log) + 1
  BY <1>1
<1>3. Range(new) = Range(log) \union {op}
  BY <1>2 DEF Range
<1>4. op \notin Range(log) => IsInjective(new)
  BY <1>1, <1>2 DEF Range, IsInjective
<1> QED
  BY <1>2, <1>3, <1>4

\* ListAfter lists what is above the mark.
LEMMA RangeOfSuffix ==
    ASSUME TypeOK, NEW n \in 0 .. Len(log)
    PROVE  /\ Range(SubSeq(log, n + 1, Len(log))) \subseteq Range(log)
           /\ \A i \in n + 1 .. Len(log) : log[i] \in Range(SubSeq(log, n + 1, Len(log)))
           /\ \A op \in Range(SubSeq(log, n + 1, Len(log))) : \E i \in n + 1 .. Len(log) : log[i] = op
<1> DEFINE suffix == SubSeq(log, n + 1, Len(log))
<1>1. log \in Seq(OpId)
  BY DEF TypeOK
<1>2. Len(suffix) = Len(log) - n /\ \A j \in 1 .. Len(log) - n : suffix[j] = log[n + j]
  BY <1>1
<1>3. DOMAIN suffix = 1 .. Len(log) - n /\ DOMAIN log = 1 .. Len(log)
  BY <1>1, <1>2
<1>4. ASSUME NEW op \in Range(suffix) PROVE \E i \in n + 1 .. Len(log) : log[i] = op
  <2>1. PICK j \in 1 .. Len(log) - n : suffix[j] = op
    BY <1>3, <1>4 DEF Range
  <2>2. n + j \in n + 1 .. Len(log) /\ log[n + j] = op
    BY <1>1, <1>2, <2>1, SMTT(30)
  <2> QED
    BY <2>2
<1>5. ASSUME NEW i \in n + 1 .. Len(log) PROVE log[i] \in Range(suffix)
  <2>1. i - n \in 1 .. Len(log) - n /\ suffix[i - n] = log[i]
    BY <1>1, <1>2
  <2> QED
    BY <1>3, <2>1 DEF Range
<1>6. Range(suffix) \subseteq Range(log)
  BY <1>1, <1>3, <1>4 DEF Range
<1> QED
  BY <1>4, <1>5, <1>6

\* Where an operation is in the log.
LEMMA ServerSeqFact ==
    ASSUME TypeOK, NEW op \in Range(log)
    PROVE  ServerSeq(op) \in DOMAIN log /\ log[ServerSeq(op)] = op
  BY DEF ServerSeq, Range

\* The log is not longer than what was typed.
LEMMA LogShort ==
    ASSUME TypeOK, OpsKnown
    PROVE  Len(log) \in 0 .. MaxOps
<1>1. log \in Seq(OpId) /\ IsInjective(log) /\ Len(ops) \in 0 .. MaxOps /\ DOMAIN ops = 1 .. Len(ops)
  BY DEF TypeOK
<1>2. log \in [1 .. Len(log) -> 1 .. Len(ops)]
  BY <1>1 DEF OpsKnown, Range
<1>3. log \in Injection(1 .. Len(log), 1 .. Len(ops))
  BY <1>1, <1>2 DEF Injection, IsInjective
<1>4. Len(log) \in Nat /\ Len(ops) \in Nat
  BY <1>1, SyncAssumption
<1>5. ASSUME NEW n \in Nat PROVE IsFiniteSet(1 .. n) /\ Cardinality(1 .. n) = n
  <2>1. 1 \in Int /\ n \in Int
    OBVIOUS
  <2>2. IsFiniteSet(1 .. n) /\ Cardinality(1 .. n) = IF 1 > n THEN 0 ELSE n - 1 + 1
    BY <2>1, FS_Interval, Zenon
  <2> QED
    BY <2>2
<1>6. Cardinality(1 .. Len(log)) <= Cardinality(1 .. Len(ops))
  BY <1>3, <1>4, <1>5, FS_Injection, Zenon
<1>7. Cardinality(1 .. Len(log)) = Len(log) /\ Cardinality(1 .. Len(ops)) = Len(ops)
  BY <1>4, <1>5
<1> QED
  BY <1>1, <1>4, <1>6, <1>7, SyncAssumption

-----------------------------------------------------------------------------
(***************************************************************************)
(* The effect of each action, variable by variable.                        *)
(***************************************************************************)

\* Lose and Disconnect: the connection of client c is gone.
LEMMA DownEffect ==
    ASSUME BaseInv, NEW c \in Client, Lose(c) \/ Disconnect(c)
    PROVE  /\ UNCHANGED <<gen, lastServerSeq, pendingAcks, confirmedReqIds, doc, asked, reapplied,
                          ops, up, handler, list, cap, cells, live, log, withheld, disturbed,
                          tickets>>
           /\ sock'[c] = "none" /\ \A d \in Client : d # c => sock'[d] = sock[d]
           /\ down'[Cur(c)] = <<>> /\ \A l \in Conn : l # Cur(c) => down'[l] = down[l]
           /\ \A d \in Client : Cur(d)' = Cur(d)
           /\ \A k \in Conn : Up(k)' <=> Up(k) /\ k[1] # c
           /\ TypeOK'
<1> USE DEF Lose, Disconnect, wsClient, manager, server, syncService
<1>1. TypeOK /\ Cur(c) \in Conn
  BY ConnFacts DEF BaseInv
<1>2. /\ UNCHANGED <<gen, lastServerSeq, pendingAcks, confirmedReqIds, doc, asked, reapplied,
                     ops, up, handler, list, cap, cells, live, log, withheld, disturbed, tickets>>
      /\ sock' = [sock EXCEPT ![c] = "none"]
      /\ down' = [down EXCEPT ![Cur(c)] = <<>>]
      /\ faults < MaxFaults /\ faults' = faults + 1
  OBVIOUS
<1>3. /\ sock'[c] = "none" /\ \A d \in Client : d # c => sock'[d] = sock[d]
      /\ sock' \in [Client -> {"none", "connecting", "open"}]
  BY <1>1, <1>2 DEF TypeOK
<1>4. /\ down'[Cur(c)] = <<>> /\ \A l \in Conn : l # Cur(c) => down'[l] = down[l]
      /\ down' \in [Conn -> Seq(Message)]
  BY <1>1, <1>2 DEF TypeOK
<1>5. \A d \in Client : Cur(d)' = Cur(d)
  BY <1>2 DEF Cur
<1>6. \A k \in Conn : Up(k)' <=> Up(k) /\ k[1] # c
  BY <1>2, <1>3 DEF Up, Conn
<1>7. {timer, closing, mounted, left}' \subseteq [Client -> BOOLEAN]
  <2>1. CASE Lose(c)
    BY <1>1, <2>1 DEF TypeOK
  <2>2. CASE Disconnect(c)
    BY <1>1, <2>2 DEF TypeOK
  <2> QED
    BY <2>1, <2>2
<1>8. faults' \in 0 .. MaxFaults
  BY <1>1, <1>2, SyncAssumption DEF TypeOK
<1>9. TypeOK'
  BY <1>1, <1>2, <1>3, <1>4, <1>7, <1>8, SMTT(30) DEF TypeOK
<1> QED
  BY <1>2, <1>3, <1>4, <1>5, <1>6, <1>9

\* Reconnect: client c has a connection that nothing was done with.
LEMMA ReconnectEffect ==
    ASSUME BaseInv, NEW c \in Client, Reconnect(c)
    PROVE  /\ UNCHANGED <<mounted, left, lastServerSeq, pendingAcks, confirmedReqIds, doc, asked,
                          reapplied, ops, up, down, handler, list, cap, cells, live, log,
                          withheld, disturbed, tickets>>
           /\ sock[c] = "none" /\ sock'[c] = "connecting"
           /\ \A d \in Client : d # c => sock'[d] = sock[d] /\ gen'[d] = gen[d] /\ Cur(d)' = Cur(d)
           /\ gen'[c] = gen[c] + 1 /\ Cur(c)' \in Conn /\ Unused(Cur(c)')
           /\ \A k \in Conn : Up(k)' <=> Up(k) \/ k = Cur(c)'
           /\ TypeOK'
<1> USE DEF Reconnect, wsClient, manager, server, syncService
<1>1. TypeOK /\ Connections
  BY DEF BaseInv
<1>2. /\ UNCHANGED <<closing, mounted, left, lastServerSeq, pendingAcks, confirmedReqIds, doc,
                     asked, reapplied, ops, up, down, handler, list, cap, cells, live, log,
                     withheld, disturbed, tickets, faults>>
      /\ sock[c] = "none" /\ gen[c] < MaxConns
      /\ sock' = [sock EXCEPT ![c] = "connecting"] /\ gen' = [gen EXCEPT ![c] = @ + 1]
      /\ timer' = [timer EXCEPT ![c] = FALSE]
  OBVIOUS
<1>3. /\ sock'[c] = "connecting" /\ gen'[c] = gen[c] + 1 /\ gen'[c] \in 1 .. MaxConns
      /\ \A d \in Client : d # c => sock'[d] = sock[d] /\ gen'[d] = gen[d]
      /\ sock' \in [Client -> {"none", "connecting", "open"}] /\ gen' \in [Client -> 0 .. MaxConns]
      /\ timer' \in [Client -> BOOLEAN]
  BY <1>1, <1>2, SyncAssumption DEF TypeOK
<1>4. Cur(c)' = <<c, gen'[c]>> /\ Cur(c)' \in Conn /\ \A d \in Client : d # c => Cur(d)' = Cur(d)
  BY <1>3 DEF Cur, Conn
<1>5. Unused(Cur(c)')
  <2>1. Cur(c)'[1] = c /\ Cur(c)'[2] > gen[c]
    BY <1>1, <1>3, <1>4 DEF TypeOK
  <2> QED
    BY <1>1, <1>4, <2>1 DEF Connections
<1>6. \A k \in Conn : Up(k)' <=> Up(k) \/ k = Cur(c)'
  <2> SUFFICES ASSUME NEW k \in Conn PROVE Up(k)' <=> Up(k) \/ k = Cur(c)'
    OBVIOUS
  <2>1. k[1] \in Client /\ k = <<k[1], k[2]>>
    BY DEF Conn
  <2>2. CASE k[1] = c
    BY <1>2, <1>3, <1>4, <2>1, <2>2 DEF Up
  <2>3. CASE k[1] # c
    BY <1>3, <1>4, <2>1, <2>3 DEF Up
  <2> QED
    BY <2>2, <2>3
<1>7. TypeOK'
  BY <1>1, <1>2, <1>3 DEF TypeOK
<1> QED
  BY <1>2, <1>3, <1>4, <1>5, <1>6, <1>7

\* Closed: only the timer.
LEMMA ClosedEffect ==
    ASSUME BaseInv, NEW c \in Client, Closed(c)
    PROVE  /\ UNCHANGED <<sock, gen, mounted, left, manager, ops, up, down, server>>
           /\ TypeOK'
  BY DEF BaseInv, TypeOK, Closed, manager, server, syncService

\* Type: a new operation, which is in no message and not in the log.
LEMMA TypeEffect ==
    ASSUME BaseInv, NEW c \in Client, Type(c)
    PROVE  LET op == Len(ops) + 1
               msg == [type |-> "op", op |-> op]
           IN  /\ UNCHANGED <<sock, gen, mounted, left, lastServerSeq, confirmedReqIds, asked,
                              reapplied, down, handler, list, cap, cells, live, log, withheld,
                              disturbed, tickets>>
               /\ mounted[c]
               /\ op \in OpId /\ op \notin DOMAIN ops /\ msg \in Message
               /\ DOMAIN ops' = DOMAIN ops \union {op} /\ ops'[op] = c
               /\ \A o \in DOMAIN ops : ops'[o] = ops[o]
               /\ doc'[c] = doc[c] \union {op} /\ pendingAcks'[c] = pendingAcks[c] \union {op}
               /\ \A d \in Client : d # c => doc'[d] = doc[d] /\ pendingAcks'[d] = pendingAcks[d]
               /\ \A l \in Conn : l # Cur(c) => up'[l] = up[l]
               /\ sock[c] = "open" => up'[Cur(c)] = Append(up[Cur(c)], msg)
               /\ sock[c] # "open" => up'[Cur(c)] = up[Cur(c)]
               /\ TypeOK'
<1> DEFINE op == Len(ops) + 1
           msg == [type |-> "op", op |-> op]
<1> USE DEF Type, wsClient, manager, server, syncService
<1>1. TypeOK /\ Cur(c) \in Conn
  BY ConnFacts DEF BaseInv
<1>2. /\ UNCHANGED <<sock, gen, timer, closing, mounted, left, lastServerSeq, confirmedReqIds,
                     asked, reapplied, down, handler, list, cap, cells, live, log, withheld,
                     disturbed, tickets, faults>>
      /\ mounted[c] /\ Len(ops) < MaxOps /\ ops' = Append(ops, c)
      /\ doc' = [doc EXCEPT ![c] = @ \union {op}]
      /\ pendingAcks' = [pendingAcks EXCEPT ![c] = @ \union {op}]
      /\ up' = IF sock[c] = "open" THEN [up EXCEPT ![Cur(c)] = Append(@, msg)] ELSE up
  BY DEF Send
<1>3. /\ op \in OpId /\ op \notin DOMAIN ops /\ Len(ops') = Len(ops) + 1 /\ Len(ops') <= MaxOps
      /\ ops' \in Seq(Client) /\ DOMAIN ops' = DOMAIN ops \union {op} /\ ops'[op] = c
      /\ \A o \in DOMAIN ops : ops'[o] = ops[o]
  <2>1. ops \in Seq(Client) /\ Len(ops) \in Nat /\ DOMAIN ops = 1 .. Len(ops)
    BY <1>1 DEF TypeOK
  <2>2. ops' = Append(ops, c) /\ Len(ops) < MaxOps /\ MaxOps \in Nat
    BY <1>2, SyncAssumption
  <2>3. op \in OpId /\ op \notin DOMAIN ops
    BY <2>1, <2>2 DEF OpId
  <2>4. /\ ops' \in Seq(Client) /\ Len(ops') = Len(ops) + 1 /\ DOMAIN ops' = 1 .. Len(ops) + 1
        /\ ops'[op] = c /\ \A o \in DOMAIN ops : ops'[o] = ops[o]
    BY <2>1, <2>2
  <2>5. DOMAIN ops' = DOMAIN ops \union {op} /\ Len(ops') <= MaxOps
    BY <2>1, <2>2, <2>4
  <2> QED
    BY <2>3, <2>4, <2>5
<1>4. msg \in Message
  BY <1>3 DEF Message
<1>5. /\ doc'[c] = doc[c] \union {op} /\ pendingAcks'[c] = pendingAcks[c] \union {op}
      /\ \A d \in Client : d # c => doc'[d] = doc[d] /\ pendingAcks'[d] = pendingAcks[d]
      /\ {pendingAcks', confirmedReqIds', doc', reapplied'} \subseteq [Client -> SUBSET DOMAIN ops']
  <2>1. {pendingAcks, confirmedReqIds, doc, reapplied} \subseteq [Client -> SUBSET DOMAIN ops]
    BY <1>1 DEF TypeOK
  <2>2. {pendingAcks, confirmedReqIds, doc, reapplied} \subseteq [Client -> SUBSET DOMAIN ops']
    BY <1>3, <2>1
  <2> QED
    BY <1>2, <1>3, <2>1, <2>2
<1>6. /\ \A l \in Conn : l # Cur(c) => up'[l] = up[l]
      /\ sock[c] = "open" => up'[Cur(c)] = Append(up[Cur(c)], msg)
      /\ sock[c] # "open" => up'[Cur(c)] = up[Cur(c)]
      /\ up' \in [Conn -> Seq(Message)]
  BY <1>1, <1>2, <1>4 DEF TypeOK
<1>7. TypeOK'
  BY <1>1, <1>2, <1>3, <1>5, <1>6, SMTT(30) DEF TypeOK
<1> QED
  BY <1>2, <1>3, <1>4, <1>5, <1>6, <1>7

\* HandleAck: the first message of the connection acknowledges an operation in the log.
LEMMA HandleAckEffect ==
    ASSUME BaseInv, NEW c \in Client, HandleAck(c)
    PROVE  LET k == Cur(c)
               msg == down[k][1]
           IN  /\ UNCHANGED <<sock, gen, mounted, left, doc, asked, reapplied, ops, up, handler,
                              list, cap, cells, live, log, withheld, disturbed, tickets>>
               /\ mounted[c] /\ sock[c] = "open" /\ down[k] # <<>>
               /\ msg.type = "ack" /\ msg.op \in DOMAIN ops /\ ops[msg.op] = c
               /\ msg.seq \in DOMAIN log /\ log[msg.seq] = msg.op
               /\ \A l \in Conn : handler[l].pc = "appended" => handler[l].op # msg.op
               /\ confirmedReqIds'[c] = confirmedReqIds[c] \union {msg.op}
               /\ pendingAcks'[c] = pendingAcks[c] \ {msg.op}
               /\ lastServerSeq'[c] >= lastServerSeq[c] /\ lastServerSeq'[c] >= msg.seq
               /\ \A d \in Client : d # c => /\ confirmedReqIds'[d] = confirmedReqIds[d]
                                             /\ pendingAcks'[d] = pendingAcks[d]
                                             /\ lastServerSeq'[d] = lastServerSeq[d]
               /\ down'[k] = Tail(down[k]) /\ \A l \in Conn : l # k => down'[l] = down[l]
               /\ TypeOK'
<1> DEFINE k == Cur(c)
           msg == down[k][1]
<1> USE DEF HandleAck, wsClient, server, syncService
<1>1. TypeOK /\ k \in Conn /\ k[1] = c
  BY ConnFacts DEF BaseInv
<1>2. /\ UNCHANGED <<sock, gen, timer, closing, mounted, left, doc, asked, reapplied, ops, up,
                     handler, list, cap, cells, live, log, withheld, disturbed, tickets, faults>>
      /\ mounted[c] /\ sock[c] = "open" /\ down[k] # <<>> /\ Head(down[k]).type = "ack"
      /\ confirmedReqIds' = [confirmedReqIds EXCEPT ![c] = @ \union {Head(down[k]).op}]
      /\ pendingAcks' = [pendingAcks EXCEPT ![c] = @ \ {Head(down[k]).op}]
      /\ lastServerSeq' = [lastServerSeq EXCEPT ![c] =
                              IF Head(down[k]).seq > @ THEN Head(down[k]).seq ELSE @]
      /\ down' = [down EXCEPT ![k] = Tail(@)]
  BY DEF Seen
<1>3. down[k] \in Seq(Message)
  BY <1>1 DEF TypeOK
<1>4. Head(down[k]) = msg /\ 1 \in DOMAIN down[k] /\ Tail(down[k]) \in Seq(Message)
  BY <1>2, <1>3, TailMessage
<1>5. /\ msg.type = "ack" /\ msg.op \in DOMAIN ops /\ ops[msg.op] = c
      /\ msg.seq \in DOMAIN log /\ log[msg.seq] = msg.op
      /\ \A l \in Conn : handler[l].pc = "appended" => handler[l].op # msg.op
  <2>1. DownTrue
    BY DEF BaseInv
  <2> QED
    BY <1>1, <1>2, <1>4, <2>1 DEF DownTrue
<1>6. msg.seq \in 0 .. Len(log) /\ lastServerSeq \in [Client -> 0 .. Len(log)] /\ Len(log) \in Nat
  <2>1. log \in Seq(OpId) /\ lastServerSeq \in [Client -> 0 .. Len(log)]
    BY <1>1 DEF TypeOK
  <2> HIDE DEF msg
  <2> QED
    BY <1>5, <2>1
<1>7. /\ lastServerSeq' \in [Client -> 0 .. Len(log)]
      /\ lastServerSeq'[c] >= lastServerSeq[c] /\ lastServerSeq'[c] >= msg.seq
      /\ \A d \in Client : d # c => lastServerSeq'[d] = lastServerSeq[d]
  BY <1>2, <1>4, <1>6
<1>8. /\ down'[k] = Tail(down[k]) /\ \A l \in Conn : l # k => down'[l] = down[l]
      /\ down' \in [Conn -> Seq(Message)]
  BY <1>1, <1>2, <1>4 DEF TypeOK
<1>9. /\ confirmedReqIds'[c] = confirmedReqIds[c] \union {msg.op}
      /\ pendingAcks'[c] = pendingAcks[c] \ {msg.op}
      /\ \A d \in Client : d # c => /\ confirmedReqIds'[d] = confirmedReqIds[d]
                                    /\ pendingAcks'[d] = pendingAcks[d]
      /\ {pendingAcks', confirmedReqIds', doc', reapplied'} \subseteq [Client -> SUBSET DOMAIN ops]
  <2>1. {pendingAcks, confirmedReqIds, doc, reapplied} \subseteq [Client -> SUBSET DOMAIN ops]
    BY <1>1 DEF TypeOK
  <2> QED
    BY <1>2, <1>4, <1>5, <2>1
<1>10. TypeOK'
  <2> HIDE DEF HandleAck, k, msg
  <2> QED
    BY <1>1, <1>2, <1>7, <1>8, <1>9, SMTT(30) DEF TypeOK
<1> HIDE DEF k, msg
<1>11. QED
  BY <1>2, <1>5, <1>7, <1>8, <1>9, <1>10 DEF k, msg

\* HandleSync: the first message of the connection carries operations of the log.
LEMMA HandleSyncEffect ==
    ASSUME BaseInv, NEW c \in Client, HandleSync(c)
    PROVE  LET k == Cur(c)
               msg == down[k][1]
           IN  /\ UNCHANGED <<sock, gen, mounted, left, pendingAcks, asked, ops, up, handler,
                              list, cap, cells, live, log, withheld, disturbed, tickets>>
               /\ mounted[c] /\ sock[c] = "open" /\ down[k] # <<>>
               /\ msg.type = "sync" /\ msg.ops \subseteq Range(log)
               /\ confirmedReqIds'[c] = confirmedReqIds[c] \ (msg.ops \ pendingAcks[c])
               /\ doc'[c] = doc[c] \union (msg.ops \ (pendingAcks[c] \union confirmedReqIds[c]))
               /\ reapplied'[c] = reapplied[c] \union
                      {op \in msg.ops \ (pendingAcks[c] \union confirmedReqIds[c]) : ops[op] = c}
               /\ lastServerSeq'[c] >= lastServerSeq[c]
               /\ \A d \in Client : d # c => /\ confirmedReqIds'[d] = confirmedReqIds[d]
                                             /\ doc'[d] = doc[d] /\ reapplied'[d] = reapplied[d]
                                             /\ lastServerSeq'[d] = lastServerSeq[d]
               /\ down'[k] = Tail(down[k]) /\ \A l \in Conn : l # k => down'[l] = down[l]
               /\ TypeOK'
<1> DEFINE k == Cur(c)
           msg == down[k][1]
           fresh == msg.ops \ (pendingAcks[c] \union confirmedReqIds[c])
<1> USE DEF HandleSync, wsClient, server, syncService
<1>1. TypeOK /\ k \in Conn /\ k[1] = c
  BY ConnFacts DEF BaseInv
<1>2. /\ UNCHANGED <<sock, gen, timer, closing, mounted, left, pendingAcks, asked, ops, up,
                     handler, list, cap, cells, live, log, withheld, disturbed, tickets, faults>>
      /\ mounted[c] /\ sock[c] = "open" /\ down[k] # <<>> /\ Head(down[k]).type = "sync"
      /\ down' = [down EXCEPT ![k] = Tail(@)]
      /\ lastServerSeq' = [lastServerSeq EXCEPT ![c] =
                              IF Head(down[k]).seq > @ THEN Head(down[k]).seq ELSE @]
  BY DEF Seen
<1>3. down[k] \in Seq(Message)
  BY <1>1 DEF TypeOK
<1>4. Head(down[k]) = msg /\ 1 \in DOMAIN down[k] /\ Tail(down[k]) \in Seq(Message) /\ msg \in Message
  BY <1>2, <1>3, TailMessage
<1>5. msg.type = "sync" /\ msg.ops \subseteq Range(log) /\ msg.seq <= Len(log)
  <2>1. DownTrue
    BY DEF BaseInv
  <2> QED
    BY <1>1, <1>2, <1>4, <2>1 DEF DownTrue
<1>6. /\ confirmedReqIds' = [confirmedReqIds EXCEPT ![c] = @ \ (msg.ops \ pendingAcks[c])]
      /\ doc' = [doc EXCEPT ![c] = @ \union fresh]
      /\ reapplied' = [reapplied EXCEPT ![c] = @ \union {op \in fresh : ops[op] = c}]
  BY <1>4 DEF Own
<1> HIDE DEF HandleSync
<1>7. msg.seq \in Seqs
  BY <1>4, <1>5 DEF Message
<1>8. msg.seq \in 0 .. Len(log) /\ lastServerSeq \in [Client -> 0 .. Len(log)] /\ Len(log) \in Nat
  BY <1>1, <1>5, <1>7 DEF TypeOK, Seqs
<1>9. /\ lastServerSeq' \in [Client -> 0 .. Len(log)]
      /\ lastServerSeq'[c] >= lastServerSeq[c]
      /\ \A d \in Client : d # c => lastServerSeq'[d] = lastServerSeq[d]
  BY <1>2, <1>4, <1>8
<1>10. /\ down'[k] = Tail(down[k]) /\ \A l \in Conn : l # k => down'[l] = down[l]
       /\ down' \in [Conn -> Seq(Message)]
  BY <1>1, <1>2, <1>4 DEF TypeOK
<1>11. /\ confirmedReqIds'[c] = confirmedReqIds[c] \ (msg.ops \ pendingAcks[c])
       /\ doc'[c] = doc[c] \union fresh
       /\ \A d \in Client : d # c => confirmedReqIds'[d] = confirmedReqIds[d] /\ doc'[d] = doc[d]
       /\ {pendingAcks', confirmedReqIds', doc'} \subseteq [Client -> SUBSET DOMAIN ops]
  <2>1. {pendingAcks, confirmedReqIds, doc} \subseteq [Client -> SUBSET DOMAIN ops]
    BY <1>1 DEF TypeOK
  <2>2. fresh \subseteq DOMAIN ops
    BY <1>5 DEF BaseInv, OpsKnown
  <2> HIDE DEF fresh, msg
  <2> QED
    BY <1>2, <1>6, <2>1, <2>2
<1>12. /\ reapplied'[c] = reapplied[c] \union {op \in fresh : ops[op] = c}
       /\ \A d \in Client : d # c => reapplied'[d] = reapplied[d]
       /\ reapplied' \in [Client -> SUBSET DOMAIN ops]
  <2>1. reapplied \in [Client -> SUBSET DOMAIN ops]
    BY <1>1 DEF TypeOK
  <2>2. fresh \subseteq DOMAIN ops
    BY <1>5 DEF BaseInv, OpsKnown
  <2> HIDE DEF fresh
  <2> QED
    BY <1>6, <2>1, <2>2
<1>13. TypeOK'
  <2> HIDE DEF k, msg, fresh
  <2> QED
    BY <1>1, <1>2, <1>9, <1>10, <1>11, <1>12, SMTT(30) DEF TypeOK
<1> HIDE DEF k, msg
<1>15. QED
  BY <1>2, <1>5, <1>9, <1>10, <1>11, <1>12, <1>13 DEF k, msg, fresh

\* Accept: the connection of client c is open, and asks for what it lacks if anyone listens.
LEMMA AcceptEffect ==
    ASSUME BaseInv, NEW c \in Client, NEW expired \in BOOLEAN, Accept(c, expired)
    PROVE  LET k == Cur(c)
               msg == [type |-> "sync_request", seq |-> lastServerSeq[c]]
           IN  /\ UNCHANGED <<gen, mounted, left, lastServerSeq, pendingAcks, confirmedReqIds,
                              doc, reapplied, ops, down, list, cap, cells, live, log, withheld,
                              disturbed>>
               /\ tickets' = tickets \ {c}
               /\ sock[c] = "connecting" /\ sock'[c] = "open"
               /\ \A d \in Client : d # c => sock'[d] = sock[d] /\ asked'[d] = asked[d]
               /\ \A d \in Client : Cur(d)' = Cur(d)
               /\ \A l \in Conn : Up(l)' <=> Up(l)
               /\ Unused(k)
               /\ handler'[k].pc = "read" /\ ~handler'[k].subscribed /\ handler'[k].op = 0
               /\ handler'[k].diff = {}
               /\ handler'[k].authenticated => c \in tickets
               /\ \A l \in Conn : l # k => handler'[l] = handler[l] /\ up'[l] = up[l]
               /\ mounted[c] => asked'[c] = lastServerSeq[c] /\ up'[k] = <<msg>>
               /\ ~mounted[c] => asked'[c] = asked[c] /\ up'[k] = <<>>
               /\ msg \in Message
               /\ TypeOK'
<1> DEFINE k == Cur(c)
           msg == [type |-> "sync_request", seq |-> lastServerSeq[c]]
<1> USE DEF Accept, Redeem, SendSyncRequest, syncService
<1>1. TypeOK /\ k \in Conn /\ k[1] = c
  BY ConnFacts DEF BaseInv
<1>2. /\ UNCHANGED <<gen, timer, closing, mounted, left, lastServerSeq, pendingAcks,
                     confirmedReqIds, doc, reapplied, ops, down, list, cap, cells, live, log,
                     withheld, disturbed>>
      /\ tickets' = tickets \ {c} /\ sock[c] = "connecting"
      /\ sock' = [sock EXCEPT ![c] = "open"]
      /\ handler' = [handler EXCEPT ![k].pc = "read",
                                    ![k].authenticated = c \in tickets /\ ~expired]
      /\ expired => faults < MaxFaults
      /\ faults' = IF expired THEN faults + 1 ELSE faults
  OBVIOUS
<1>3. Unused(k)
  BY <1>2 DEF BaseInv, Connections
<1>4. /\ sock'[c] = "open" /\ \A d \in Client : d # c => sock'[d] = sock[d]
      /\ sock' \in [Client -> {"none", "connecting", "open"}]
  BY <1>1, <1>2 DEF TypeOK
<1>5. \A d \in Client : Cur(d)' = Cur(d)
  BY <1>2 DEF Cur
<1>6. \A l \in Conn : Up(l)' <=> Up(l)
  <2> SUFFICES ASSUME NEW l \in Conn PROVE Up(l)' <=> Up(l)
    OBVIOUS
  <2>1. l[1] \in Client
    BY DEF Conn
  <2> QED
    BY <1>2, <1>4, <2>1 DEF Up
<1>7. /\ handler'[k].pc = "read" /\ handler'[k].subscribed = handler[k].subscribed
      /\ handler'[k].op = handler[k].op
      /\ handler'[k].diff = handler[k].diff
      /\ handler'[k].authenticated => c \in tickets
      /\ \A l \in Conn : l # k => handler'[l] = handler[l]
      /\ handler' \in [Conn -> HandlerState]
  <2> HIDE DEF Accept, k
  <2>1. PICK b \in BOOLEAN : (b => c \in tickets) /\
            handler' = [handler EXCEPT ![k].pc = "read", ![k].authenticated = b]
    BY <1>2
  <2> DEFINE new == [handler[k] EXCEPT !.pc = "read", !.authenticated = b]
  <2>2. handler \in [Conn -> HandlerState] /\ handler[k] \in HandlerState
    BY <1>1 DEF TypeOK, HandlerState
  <2>3. new \in HandlerState /\ handler' = [handler EXCEPT ![k] = new]
    BY <1>1, <2>1, <2>2 DEF HandlerState
  <2>4. /\ new.pc = "read" /\ new.authenticated = b
        /\ new.subscribed = handler[k].subscribed /\ new.op = handler[k].op
        /\ new.diff = handler[k].diff
    BY <2>2 DEF HandlerState
  <2> HIDE DEF new
  <2>5. /\ handler'[k] = new /\ \A l \in Conn : l # k => handler'[l] = handler[l]
        /\ handler' \in [Conn -> HandlerState]
    BY <1>1, <2>2, <2>3
  <2> QED
    BY <2>1, <2>4, <2>5
<1>9. msg \in Message
  <2>1. lastServerSeq[c] \in 0 .. Len(log)
    BY <1>1 DEF TypeOK
  <2>2. lastServerSeq[c] \in Seqs
    BY <1>1, <2>1, LogShort, SyncAssumption DEF BaseInv, Seqs
  <2> QED
    BY <2>2 DEF Message
<1>10. <<msg>> \in Seq(Message)
  BY <1>9
<1>11. /\ mounted[c] => asked'[c] = lastServerSeq[c] /\ up'[k] = <<msg>>
       /\ ~mounted[c] => asked'[c] = asked[c] /\ up'[k] = <<>>
       /\ \A l \in Conn : l # k => up'[l] = up[l]
       /\ \A d \in Client : d # c => asked'[d] = asked[d]
       /\ up' \in [Conn -> Seq(Message)] /\ asked' \in [Client -> 0 .. Len(log)]
  <2>1. /\ up \in [Conn -> Seq(Message)] /\ up[k] = <<>>
        /\ {lastServerSeq, asked} \subseteq [Client -> 0 .. Len(log)]
    BY <1>1, <1>3 DEF TypeOK, Unused
  <2>2. CASE mounted[c]
    <3>1. asked' = [asked EXCEPT ![c] = lastServerSeq[c]] /\ up' = [up EXCEPT ![k] = <<msg>>]
      BY <2>2
    <3> HIDE DEF k, msg
    <3> QED
      BY <1>1, <1>10, <2>1, <2>2, <3>1
  <2>3. CASE ~mounted[c]
    BY <2>1, <2>3
  <2> QED
    BY <2>2, <2>3
<1>12. faults' \in 0 .. MaxFaults
  BY <1>1, <1>2, SyncAssumption DEF TypeOK
<1>13. TypeOK'
  <2> HIDE DEF Accept, k, msg
  <2>1. handler' \in [Conn -> HandlerState]
    BY <1>7
  <2>2. {lastServerSeq, asked}' \subseteq [Client -> 0 .. Len(log')] /\ {up, down}' \subseteq [Conn -> Seq(Message)]
    <3>1. lastServerSeq \in [Client -> 0 .. Len(log)] /\ down \in [Conn -> Seq(Message)]
      BY <1>1 DEF TypeOK
    <3> QED
      BY <1>2, <1>11, <3>1
  <2>3. tickets' \subseteq Client
    BY <1>1, <1>2 DEF TypeOK
  <2> QED
    BY <1>1, <1>2, <1>4, <1>12, <2>1, <2>2, <2>3 DEF TypeOK, HandlerState
<1>14. ~handler'[k].subscribed /\ handler'[k].op = 0 /\ handler'[k].diff = {}
  BY <1>3, <1>7 DEF Unused
<1> HIDE DEF k, msg
<1>15. QED
  BY <1>2, <1>3, <1>4, <1>5, <1>6, <1>7, <1>9, <1>11, <1>13, <1>14 DEF k, msg

\* A step of the server's goroutine of connection k leaves the browsers alone.
LEMMA ServerStep ==
    ASSUME NEW k \in Conn, Handler(k)
    PROVE  /\ UNCHANGED <<sock, gen, timer, closing, mounted, left, lastServerSeq, pendingAcks,
                          confirmedReqIds, doc, asked, reapplied, ops, tickets>>
           /\ \A c \in Client : Cur(c)' = Cur(c)
           /\ \A l \in Conn : Up(l)' <=> Up(l)
<1>1. UNCHANGED <<wsClient, manager, ops, tickets>>
  BY DEF Handler, HandleOp, HandleOpFails, AckOp, RefuseOp, ListAfter, SendDiff, HandlerEnds,
         Broadcast, BroadcastTo
<1>2. UNCHANGED <<sock, gen, timer, closing, mounted, left, lastServerSeq, pendingAcks,
                  confirmedReqIds, doc, asked, reapplied, ops, tickets>>
  BY <1>1 DEF wsClient, manager
<1> QED
  BY <1>2 DEF Cur, Up

\* A goroutine's state is replaced by another.
LEMMA NewHandler ==
    ASSUME TypeOK, NEW k \in Conn, NEW new \in HandlerState,
           handler' = [handler EXCEPT ![k] = new]
    PROVE  /\ handler'[k] = new /\ \A l \in Conn : l # k => handler'[l] = handler[l]
           /\ handler' \in [Conn -> HandlerState]
<1>1. handler \in [Conn -> HandlerState]
  BY DEF TypeOK, HandlerState
<1> QED
  BY <1>1

\* What a goroutine can be in.
LEMMA HandlerFields ==
    ASSUME TypeOK, NEW k \in Conn
    PROVE  /\ handler[k] \in HandlerState /\ handler[k].op \in 0 .. MaxOps
           /\ handler[k].subscribed \in BOOLEAN /\ handler[k].authenticated \in BOOLEAN
           /\ handler[k].diff \subseteq OpId
  BY DEF TypeOK, HandlerState

\* What the sync service keeps for an entry.
ServiceTyped ==
    /\ list \in Seq(Conn) /\ IsInjective(list) /\ cap \in Nat
    /\ DOMAIN cells = Conn
    /\ \A k \in Conn : DOMAIN cells[k] \subseteq Nat /\ Range(cells[k]) \subseteq Conn
    /\ live \subseteq Conn

\* After a step of the server only its own variables have to be typed again.
LEMMA ServerTypes ==
    ASSUME TypeOK,
           UNCHANGED <<sock, gen, timer, closing, mounted, left, lastServerSeq, pendingAcks,
                       confirmedReqIds, doc, asked, reapplied, ops, tickets>>,
           handler' \in [Conn -> HandlerState], ServiceTyped',
           up' \in [Conn -> Seq(Message)], down' \in [Conn -> Seq(Message)],
           log' \in Seq(OpId), IsInjective(log'), Len(log') >= Len(log),
           withheld' \subseteq OpId, disturbed' \subseteq OpId, faults' \in 0 .. MaxFaults
    PROVE  TypeOK'
<1>1. log \in Seq(OpId) /\ {lastServerSeq, asked} \subseteq [Client -> 0 .. Len(log)]
  BY DEF TypeOK
<1>2. {lastServerSeq, asked}' \subseteq [Client -> 0 .. Len(log')]
  <2>1. Len(log) \in Nat /\ Len(log') \in Nat
    BY <1>1
  <2>2. 0 .. Len(log) \subseteq 0 .. Len(log')
    BY <2>1
  <2> QED
    BY <1>1, <2>2
<1> QED
  BY <1>2 DEF TypeOK, HandlerState, ServiceTyped

(***************************************************************************)
(* The list of subscribers and the broadcasts that walk it.                *)
(***************************************************************************)

\* A broadcast in progress keeps its cells, or reads a new one when its array is written to.
LEMMA StoreEffect ==
    ASSUME TypeOK, NEW subs \in Seq(Conn), NEW written \in SUBSET DOMAIN subs,
           Store(subs, written)
    PROVE  /\ list' = subs /\ DOMAIN cells' = Conn
           /\ \A l \in Conn :
                  /\ DOMAIN cells'[l] = DOMAIN cells[l]
                  /\ Range(cells'[l]) \subseteq Range(cells[l]) \union Range(subs)
                  /\ (l \in live => DOMAIN cells[l] \intersect written = {}) =>
                         /\ Range(cells'[l]) = Range(cells[l])
                         /\ IsInjective(cells[l]) => IsInjective(cells'[l])
<1>1. PICK late \in SUBSET {w \in live \X written : w[2] \in DOMAIN cells[w[1]]} :
          cells' = [l \in Conn |->
                       [p \in DOMAIN cells[l] |->
                           IF <<l, p>> \in late THEN subs[p] ELSE cells[l][p]]]
  BY DEF Store
<1>2. /\ list' = subs /\ DOMAIN cells' = Conn
      /\ \A l \in Conn :
             /\ DOMAIN cells'[l] = DOMAIN cells[l]
             /\ \A p \in DOMAIN cells[l] :
                    cells'[l][p] = IF <<l, p>> \in late THEN subs[p] ELSE cells[l][p]
  BY <1>1 DEF Store
<1>3. ASSUME NEW l \in Conn
      PROVE  /\ Range(cells'[l]) \subseteq Range(cells[l]) \union Range(subs)
             /\ (l \in live => DOMAIN cells[l] \intersect written = {}) =>
                    /\ Range(cells'[l]) = Range(cells[l])
                    /\ IsInjective(cells[l]) => IsInjective(cells'[l])
  <2>1. \A p \in DOMAIN cells[l] : <<l, p>> \in late => l \in live /\ p \in written
    BY <1>1
  <2>2. Range(cells'[l]) \subseteq Range(cells[l]) \union Range(subs)
    BY <1>2, <2>1 DEF Range
  <2>3. ASSUME l \in live => DOMAIN cells[l] \intersect written = {}
        PROVE  /\ Range(cells'[l]) = Range(cells[l])
               /\ IsInjective(cells[l]) => IsInjective(cells'[l])
    <3>1. \A p \in DOMAIN cells[l] : cells'[l][p] = cells[l][p]
      BY <1>2, <2>1, <2>3
    <3> QED
      BY <1>2, <3>1 DEF Range, IsInjective
  <2> QED
    BY <2>2, <2>3
<1> QED
  BY <1>2, <1>3

\* The list has one more subscriber at its end.
LEMMA AppendList ==
    ASSUME TypeOK, NEW k \in Conn, k \notin Range(list)
    PROVE  /\ Append(list, k) \in Seq(Conn) /\ IsInjective(Append(list, k))
           /\ DOMAIN Append(list, k) = DOMAIN list \union {Len(list) + 1}
           /\ Len(list) + 1 \notin DOMAIN list
           /\ Range(Append(list, k)) = Range(list) \union {k}
<1> DEFINE new == Append(list, k)
<1>1. list \in Seq(Conn) /\ IsInjective(list)
  BY DEF TypeOK
<1>2. /\ new \in Seq(Conn) /\ new[Len(list) + 1] = k /\ Len(list) + 1 \notin DOMAIN list
      /\ DOMAIN new = DOMAIN list \union {Len(list) + 1}
      /\ \A i \in DOMAIN list : new[i] = list[i]
  BY <1>1
<1> HIDE DEF new
<1>3. Range(new) = Range(list) \union {k}
  BY <1>2 DEF Range
<1>4. IsInjective(new)
  BY <1>1, <1>2 DEF Range, IsInjective
<1> QED
  BY <1>2, <1>3, <1>4 DEF new

\* The list without its i-th subscriber: those after it move down.
LEMMA RemoveFromList ==
    ASSUME TypeOK, NEW i \in DOMAIN list
    PROVE  LET new == RemoveAt(list, i)
           IN  /\ new \in Seq(Conn) /\ IsInjective(new)
               /\ DOMAIN new = 1 .. Len(list) - 1 /\ i .. Len(list) - 1 \subseteq DOMAIN new
               /\ Range(new) = Range(list) \ {list[i]}
<1> DEFINE new == RemoveAt(list, i)
<1>1. list \in Seq(Conn) /\ IsInjective(list) /\ i \in 1 .. Len(list) /\ Len(list) \in Nat
  BY DEF TypeOK
<1>2. new = SubSeq(list, 1, i - 1) \o SubSeq(list, i + 1, Len(list))
  BY <1>1 DEF RemoveAt
<1>3. /\ new \in Seq(Conn) /\ Len(new) = Len(list) - 1
      /\ \A j \in 1 .. Len(list) - 1 : new[j] = IF j < i THEN list[j] ELSE list[j + 1]
  <2> DEFINE front == SubSeq(list, 1, i - 1)
             back == SubSeq(list, i + 1, Len(list))
  <2>1. /\ front \in Seq(Conn) /\ Len(front) = i - 1
        /\ \A j \in 1 .. i - 1 : front[j] = list[j]
    <3>1. \A j \in 1 .. i - 1 : list[j] \in Conn
      BY <1>1
    <3>2. 1 \in Int /\ i - 1 \in Int
      BY <1>1
    <3>3. /\ front \in Seq(Conn) /\ Len(front) = IF 1 <= i - 1 THEN i - 1 - 1 + 1 ELSE 0
          /\ \A j \in 1 .. i - 1 - 1 + 1 : front[j] = list[1 + j - 1]
      BY <3>1, <3>2, SubSeqProperties
    <3> HIDE DEF front
    <3> QED
      BY <1>1, <3>3
  <2>2. /\ back \in Seq(Conn) /\ Len(back) = Len(list) - i
        /\ \A j \in 1 .. Len(list) - i : back[j] = list[i + j]
    <3>1. \A j \in i + 1 .. Len(list) : list[j] \in Conn
      BY <1>1
    <3>2. i + 1 \in Int /\ Len(list) \in Int
      BY <1>1
    <3>3. /\ back \in Seq(Conn)
          /\ Len(back) = IF i + 1 <= Len(list) THEN Len(list) - (i + 1) + 1 ELSE 0
          /\ \A j \in 1 .. Len(list) - (i + 1) + 1 : back[j] = list[i + 1 + j - 1]
      BY <3>1, <3>2, SubSeqProperties
    <3> HIDE DEF back
    <3> QED
      BY <1>1, <3>3
  <2> HIDE DEF front, back
  <2>3. /\ new \in Seq(Conn) /\ Len(new) = Len(front) + Len(back)
        /\ \A j \in 1 .. Len(front) + Len(back) :
               new[j] = IF j <= Len(front) THEN front[j] ELSE back[j - Len(front)]
    <3>1. new = front \o back
      BY <1>2 DEF front, back
    <3> HIDE DEF new
    <3> QED
      BY <2>1, <2>2, <3>1, ConcatProperties
  <2> HIDE DEF new
  <2>5. \A j \in i .. Len(list) - 1 : new[j] = list[j + 1]
    <3> SUFFICES ASSUME NEW j \in i .. Len(list) - 1 PROVE new[j] = list[j + 1]
      OBVIOUS
    <3>1. /\ j \in 1 .. Len(front) + Len(back) /\ ~(j <= Len(front))
          /\ j - Len(front) = j - (i - 1)
          /\ j - (i - 1) \in 1 .. Len(list) - i /\ i + (j - (i - 1)) = j + 1
      BY <1>1, <2>1, <2>2
    <3>2. new[j] = back[j - (i - 1)]
      BY <2>3, <3>1
    <3> QED
      BY <2>2, <3>1, <3>2
  <2>6. \A j \in 1 .. i - 1 : new[j] = list[j]
    <3> SUFFICES ASSUME NEW j \in 1 .. i - 1 PROVE new[j] = list[j]
      OBVIOUS
    <3>1. /\ j \in Int /\ 1 <= j /\ j <= i - 1
          /\ Len(front) = i - 1 /\ Len(back) = Len(list) - i
          /\ i \in Int /\ Len(list) \in Int /\ i <= Len(list)
      BY <1>1, <2>1, <2>2
    <3>3. j \in 1 .. Len(front) + Len(back) /\ j <= Len(front)
      <4> DEFINE m == Len(front)
                 n == Len(back)
      <4>1. m \in Int /\ n \in Int /\ n >= 0 /\ j <= m
        BY <3>1
      <4> HIDE DEF m, n
      <4>2. j \in 1 .. m + n /\ j <= m
        BY <3>1, <4>1
      <4> QED
        BY <4>2 DEF m, n
    <3>2. new[j] = front[j]
      BY <2>3, <3>3
    <3> QED
      BY <2>1, <3>2
  <2>7. Len(new) = Len(list) - 1
    BY <1>1, <2>1, <2>2, <2>3
  <2> QED
    BY <1>1, <2>3, <2>5, <2>6, <2>7
<1> HIDE DEF new
<1>4. DOMAIN new = 1 .. Len(list) - 1 /\ i .. Len(list) - 1 \subseteq DOMAIN new
  BY <1>1, <1>3
<1>5. IsInjective(new)
  <2> SUFFICES ASSUME NEW a \in 1 .. Len(list) - 1, NEW b \in 1 .. Len(list) - 1, new[a] = new[b]
               PROVE  a = b
    BY <1>4 DEF IsInjective
  <2> DEFINE place(j) == IF j < i THEN j ELSE j + 1
  <2>1. \A x, y \in 1 .. Len(list) : list[x] = list[y] => x = y
    BY <1>1 DEF IsInjective
  <2>2. ASSUME NEW j \in 1 .. Len(list) - 1
        PROVE  new[j] = list[place(j)] /\ place(j) \in 1 .. Len(list)
    <3>1. CASE j < i
      <4>1. place(j) = j
        BY <3>1
      <4> HIDE DEF place
      <4> QED
        BY <1>1, <1>3, <3>1, <4>1
    <3>2. CASE ~(j < i)
      BY <1>1, <1>3, <3>2
    <3> QED
      BY <3>1, <3>2
  <2> HIDE DEF place
  <2>3. place(a) = place(b)
    BY <2>1, <2>2
  <2> USE DEF place
  <2> QED
    BY <1>1, <2>3
<1>6. ASSUME NEW x \in Range(list) \ {list[i]} PROVE x \in Range(new)
  <2>1. PICK j \in 1 .. Len(list) : list[j] = x /\ j # i
    BY <1>1, <1>6 DEF Range
  <2>2. CASE j < i
    BY <1>1, <1>3, <1>4, <2>1, <2>2 DEF Range
  <2>3. CASE j > i
    <3>1. j - 1 \in 1 .. Len(list) - 1 /\ new[j - 1] = x
      BY <1>1, <1>3, <2>1, <2>3
    <3> QED
      BY <1>4, <3>1 DEF Range
  <2> QED
    BY <1>1, <2>1, <2>2, <2>3
<1>7. ASSUME NEW x \in Range(new) PROVE x \in Range(list) \ {list[i]}
  <2>1. PICK j \in 1 .. Len(list) - 1 : new[j] = x
    BY <1>4, <1>7 DEF Range
  <2>2. PICK m \in 1 .. Len(list) : list[m] = x /\ m # i
    BY <1>1, <1>3, <2>1
  <2> QED
    BY <1>1, <2>2 DEF Range, IsInjective
<1> QED
  BY <1>3, <1>4, <1>5, <1>6, <1>7 DEF new

(***************************************************************************)
(* ensureSubscribed: the list has connection k; an undisturbed broadcast   *)
(* walks what it walked, since a new subscriber goes to the end or into an *)
(* array of its own.                                                       *)
(***************************************************************************)
LEMMA SubscribeEffect ==
    ASSUME BaseInv, NEW k \in Conn, ensureSubscribed(k)
    PROVE  /\ ServiceTyped' /\ live' \subseteq live
           /\ Range(list') = Range(list) \union {k} /\ DOMAIN list \subseteq DOMAIN list'
           /\ \A l \in Conn :
                  /\ DOMAIN cells'[l] = DOMAIN cells[l]
                  /\ Range(cells'[l]) \subseteq Range(cells[l]) \union Range(list')
                  /\ handler[l].op \notin disturbed =>
                         Range(cells'[l]) = Range(cells[l]) /\ IsInjective(cells'[l])
<1>1. TypeOK /\ ListTrue
  BY DEF BaseInv
<1>2. ServiceTyped
  BY <1>1 DEF TypeOK, ServiceTyped
<1>3. CASE handler[k].subscribed
  <2>1. UNCHANGED <<list, cap, cells, live>> /\ k \in Range(list)
    BY <1>1, <1>3 DEF ensureSubscribed, syncService, ListTrue
  <2>2. Range(list') = Range(list) \union {k}
    BY <2>1
  <2> QED
    BY <1>1, <1>2, <2>1, <2>2 DEF ServiceTyped, ListTrue
<1>4. CASE ~handler[k].subscribed
  <2>1. Subscribe(k) /\ k \notin Range(list)
    BY <1>1, <1>4 DEF ensureSubscribed, ListTrue
  <2> DEFINE new == Append(list, k)
  <2>2. /\ new \in Seq(Conn) /\ IsInjective(new) /\ DOMAIN new = DOMAIN list \union {Len(list) + 1}
        /\ Len(list) + 1 \notin DOMAIN list /\ Range(new) = Range(list) \union {k}
    BY <1>1, <2>1, AppendList
  <2>3. CASE Store(new, {Len(list) + 1}) /\ UNCHANGED <<cap, live>>
    <3> HIDE DEF new
    <3>1. {Len(list) + 1} \in SUBSET DOMAIN new
      BY <2>2
    <3>2. /\ list' = new /\ DOMAIN cells' = Conn
          /\ \A l \in Conn :
                 /\ DOMAIN cells'[l] = DOMAIN cells[l]
                 /\ Range(cells'[l]) \subseteq Range(cells[l]) \union Range(new)
                 /\ (l \in live => DOMAIN cells[l] \intersect {Len(list) + 1} = {}) =>
                        /\ Range(cells'[l]) = Range(cells[l])
                        /\ IsInjective(cells[l]) => IsInjective(cells'[l])
      BY <1>1, <2>2, <2>3, <3>1, StoreEffect
    <3>3. \A l \in Conn : handler[l].op \notin disturbed =>
              IsInjective(cells[l]) /\ (l \in live => DOMAIN cells[l] \intersect {Len(list) + 1} = {})
      BY <1>1, <2>2 DEF ListTrue
    <3>4. \A l \in Conn : DOMAIN cells'[l] \subseteq Nat /\ Range(cells'[l]) \subseteq Conn
      <4>1. Range(new) \subseteq Conn
        <5>1. \A i \in DOMAIN new : new[i] \in Conn
          BY <2>2
        <5> QED
          BY <5>1 DEF Range
      <4> QED
        BY <1>2, <3>2, <4>1 DEF ServiceTyped
    <3>5. ServiceTyped'
      BY <1>2, <2>2, <2>3, <3>2, <3>4 DEF ServiceTyped
    <3> QED
      BY <2>2, <2>3, <3>2, <3>3, <3>5
  <2>4. CASE list' = new /\ cap' = (IF cap = 0 THEN 1 ELSE 2 * cap) /\ live' = {} /\ UNCHANGED cells
    <3>1. cap' \in Nat
      BY <1>2, <2>4 DEF ServiceTyped
    <3> HIDE DEF new
    <3> QED
      BY <1>1, <1>2, <2>2, <2>4, <3>1 DEF ServiceTyped, ListTrue
  <2> QED
    BY <2>1, <2>3, <2>4 DEF Subscribe
<1> QED
  BY <1>3, <1>4

\* Unsubscribe: connection k is no longer listed; the walks of the list's array are disturbed.
LEMMA UnsubscribeEffect ==
    ASSUME BaseInv, NEW k \in Conn, Unsubscribe(k)
    PROVE  /\ ServiceTyped' /\ live' = live
           /\ Range(list') = Range(list) \ {k}
           /\ disturbed' = disturbed \union {handler[l].op : l \in live}
           /\ \A l \in Conn :
                  /\ DOMAIN cells'[l] = DOMAIN cells[l]
                  /\ Range(cells'[l]) \subseteq Range(cells[l]) \union Range(list)
                  /\ handler[l].op \notin disturbed' =>
                         Range(cells'[l]) = Range(cells[l]) /\ IsInjective(cells'[l])
<1>1. TypeOK /\ ListTrue
  BY DEF BaseInv
<1>2. ServiceTyped
  BY <1>1 DEF TypeOK, ServiceTyped
<1>3. PICK i \in DOMAIN list : list[i] = k /\ Store(RemoveAt(list, i), i .. Len(list) - 1)
  BY DEF Unsubscribe
<1>4. UNCHANGED <<cap, live>> /\ disturbed' = disturbed \union {handler[l].op : l \in live}
  BY DEF Unsubscribe
<1> DEFINE new == RemoveAt(list, i)
<1>5. /\ new \in Seq(Conn) /\ IsInjective(new) /\ i .. Len(list) - 1 \subseteq DOMAIN new
      /\ Range(new) = Range(list) \ {k}
  BY <1>1, <1>3, RemoveFromList
<1>6. Store(new, i .. Len(list) - 1)
  BY <1>3
<1> HIDE DEF new
<1>7. /\ list' = new /\ DOMAIN cells' = Conn
      /\ \A l \in Conn :
             /\ DOMAIN cells'[l] = DOMAIN cells[l]
             /\ Range(cells'[l]) \subseteq Range(cells[l]) \union Range(new)
             /\ l \notin live => /\ Range(cells'[l]) = Range(cells[l])
                                 /\ IsInjective(cells[l]) => IsInjective(cells'[l])
  BY <1>1, <1>5, <1>6, StoreEffect
<1>8. ServiceTyped'
  <2>1. Range(new) \subseteq Conn
    BY <1>5 DEF Range
  <2>2. \A l \in Conn : DOMAIN cells'[l] \subseteq Nat /\ Range(cells'[l]) \subseteq Conn
    BY <1>2, <1>7, <2>1 DEF ServiceTyped
  <2> QED
    BY <1>2, <1>4, <1>5, <1>7, <2>2 DEF ServiceTyped
<1>9. \A l \in Conn : handler[l].op \notin disturbed' => l \notin live /\ IsInjective(cells[l])
  BY <1>1, <1>4 DEF ListTrue
<1> QED
  BY <1>4, <1>5, <1>7, <1>8, <1>9

\* The messages that the server writes.
LEMMA Messages ==
    ASSUME BaseInv
    PROVE  /\ \A op \in Range(log) :
                  /\ op \in OpId /\ ServerSeq(op) \in DOMAIN log /\ log[ServerSeq(op)] = op
                  /\ [type |-> "ack", op |-> op, seq |-> ServerSeq(op)] \in Message
                  /\ [type |-> "sync", ops |-> {op}, seq |-> ServerSeq(op)] \in Message
           /\ \A s \in SUBSET Range(log) : [type |-> "sync", ops |-> s, seq |-> Len(log)] \in Message
<1>1. TypeOK /\ OpsKnown
  BY DEF BaseInv
<1>2. Len(log) \in Seqs /\ log \in Seq(OpId) /\ Range(log) \subseteq OpId
  BY <1>1, LogShort DEF Seqs, TypeOK, Range
<1>3. ASSUME NEW op \in Range(log)
      PROVE  /\ op \in OpId /\ ServerSeq(op) \in DOMAIN log /\ log[ServerSeq(op)] = op
             /\ [type |-> "ack", op |-> op, seq |-> ServerSeq(op)] \in Message
             /\ [type |-> "sync", ops |-> {op}, seq |-> ServerSeq(op)] \in Message
  <2>1. op \in OpId /\ ServerSeq(op) \in DOMAIN log /\ log[ServerSeq(op)] = op
    BY <1>1, <1>2, ServerSeqFact
  <2>2. DOMAIN log = 1 .. Len(log)
    BY <1>2
  <2>3. ServerSeq(op) \in Seqs
    BY <1>2, <2>1, <2>2, SyncAssumption DEF Seqs
  <2> QED
    BY <2>1, <2>3 DEF Message
<1>4. ASSUME NEW s \in SUBSET Range(log)
      PROVE  [type |-> "sync", ops |-> s, seq |-> Len(log)] \in Message
  BY <1>2 DEF Message
<1> QED
  BY <1>3, <1>4

\* The first message that the client of connection k has sent.
LEMMA FirstUp ==
    ASSUME BaseInv, NEW k \in Conn, NEW type, Receives(k, type)
    PROVE  /\ handler[k].pc = "read" /\ up[k] # <<>> /\ 1 \in DOMAIN up[k] /\ up[k][1].type = type
           /\ Head(up[k]) = up[k][1] /\ Tail(up[k]) \in Seq(Message)
           /\ [up EXCEPT ![k] = Tail(@)] \in [Conn -> Seq(Message)]
           /\ [up EXCEPT ![k] = Tail(@)][k] = Tail(up[k])
           /\ \A l \in Conn : l # k => [up EXCEPT ![k] = Tail(@)][l] = up[l]
<1>1. up \in [Conn -> Seq(Message)] /\ up[k] \in Seq(Message)
  BY DEF BaseInv, TypeOK
<1>2. handler[k].pc = "read" /\ up[k] # <<>> /\ Head(up[k]).type = type
  BY DEF Receives
<1>3. Head(up[k]) = up[k][1] /\ 1 \in DOMAIN up[k] /\ Tail(up[k]) \in Seq(Message)
  BY <1>1, <1>2, TailMessage
<1> QED
  BY <1>1, <1>2, <1>3

\* HandleOp and HandleOpFails: an operation goes from the channel to the log.
LEMMA HandleOpEffect ==
    ASSUME BaseInv, NEW k \in Conn, HandleOp(k) \/ HandleOpFails(k)
    PROVE  LET op == up[k][1].op
           IN  /\ UNCHANGED <<down, disturbed>>
               /\ handler[k].pc = "read" /\ up[k] # <<>> /\ up[k][1].type = "op"
               /\ op \in OpId /\ op \in DOMAIN ops /\ ops[op] = k[1] /\ op \in pendingAcks[k[1]]
               /\ op \notin Range(log) /\ op # 0
               /\ log' = Append(log, op)
               /\ up'[k] = Tail(up[k]) /\ \A l \in Conn : l # k => up'[l] = up[l]
               /\ \/ /\ HandleOp(k) /\ handler'[k].pc = "appended" /\ handler'[k].op = op
                     /\ UNCHANGED withheld
                  \/ /\ HandleOpFails(k) /\ handler'[k].pc = "read"
                     /\ handler'[k].op = handler[k].op
                     /\ withheld' = withheld \union {op}
               /\ handler'[k].subscribed /\ handler'[k].authenticated = handler[k].authenticated
               /\ handler'[k].diff = handler[k].diff
               /\ Range(list') = Range(list) \union {k}
               /\ \A l \in Conn :
                      /\ Range(cells'[l]) \subseteq Range(cells[l]) \union Range(list')
                      /\ handler[l].op \notin disturbed => Range(cells'[l]) = Range(cells[l])
               /\ \A l \in Conn : l # k => handler'[l] = handler[l]
               /\ TypeOK'
<1> DEFINE op == up[k][1].op
<1>1. TypeOK /\ UpOnce /\ Handler(k)
  BY DEF BaseInv, Handler
<1>2. Receives(k, "op")
  BY DEF HandleOp, HandleOpFails
<1>3. /\ handler[k].pc = "read" /\ up[k] # <<>> /\ 1 \in DOMAIN up[k] /\ up[k][1].type = "op"
      /\ Head(up[k]) = up[k][1]
  BY <1>2, FirstUp
<1>4. /\ op \in DOMAIN ops /\ ops[op] = k[1] /\ op \in pendingAcks[k[1]] /\ op \notin Range(log)
  BY <1>1, <1>3 DEF UpOnce
<1>5. op \in OpId /\ op # 0
  <2> HIDE DEF op
  <2> QED
    BY <1>1, <1>4, SyncAssumption, SMTT(30) DEF TypeOK, OpId
<1>6. /\ UNCHANGED <<down, disturbed>> /\ log' = Append(log, op)
      /\ up' = [up EXCEPT ![k] = Tail(@)]
  BY <1>3 DEF HandleOp, HandleOpFails
<1>6a. /\ ServiceTyped' /\ Range(list') = Range(list) \union {k}
       /\ \A l \in Conn :
              /\ Range(cells'[l]) \subseteq Range(cells[l]) \union Range(list')
              /\ handler[l].op \notin disturbed => Range(cells'[l]) = Range(cells[l])
  <2>1. ensureSubscribed(k)
    BY DEF HandleOp, HandleOpFails
  <2> QED
    BY <2>1, SubscribeEffect
<1>7. /\ up'[k] = Tail(up[k]) /\ \A l \in Conn : l # k => up'[l] = up[l]
      /\ up' \in [Conn -> Seq(Message)]
  BY <1>2, <1>6, FirstUp
<1>8. log' \in Seq(OpId) /\ Len(log') = Len(log) + 1 /\ IsInjective(log')
  <2> HIDE DEF op
  <2> QED
    BY <1>1, <1>4, <1>5, <1>6, AppendLog
<1>9. Len(log') >= Len(log)
  BY <1>1, <1>8 DEF TypeOK
<1>10. faults' \in 0 .. MaxFaults
  BY <1>1, SyncAssumption DEF TypeOK, HandleOp, HandleOpFails
<1>11. /\ \/ /\ HandleOp(k) /\ handler'[k].pc = "appended" /\ handler'[k].op = op
             /\ UNCHANGED withheld
          \/ /\ HandleOpFails(k) /\ handler'[k].pc = "read" /\ handler'[k].op = handler[k].op
             /\ withheld' = withheld \union {op}
       /\ handler'[k].subscribed /\ handler'[k].authenticated = handler[k].authenticated
       /\ handler'[k].diff = handler[k].diff
       /\ \A l \in Conn : l # k => handler'[l] = handler[l]
       /\ handler' \in [Conn -> HandlerState]
  <2>1. handler \in [Conn -> HandlerState] /\ handler[k] \in HandlerState
    BY <1>1 DEF TypeOK, HandlerState
  <2>2. CASE HandleOp(k)
    <3> DEFINE new == [handler[k] EXCEPT !.pc = "appended", !.subscribed = TRUE, !.op = op]
    <3>1. /\ handler' = [handler EXCEPT ![k].pc = "appended", ![k].subscribed = TRUE, ![k].op = op]
          /\ UNCHANGED withheld
      BY <1>3, <2>2 DEF HandleOp
    <3>2. new \in HandlerState /\ handler' = [handler EXCEPT ![k] = new]
      <4>1. op \in 0 .. MaxOps
        BY <1>5, SyncAssumption DEF OpId
      <4> HIDE DEF op
      <4>2. new \in HandlerState
        BY <2>1, <4>1 DEF HandlerState
      <4>3. handler' = [handler EXCEPT ![k] = new]
        BY <2>1, <3>1 DEF HandlerState
      <4> QED
        BY <4>2, <4>3
    <3>3. handler'[k] = new /\ \A l \in Conn : l # k => handler'[l] = handler[l]
      BY <1>1, <3>2, NewHandler
    <3>4. /\ new.pc = "appended" /\ new.op = op /\ new.subscribed
          /\ new.authenticated = handler[k].authenticated
          /\ new.diff = handler[k].diff
      BY <2>1 DEF HandlerState
    <3>5. handler' \in [Conn -> HandlerState]
      BY <1>1, <3>2, NewHandler
    <3> HIDE DEF new, op
    <3> QED
      BY <2>2, <3>1, <3>3, <3>4, <3>5
  <2>3. CASE HandleOpFails(k)
    <3> DEFINE new == [handler[k] EXCEPT !.subscribed = TRUE]
    <3>1. handler' = [handler EXCEPT ![k].subscribed = TRUE] /\ withheld' = withheld \union {op}
      BY <1>3, <2>3 DEF HandleOpFails
    <3>2. new \in HandlerState /\ handler' = [handler EXCEPT ![k] = new]
      BY <2>1, <3>1 DEF HandlerState
    <3>3. handler'[k] = new /\ \A l \in Conn : l # k => handler'[l] = handler[l]
      BY <1>1, <3>2, NewHandler
    <3>4. /\ new.pc = "read" /\ new.op = handler[k].op /\ new.subscribed
          /\ new.authenticated = handler[k].authenticated
          /\ new.diff = handler[k].diff
      BY <1>3, <2>1 DEF HandlerState
    <3>5. handler' \in [Conn -> HandlerState]
      BY <1>1, <3>2, NewHandler
    <3> HIDE DEF new, op
    <3> QED
      BY <2>3, <3>1, <3>3, <3>4, <3>5
  <2> QED
    BY <2>2, <2>3
<1>12. TypeOK'
  <2>1. withheld' \subseteq OpId /\ disturbed' \subseteq OpId /\ down' \in [Conn -> Seq(Message)]
    BY <1>1, <1>5, <1>6, <1>11 DEF TypeOK
  <2> HIDE DEF op
  <2> QED
    BY <1>1, <1>6a, <1>7, <1>8, <1>9, <1>10, <1>11, <2>1, ServerStep, ServerTypes
<1> HIDE DEF op
<1>13. QED
  BY <1>3, <1>4, <1>5, <1>6, <1>6a, <1>7, <1>11, <1>12 DEF op

\* AckOp: the operation of connection k is acknowledged.
LEMMA AckOpEffect ==
    ASSUME BaseInv, NEW k \in Conn, AckOp(k)
    PROVE  LET op == handler[k].op
               msg == [type |-> "ack", op |-> op, seq |-> ServerSeq(op)]
           IN  /\ UNCHANGED <<up, list, cap, cells, live, log, withheld, disturbed>>
               /\ handler[k].pc = "appended" /\ op # 0 /\ op \in Range(log)
               /\ ServerSeq(op) \in DOMAIN log /\ log[ServerSeq(op)] = op /\ msg \in Message
               /\ \A l \in Conn : l # k => handler'[l] = handler[l] /\ down'[l] = down[l]
               /\ Up(k) => down'[k] = Append(down[k], msg)
               /\ ~Up(k) => down'[k] = down[k]
               /\ handler'[k].pc = "acked" /\ handler'[k].op = op
               /\ handler'[k].subscribed = handler[k].subscribed
               /\ handler'[k].authenticated = handler[k].authenticated
               /\ handler'[k].diff = handler[k].diff
               /\ TypeOK'
<1> DEFINE op == handler[k].op
           msg == [type |-> "ack", op |-> op, seq |-> ServerSeq(op)]
<1>1. TypeOK /\ HandledOnce /\ Handler(k)
  BY DEF BaseInv, Handler
<1>2. /\ handler[k].pc = "appended" /\ Write(k, msg)
      /\ UNCHANGED <<up, list, cap, cells, live, log, withheld, disturbed, faults>>
      /\ handler' = [handler EXCEPT ![k].pc = "acked"]
  BY DEF AckOp, syncService
<1>3. op # 0 /\ op \in Range(log)
  BY <1>1, <1>2 DEF HandledOnce
<1>4. op \in OpId /\ ServerSeq(op) \in DOMAIN log /\ log[ServerSeq(op)] = op /\ msg \in Message
  BY <1>3, Messages
<1>5. /\ down' \in [Conn -> Seq(Message)] /\ \A l \in Conn : l # k => down'[l] = down[l]
      /\ Up(k) => down'[k] = Append(down[k], msg)
      /\ ~Up(k) => down'[k] = down[k]
  BY <1>1, <1>2, <1>4, WriteEffect
<1> HIDE DEF msg
<1>6. /\ handler'[k].pc = "acked" /\ handler'[k].op = op
      /\ handler'[k].subscribed = handler[k].subscribed
      /\ handler'[k].authenticated = handler[k].authenticated
      /\ handler'[k].diff = handler[k].diff
      /\ \A l \in Conn : l # k => handler'[l] = handler[l]
      /\ handler' \in [Conn -> HandlerState]
  <2>1. handler \in [Conn -> HandlerState] /\ handler[k] \in HandlerState
    BY <1>1 DEF TypeOK, HandlerState
  <2> DEFINE new == [handler[k] EXCEPT !.pc = "acked"]
  <2>2. new \in HandlerState
    BY <2>1 DEF HandlerState
  <2>3. handler' = [handler EXCEPT ![k] = new]
    BY <1>2, <2>1 DEF HandlerState
  <2>4. /\ handler'[k] = new /\ \A l \in Conn : l # k => handler'[l] = handler[l]
        /\ handler' \in [Conn -> HandlerState]
    BY <1>1, <2>2, <2>3, NewHandler
  <2>5. /\ new.pc = "acked" /\ new.op = op /\ new.subscribed = handler[k].subscribed
        /\ new.authenticated = handler[k].authenticated /\ new.diff = handler[k].diff
    BY <2>1 DEF HandlerState
  <2> HIDE DEF new, op
  <2> QED
    BY <2>4, <2>5
<1>7. TypeOK'
  <2>1. /\ withheld' \subseteq OpId /\ disturbed' \subseteq OpId /\ up' \in [Conn -> Seq(Message)]
        /\ log' \in Seq(OpId) /\ IsInjective(log') /\ Len(log') >= Len(log)
        /\ faults' \in 0 .. MaxFaults
    BY <1>1, <1>2 DEF TypeOK
  <2>2. ServiceTyped'
    BY <1>1, <1>2 DEF TypeOK, ServiceTyped
  <2> HIDE DEF op
  <2> QED
    BY <1>1, <1>5, <1>6, <2>1, <2>2, ServerStep, ServerTypes
<1> HIDE DEF op
<1>8. QED
  BY <1>2, <1>3, <1>4, <1>5, <1>6, <1>7 DEF op, msg

\* RefuseOp and Broadcast: the projector has returned false or true.
LEMMA ProjectedEffect ==
    ASSUME BaseInv, NEW k \in Conn, RefuseOp(k) \/ Broadcast(k)
    PROVE  LET op == handler[k].op
           IN  /\ UNCHANGED <<up, down, list, cap, log, disturbed>>
               /\ handler[k].pc = "acked" /\ op # 0
               /\ \A l \in Conn : l # k => handler'[l] = handler[l] /\ cells'[l] = cells[l]
               /\ \/ /\ RefuseOp(k) /\ handler'[k].pc = "read" /\ handler'[k].op = 0
                     /\ UNCHANGED <<cells, live>>
                     /\ withheld' = withheld \union {op}
                  \/ /\ Broadcast(k) /\ handler'[k].pc = "broadcast" /\ handler'[k].op = op
                     /\ cells'[k] = list /\ live' = live \union {k}
                     /\ UNCHANGED withheld
               /\ handler'[k].subscribed = handler[k].subscribed
               /\ handler'[k].authenticated = handler[k].authenticated
               /\ handler'[k].diff = handler[k].diff
               /\ TypeOK'
<1> DEFINE op == handler[k].op
<1>1. TypeOK /\ HandledOnce /\ Handler(k)
  BY DEF BaseInv, Handler
<1>2. /\ handler[k].pc = "acked" /\ UNCHANGED <<up, down, list, cap, log, disturbed>>
  BY DEF RefuseOp, Broadcast, syncService
<1>3. op # 0 /\ op \in OpId /\ op \in 0 .. MaxOps
  <2>1. op # 0 /\ op \in 0 .. MaxOps
    BY <1>1, <1>2, HandlerFields DEF HandledOnce
  <2> HIDE DEF op
  <2> QED
    BY <2>1, SyncAssumption DEF OpId
<1>4. handler \in [Conn -> HandlerState] /\ handler[k] \in HandlerState
  BY <1>1 DEF TypeOK, HandlerState
<1>5. CASE RefuseOp(k)
  <2> DEFINE new == [handler[k] EXCEPT !.pc = "read", !.op = 0]
  <2>1. /\ handler' = [handler EXCEPT ![k].pc = "read", ![k].op = 0]
        /\ UNCHANGED <<cells, live>> /\ withheld' = withheld \union {op}
        /\ faults' = faults \/ (faults < MaxFaults /\ faults' = faults + 1)
    BY <1>5 DEF RefuseOp, syncService
  <2>2. new \in HandlerState
    <3>1. 0 \in 0 .. MaxOps
      BY SyncAssumption
    <3> QED
      BY <1>4, <3>1 DEF HandlerState
  <2>3. handler' = [handler EXCEPT ![k] = new]
    BY <1>4, <2>1 DEF HandlerState
  <2>4. /\ handler'[k] = new /\ \A l \in Conn : l # k => handler'[l] = handler[l]
        /\ handler' \in [Conn -> HandlerState]
    BY <1>1, <2>2, <2>3, NewHandler
  <2>5. /\ new.pc = "read" /\ new.op = 0 /\ new.subscribed = handler[k].subscribed
        /\ new.authenticated = handler[k].authenticated /\ new.diff = handler[k].diff
    BY <1>4 DEF HandlerState
  <2> HIDE DEF new
  <2>6. TypeOK'
    <3>1. /\ withheld' \subseteq OpId /\ disturbed' \subseteq OpId /\ up' \in [Conn -> Seq(Message)]
          /\ log' \in Seq(OpId) /\ IsInjective(log') /\ Len(log') >= Len(log)
          /\ down' \in [Conn -> Seq(Message)] /\ faults' \in 0 .. MaxFaults
      BY <1>1, <1>2, <1>3, <2>1, SyncAssumption DEF TypeOK
    <3>2. ServiceTyped'
      BY <1>1, <1>2, <2>1 DEF TypeOK, ServiceTyped
    <3> QED
      BY <1>1, <2>4, <3>1, <3>2, ServerStep, ServerTypes
  <2> QED
    BY <1>2, <1>3, <1>5, <2>1, <2>4, <2>5, <2>6
<1>6. CASE Broadcast(k)
  <2> DEFINE new == [handler[k] EXCEPT !.pc = "broadcast"]
  <2>1. /\ handler' = [handler EXCEPT ![k].pc = "broadcast"]
        /\ cells' = [cells EXCEPT ![k] = list] /\ live' = live \union {k}
        /\ UNCHANGED <<withheld, faults>>
    BY <1>6 DEF Broadcast
  <2>2. new \in HandlerState
    BY <1>4 DEF HandlerState
  <2>3. handler' = [handler EXCEPT ![k] = new]
    BY <1>4, <2>1 DEF HandlerState
  <2>4. /\ handler'[k] = new /\ \A l \in Conn : l # k => handler'[l] = handler[l]
        /\ handler' \in [Conn -> HandlerState]
    BY <1>1, <2>2, <2>3, NewHandler
  <2>5. /\ new.pc = "broadcast" /\ new.op = op /\ new.subscribed = handler[k].subscribed
        /\ new.authenticated = handler[k].authenticated /\ new.diff = handler[k].diff
    BY <1>4 DEF HandlerState
  <2> HIDE DEF new
  <2>6. /\ DOMAIN cells' = Conn /\ cells'[k] = list
        /\ \A l \in Conn : l # k => cells'[l] = cells[l]
    BY <1>1, <2>1 DEF TypeOK
  <2>7. TypeOK'
    <3>1. /\ withheld' \subseteq OpId /\ disturbed' \subseteq OpId /\ up' \in [Conn -> Seq(Message)]
          /\ log' \in Seq(OpId) /\ IsInjective(log') /\ Len(log') >= Len(log)
          /\ down' \in [Conn -> Seq(Message)] /\ faults' \in 0 .. MaxFaults
      BY <1>1, <1>2, <2>1 DEF TypeOK
    <3>2. ServiceTyped
      BY <1>1 DEF TypeOK, ServiceTyped
    <3>3. DOMAIN list \subseteq Nat /\ Range(list) \subseteq Conn
      BY <3>2 DEF ServiceTyped, Range
    <3>4. ServiceTyped'
      BY <1>2, <2>1, <2>6, <3>2, <3>3 DEF ServiceTyped
    <3> QED
      BY <1>1, <2>4, <3>1, <3>4, ServerStep, ServerTypes
  <2> QED
    BY <1>2, <1>3, <1>6, <2>1, <2>4, <2>5, <2>6, <2>7
<1> QED
  BY <1>5, <1>6

\* ListAfter: connection k subscribes and lists the log above the mark it is sent.
LEMMA ListAfterEffect ==
    ASSUME BaseInv, NEW k \in Conn, ListAfter(k)
    PROVE  LET seq == up[k][1].seq
           IN  /\ UNCHANGED <<down, log, withheld, disturbed>>
               /\ handler[k].pc = "read" /\ up[k] # <<>> /\ up[k][1].type = "sync_request"
               /\ seq \in 0 .. Len(log)
               /\ up'[k] = Tail(up[k]) /\ \A l \in Conn : l # k => up'[l] = up[l]
               /\ handler'[k].pc = "diff" /\ handler'[k].subscribed
               /\ handler'[k].diff \subseteq Range(log)
               /\ \A i \in seq + 1 .. Len(log) : log[i] \in handler'[k].diff
               /\ \A op \in handler'[k].diff : \E i \in seq + 1 .. Len(log) : log[i] = op
               /\ handler'[k].authenticated = handler[k].authenticated
               /\ handler'[k].op = handler[k].op
               /\ Range(list') = Range(list) \union {k}
               /\ \A l \in Conn :
                      /\ Range(cells'[l]) \subseteq Range(cells[l]) \union Range(list')
                      /\ handler[l].op \notin disturbed => Range(cells'[l]) = Range(cells[l])
               /\ \A l \in Conn : l # k => handler'[l] = handler[l]
               /\ TypeOK'
<1> DEFINE seq == up[k][1].seq
           suffix == Range(SubSeq(log, seq + 1, Len(log)))
<1>1. TypeOK /\ UpOnce /\ Handler(k)
  BY DEF BaseInv, Handler
<1>2. Receives(k, "sync_request")
  BY DEF ListAfter
<1>3. /\ handler[k].pc = "read" /\ up[k] # <<>> /\ 1 \in DOMAIN up[k]
      /\ up[k][1].type = "sync_request" /\ Head(up[k]) = up[k][1]
  BY <1>2, FirstUp
<1>4. seq \in 0 .. Len(log)
  <2>1. up[k] \in Seq(Message)
    BY <1>1 DEF TypeOK
  <2>2. up[k][1] \in Message /\ seq <= Len(log)
    BY <1>1, <1>3, <2>1, TailMessage DEF UpOnce
  <2>3. seq \in Seqs
    BY <1>3, <2>2 DEF Message
  <2>4. log \in Seq(OpId)
    BY <1>1 DEF TypeOK
  <2> HIDE DEF seq
  <2> QED
    BY <2>2, <2>3, <2>4 DEF Seqs
<1>5. /\ UNCHANGED <<down, log, withheld, disturbed, faults>> /\ up' = [up EXCEPT ![k] = Tail(@)]
      /\ handler' = [handler EXCEPT ![k].pc = "diff", ![k].subscribed = TRUE, ![k].diff = suffix]
  BY <1>3 DEF ListAfter
<1>5a. /\ ServiceTyped' /\ Range(list') = Range(list) \union {k}
       /\ \A l \in Conn :
              /\ Range(cells'[l]) \subseteq Range(cells[l]) \union Range(list')
              /\ handler[l].op \notin disturbed => Range(cells'[l]) = Range(cells[l])
  <2>1. ensureSubscribed(k)
    BY DEF ListAfter
  <2> QED
    BY <2>1, SubscribeEffect
<1>6. /\ up'[k] = Tail(up[k]) /\ \A l \in Conn : l # k => up'[l] = up[l]
      /\ up' \in [Conn -> Seq(Message)]
  BY <1>2, <1>5, FirstUp
<1>7. /\ suffix \subseteq Range(log) /\ \A i \in seq + 1 .. Len(log) : log[i] \in suffix
      /\ \A op \in suffix : \E i \in seq + 1 .. Len(log) : log[i] = op
  <2> HIDE DEF seq
  <2> QED
    BY <1>1, <1>4, RangeOfSuffix
<1>8. suffix \subseteq OpId
  <2>1. Range(log) \subseteq OpId
    BY <1>1 DEF TypeOK, Range
  <2> QED
    BY <1>7, <2>1
<1> HIDE DEF suffix, seq
<1>9. /\ handler'[k].pc = "diff" /\ handler'[k].subscribed /\ handler'[k].diff = suffix
      /\ handler'[k].authenticated = handler[k].authenticated
      /\ handler'[k].op = handler[k].op
      /\ \A l \in Conn : l # k => handler'[l] = handler[l]
      /\ handler' \in [Conn -> HandlerState]
  <2>1. handler \in [Conn -> HandlerState] /\ handler[k] \in HandlerState
    BY <1>1 DEF TypeOK, HandlerState
  <2> DEFINE new == [handler[k] EXCEPT !.pc = "diff", !.subscribed = TRUE, !.diff = suffix]
  <2>2. new \in HandlerState
    BY <1>8, <2>1 DEF HandlerState
  <2>3. handler' = [handler EXCEPT ![k] = new]
    BY <1>5, <2>1 DEF HandlerState
  <2>4. handler'[k] = new /\ \A l \in Conn : l # k => handler'[l] = handler[l]
    BY <1>1, <2>2, <2>3, NewHandler
  <2>5. /\ new.pc = "diff" /\ new.op = handler[k].op /\ new.subscribed
        /\ new.authenticated = handler[k].authenticated
        /\ new.diff = suffix
    BY <2>1 DEF HandlerState
  <2>6. handler' \in [Conn -> HandlerState]
    BY <1>1, <2>2, <2>3, NewHandler
  <2> HIDE DEF new
  <2> QED
    BY <2>4, <2>5, <2>6
<1>10. TypeOK'
  <2>1. /\ withheld' \subseteq OpId /\ disturbed' \subseteq OpId /\ down' \in [Conn -> Seq(Message)]
        /\ log' \in Seq(OpId) /\ IsInjective(log') /\ Len(log') >= Len(log)
        /\ faults' \in 0 .. MaxFaults
    BY <1>1, <1>5 DEF TypeOK
  <2> QED
    BY <1>1, <1>5a, <1>6, <1>9, <2>1, ServerStep, ServerTypes
<1>11. QED
  BY <1>3, <1>4, <1>5, <1>5a, <1>6, <1>7, <1>9, <1>10 DEF seq

\* SendDiff: what was listed is written.
LEMMA SendDiffEffect ==
    ASSUME BaseInv, NEW k \in Conn, SendDiff(k)
    PROVE  LET msg == [type |-> "sync", ops |-> handler[k].diff, seq |-> Len(log)]
           IN  /\ UNCHANGED <<up, list, cap, cells, live, log, withheld, disturbed>>
               /\ handler[k].pc = "diff" /\ handler[k].diff \subseteq Range(log) /\ msg \in Message
               /\ \A l \in Conn : l # k => handler'[l] = handler[l] /\ down'[l] = down[l]
               /\ Up(k) => down'[k] = Append(down[k], msg)
               /\ ~Up(k) => down'[k] = down[k]
               /\ handler'[k].pc = "read" /\ handler'[k].diff = {}
               /\ handler'[k].subscribed = handler[k].subscribed
               /\ handler'[k].authenticated = handler[k].authenticated
               /\ handler'[k].op = handler[k].op
               /\ TypeOK'
<1> DEFINE msg == [type |-> "sync", ops |-> handler[k].diff, seq |-> Len(log)]
<1>1. TypeOK /\ HandledOnce /\ Handler(k)
  BY DEF BaseInv, Handler
<1>2. /\ handler[k].pc = "diff"
      /\ UNCHANGED <<up, list, cap, cells, live, log, withheld, disturbed, faults>>
      /\ Write(k, msg) /\ handler' = [handler EXCEPT ![k].pc = "read", ![k].diff = {}]
  BY DEF SendDiff, syncService
<1>3. handler[k].diff \subseteq Range(log)
  BY <1>1 DEF HandledOnce
<1>4. msg \in Message
  BY <1>3, Messages
<1>5. /\ down' \in [Conn -> Seq(Message)] /\ \A l \in Conn : l # k => down'[l] = down[l]
      /\ Up(k) => down'[k] = Append(down[k], msg)
      /\ ~Up(k) => down'[k] = down[k]
  BY <1>1, <1>2, <1>4, WriteEffect
<1> HIDE DEF msg
<1>6. /\ handler'[k].pc = "read" /\ handler'[k].diff = {}
      /\ handler'[k].subscribed = handler[k].subscribed
      /\ handler'[k].authenticated = handler[k].authenticated
      /\ handler'[k].op = handler[k].op
      /\ \A l \in Conn : l # k => handler'[l] = handler[l]
      /\ handler' \in [Conn -> HandlerState]
  <2>1. handler \in [Conn -> HandlerState] /\ handler[k] \in HandlerState
    BY <1>1 DEF TypeOK, HandlerState
  <2> DEFINE new == [handler[k] EXCEPT !.pc = "read", !.diff = {}]
  <2>2. new \in HandlerState
    BY <2>1 DEF HandlerState
  <2>3. handler' = [handler EXCEPT ![k] = new]
    BY <1>2, <2>1 DEF HandlerState
  <2>4. handler'[k] = new /\ \A l \in Conn : l # k => handler'[l] = handler[l]
    BY <1>1, <2>2, <2>3, NewHandler
  <2>5. /\ new.pc = "read" /\ new.op = handler[k].op /\ new.subscribed = handler[k].subscribed
        /\ new.authenticated = handler[k].authenticated
        /\ new.diff = {}
    BY <2>1 DEF HandlerState
  <2>6. handler' \in [Conn -> HandlerState]
    BY <1>1, <2>2, <2>3, NewHandler
  <2> HIDE DEF new
  <2> QED
    BY <2>4, <2>5, <2>6
<1>7. TypeOK'
  <2>1. /\ withheld' \subseteq OpId /\ disturbed' \subseteq OpId /\ up' \in [Conn -> Seq(Message)]
        /\ log' \in Seq(OpId) /\ IsInjective(log') /\ Len(log') >= Len(log)
        /\ faults' \in 0 .. MaxFaults
    BY <1>1, <1>2 DEF TypeOK
  <2>2. ServiceTyped'
    BY <1>1, <1>2 DEF TypeOK, ServiceTyped
  <2> QED
    BY <1>1, <1>5, <1>6, <2>1, <2>2, ServerStep, ServerTypes
<1>8. QED
  BY <1>2, <1>3, <1>4, <1>5, <1>6, <1>7 DEF msg

\* BroadcastTo writes to the connection that one cell holds ...
LEMMA BroadcastWrites ==
    ASSUME BaseInv, NEW k \in Conn, NEW p \in DOMAIN cells[k], BroadcastTo(k, p)
    PROVE  LET op == handler[k].op
               to == cells[k][p]
               msg == [type |-> "sync", ops |-> {op}, seq |-> ServerSeq(op)]
           IN  /\ to \in Conn /\ to \in Range(cells[k])
               /\ op # 0 /\ op \in Range(log) /\ ServerSeq(op) \in DOMAIN log /\ msg \in Message
               /\ down' \in [Conn -> Seq(Message)]
               /\ \A l \in Conn : l # to => down'[l] = down[l]
               /\ ~Up(to) => down'[to] = down[to]
               /\ Up(to) => down'[to] = Append(down[to], msg)
<1> DEFINE op == handler[k].op
           to == cells[k][p]
           msg == [type |-> "sync", ops |-> {op}, seq |-> ServerSeq(op)]
<1>1. TypeOK /\ HandledOnce
  BY DEF BaseInv
<1>2. handler[k].pc = "broadcast" /\ Write(to, msg)
  BY DEF BroadcastTo
<1>3. op # 0 /\ op \in Range(log)
  BY <1>1, <1>2 DEF HandledOnce
<1>4. ServerSeq(op) \in DOMAIN log /\ msg \in Message
  BY <1>3, Messages
<1>5. to \in Range(cells[k]) /\ to \in Conn
  BY <1>1 DEF TypeOK, Range
<1> HIDE DEF op, msg, to
<1>6. /\ down' \in [Conn -> Seq(Message)] /\ \A l \in Conn : l # to => down'[l] = down[l]
      /\ ~Up(to) => down'[to] = down[to]
      /\ Up(to) => down'[to] = Append(down[to], msg)
  BY <1>1, <1>2, <1>4, <1>5, WriteEffect
<1>7. QED
  BY <1>3, <1>4, <1>5, <1>6 DEF op, msg, to

\* ... which the walk has no longer to send to, unless another cell holds it as well.
LEMMA BroadcastEffect ==
    ASSUME BaseInv, NEW k \in Conn, NEW p \in DOMAIN cells[k], BroadcastTo(k, p)
    PROVE  /\ UNCHANGED <<up, list, cap, log, withheld, disturbed>>
           /\ handler[k].pc = "broadcast" /\ handler[k].op # 0
           /\ DOMAIN cells'[k] \subseteq DOMAIN cells[k]
           /\ Range(cells[k]) \ {cells[k][p]} \subseteq Range(cells'[k])
           /\ Range(cells'[k]) \subseteq Range(cells[k])
           /\ IsInjective(cells[k]) => /\ IsInjective(cells'[k])
                                      /\ Range(cells'[k]) = Range(cells[k]) \ {cells[k][p]}
           /\ \/ /\ handler'[k].pc = "read" /\ handler'[k].op = 0
                 /\ DOMAIN cells'[k] = {} /\ Range(cells'[k]) = {} /\ live' = live \ {k}
              \/ handler'[k].pc = "broadcast" /\ handler'[k].op = handler[k].op /\ live' = live
           /\ handler'[k].subscribed = handler[k].subscribed
           /\ handler'[k].authenticated = handler[k].authenticated
           /\ handler'[k].diff = handler[k].diff
           /\ \A l \in Conn : l # k => handler'[l] = handler[l] /\ cells'[l] = cells[l]
           /\ TypeOK'
<1> DEFINE rest == DOMAIN cells[k] \ {p}
<1>1. TypeOK /\ HandledOnce /\ Handler(k)
  BY DEF BaseInv, Handler
<1>2. /\ handler[k].pc = "broadcast"
      /\ UNCHANGED <<up, list, cap, log, withheld, disturbed, faults>>
      /\ cells' = [cells EXCEPT ![k] = [q \in rest |-> cells[k][q]]]
      /\ \/ /\ rest = {} /\ live' = live \ {k}
            /\ handler' = [handler EXCEPT ![k].pc = "read", ![k].op = 0]
         \/ rest # {} /\ UNCHANGED <<handler, live>>
  BY DEF BroadcastTo
<1>3. handler[k].op # 0 /\ down' \in [Conn -> Seq(Message)]
  BY BroadcastWrites
<1>4. /\ DOMAIN cells' = Conn /\ \A l \in Conn : l # k => cells'[l] = cells[l]
      /\ DOMAIN cells'[k] = rest /\ \A q \in rest : cells'[k][q] = cells[k][q]
  BY <1>1, <1>2 DEF TypeOK
<1>5. /\ DOMAIN cells'[k] \subseteq DOMAIN cells[k]
      /\ Range(cells[k]) \ {cells[k][p]} \subseteq Range(cells'[k])
      /\ Range(cells'[k]) \subseteq Range(cells[k])
      /\ IsInjective(cells[k]) => /\ IsInjective(cells'[k])
                                 /\ Range(cells'[k]) = Range(cells[k]) \ {cells[k][p]}
      /\ rest = {} => Range(cells'[k]) = {}
  BY <1>4 DEF Range, IsInjective
<1>6. /\ \/ /\ handler'[k].pc = "read" /\ handler'[k].op = 0 /\ rest = {} /\ live' = live \ {k}
         \/ handler'[k].pc = "broadcast" /\ handler'[k].op = handler[k].op /\ live' = live
      /\ handler'[k].subscribed = handler[k].subscribed
      /\ handler'[k].authenticated = handler[k].authenticated
      /\ handler'[k].diff = handler[k].diff
      /\ \A l \in Conn : l # k => handler'[l] = handler[l]
      /\ handler' \in [Conn -> HandlerState]
  <2>1. handler \in [Conn -> HandlerState] /\ handler[k] \in HandlerState
    BY <1>1 DEF TypeOK, HandlerState
  <2>2. CASE rest # {} /\ UNCHANGED <<handler, live>>
    BY <1>2, <2>1, <2>2
  <2>3. CASE /\ rest = {} /\ live' = live \ {k}
             /\ handler' = [handler EXCEPT ![k].pc = "read", ![k].op = 0]
    <3> DEFINE new == [handler[k] EXCEPT !.pc = "read", !.op = 0]
    <3>1. new \in HandlerState
      <4>1. 0 \in 0 .. MaxOps
        BY SyncAssumption
      <4> QED
        BY <2>1, <4>1 DEF HandlerState
    <3>2. handler' = [handler EXCEPT ![k] = new]
      BY <2>1, <2>3 DEF HandlerState
    <3>3. /\ handler'[k] = new /\ \A l \in Conn : l # k => handler'[l] = handler[l]
          /\ handler' \in [Conn -> HandlerState]
      BY <1>1, <3>1, <3>2, NewHandler
    <3>4. /\ new.pc = "read" /\ new.op = 0 /\ new.subscribed = handler[k].subscribed
          /\ new.authenticated = handler[k].authenticated /\ new.diff = handler[k].diff
      BY <2>1 DEF HandlerState
    <3> HIDE DEF new, rest
    <3> QED
      BY <2>3, <3>3, <3>4
  <2> QED
    BY <1>2, <2>2, <2>3
<1>7. TypeOK'
  <2>1. /\ withheld' \subseteq OpId /\ disturbed' \subseteq OpId /\ up' \in [Conn -> Seq(Message)]
        /\ log' \in Seq(OpId) /\ IsInjective(log') /\ Len(log') >= Len(log)
        /\ faults' \in 0 .. MaxFaults
    BY <1>1, <1>2 DEF TypeOK
  <2>2. ServiceTyped'
    <3>1. ServiceTyped
      BY <1>1 DEF TypeOK, ServiceTyped
    <3>2. live' \subseteq live
      BY <1>6
    <3> HIDE DEF rest
    <3> QED
      BY <1>2, <1>4, <1>5, <3>1, <3>2 DEF ServiceTyped
  <2> HIDE DEF rest
  <2> QED
    BY <1>1, <1>3, <1>6, <2>1, <2>2, ServerStep, ServerTypes
<1> HIDE DEF rest
<1>8. QED
  BY <1>2, <1>3, <1>4, <1>5, <1>6, <1>7

\* HandlerEnds: connection k unsubscribes, and the broadcasts that walk the array are disturbed.
LEMMA EndEffect ==
    ASSUME BaseInv, NEW k \in Conn, HandlerEnds(k)
    PROVE  /\ UNCHANGED <<down, log, withheld>>
           /\ handler[k].pc = "read" /\ ~Up(k)
           /\ up'[k] = <<>>
           /\ \A l \in Conn : l # k => handler'[l] = handler[l] /\ up'[l] = up[l]
           /\ disturbed \subseteq disturbed' /\ live' = live
           /\ Range(list') = Range(list) \ {k}
           /\ \A l \in Conn :
                  /\ DOMAIN cells'[l] = DOMAIN cells[l]
                  /\ Range(cells'[l]) \subseteq Range(cells[l]) \union Range(list)
                  /\ handler[l].op \notin disturbed' =>
                         /\ Range(cells'[l]) = Range(cells[l]) /\ IsInjective(cells'[l])
                         /\ l \in live => list' = list
           /\ handler'[k].pc = "ended" /\ ~handler'[k].subscribed
           /\ handler'[k].authenticated = handler[k].authenticated
           /\ handler'[k].op = handler[k].op /\ handler'[k].diff = handler[k].diff
           /\ TypeOK'
<1>1. TypeOK /\ HandledOnce /\ ListTrue /\ Handler(k)
  BY DEF BaseInv, Handler
<1>2. /\ handler[k].pc = "read" /\ ~Up(k) /\ UNCHANGED <<down, log, withheld, faults>>
      /\ handler' = [handler EXCEPT ![k].pc = "ended", ![k].subscribed = FALSE]
      /\ up' = [up EXCEPT ![k] = <<>>]
      /\ \/ handler[k].subscribed /\ Unsubscribe(k)
         \/ ~handler[k].subscribed /\ UNCHANGED <<list, cap, cells, live, disturbed>>
  BY DEF HandlerEnds, syncService
<1>3. /\ up'[k] = <<>> /\ \A l \in Conn : l # k => up'[l] = up[l]
      /\ up' \in [Conn -> Seq(Message)]
  BY <1>1, <1>2 DEF TypeOK
<1>4. /\ disturbed \subseteq disturbed' /\ live' = live /\ ServiceTyped'
      /\ Range(list') = Range(list) \ {k}
      /\ \A l \in Conn :
             /\ DOMAIN cells'[l] = DOMAIN cells[l]
             /\ Range(cells'[l]) \subseteq Range(cells[l]) \union Range(list)
             /\ handler[l].op \notin disturbed' =>
                    /\ Range(cells'[l]) = Range(cells[l]) /\ IsInjective(cells'[l])
                    /\ l \in live => list' = list
      /\ disturbed' \subseteq disturbed \union {handler[l].op : l \in live}
  <2>1. CASE Unsubscribe(k)
    BY <2>1, UnsubscribeEffect
  <2>2. CASE ~handler[k].subscribed /\ UNCHANGED <<list, cap, cells, live, disturbed>>
    <3>1. ServiceTyped'
      BY <1>1, <2>2 DEF TypeOK, ServiceTyped
    <3>2. k \notin Range(list)
      BY <1>1, <2>2 DEF ListTrue
    <3> QED
      BY <1>1, <2>2, <3>1, <3>2 DEF ListTrue
  <2> QED
    BY <1>2, <2>1, <2>2
<1>5. disturbed' \subseteq OpId
  <2>1. \A l \in live : l \in Conn /\ handler[l].op \in Range(log)
    BY <1>1 DEF HandledOnce, ListTrue, TypeOK
  <2>2. Range(log) \subseteq OpId /\ disturbed \subseteq OpId
    BY <1>1 DEF TypeOK, Range
  <2> QED
    BY <1>4, <2>1, <2>2
<1>6. /\ handler'[k].pc = "ended" /\ ~handler'[k].subscribed /\ handler'[k].diff = handler[k].diff
      /\ handler'[k].authenticated = handler[k].authenticated
      /\ handler'[k].op = handler[k].op
      /\ \A l \in Conn : l # k => handler'[l] = handler[l]
      /\ handler' \in [Conn -> HandlerState]
  <2>1. handler \in [Conn -> HandlerState] /\ handler[k] \in HandlerState
    BY <1>1 DEF TypeOK, HandlerState
  <2> DEFINE new == [handler[k] EXCEPT !.pc = "ended", !.subscribed = FALSE]
  <2>2. new \in HandlerState
    BY <2>1 DEF HandlerState
  <2>3. handler' = [handler EXCEPT ![k] = new]
    BY <1>2, <2>1 DEF HandlerState
  <2>4. handler'[k] = new /\ \A l \in Conn : l # k => handler'[l] = handler[l]
    BY <1>1, <2>2, <2>3, NewHandler
  <2>5. /\ new.pc = "ended" /\ new.op = handler[k].op /\ ~new.subscribed
        /\ new.authenticated = handler[k].authenticated
        /\ new.diff = handler[k].diff
    BY <2>1 DEF HandlerState
  <2>6. handler' \in [Conn -> HandlerState]
    BY <1>1, <2>2, <2>3, NewHandler
  <2> HIDE DEF new
  <2> QED
    BY <2>4, <2>5, <2>6
<1>7. TypeOK'
  <2>1. /\ withheld' \subseteq OpId /\ down' \in [Conn -> Seq(Message)]
        /\ log' \in Seq(OpId) /\ IsInjective(log') /\ Len(log') >= Len(log)
        /\ faults' \in 0 .. MaxFaults
    BY <1>1, <1>2 DEF TypeOK
  <2> QED
    BY <1>1, <1>3, <1>4, <1>5, <1>6, <2>1, ServerStep, ServerTypes
<1> QED
  BY <1>2, <1>3, <1>4, <1>6, <1>7

-----------------------------------------------------------------------------
(***************************************************************************)
(* The first part of the invariant is inductive: one lemma for each        *)
(* conjunct, with a step for each action that can disturb it.              *)
(***************************************************************************)

\* What every step of a goroutine has in common.
LEMMA ServerFrame ==
    ASSUME BaseInv, NEW k \in Conn, Handler(k)
    PROVE  /\ handler[k].pc # "none" /\ handler'[k].pc # "none"
           /\ \A l \in Conn : l # k => handler'[l] = handler[l] /\ up'[l] = up[l]
           /\ \A l \in Conn : handler[l].pc = "none" \/ ~Up(l) => down'[l] = down[l]
           /\ \A l, m \in Conn : m \in Range(cells'[l]) => handler[m].pc # "none"
           /\ TypeOK'
<1>1. /\ \A l, m \in Conn : m \in Range(cells[l]) => handler[m].pc # "none"
      /\ \A m \in Conn : m \in Range(list) => handler[m].pc # "none"
  BY DEF BaseInv, Connections, ListTrue
<1>2. CASE HandleOp(k) \/ HandleOpFails(k)
  <2>1. /\ handler[k].pc = "read" /\ handler'[k].pc # "none" /\ UNCHANGED down /\ TypeOK'
        /\ \A l \in Conn : l # k => handler'[l] = handler[l] /\ up'[l] = up[l]
        /\ Range(list') = Range(list) \union {k}
        /\ \A l \in Conn : Range(cells'[l]) \subseteq Range(cells[l]) \union Range(list')
    BY <1>2, HandleOpEffect
  <2> QED
    BY <1>1, <2>1
<1>3. CASE AckOp(k)
  BY <1>1, <1>3, AckOpEffect
<1>4. CASE RefuseOp(k) \/ Broadcast(k)
  <2>1. /\ handler[k].pc = "acked" /\ handler'[k].pc # "none" /\ UNCHANGED <<up, down>> /\ TypeOK'
        /\ \A l \in Conn : l # k => handler'[l] = handler[l] /\ cells'[l] = cells[l]
        /\ cells'[k] = cells[k] \/ cells'[k] = list
    BY <1>4, ProjectedEffect
  <2> QED
    BY <1>1, <2>1
<1>5. CASE ListAfter(k)
  <2>1. /\ handler[k].pc = "read" /\ handler'[k].pc # "none" /\ UNCHANGED down /\ TypeOK'
        /\ \A l \in Conn : l # k => handler'[l] = handler[l] /\ up'[l] = up[l]
        /\ Range(list') = Range(list) \union {k}
        /\ \A l \in Conn : Range(cells'[l]) \subseteq Range(cells[l]) \union Range(list')
    BY <1>5, ListAfterEffect
  <2> QED
    BY <1>1, <2>1
<1>6. CASE SendDiff(k)
  BY <1>1, <1>6, SendDiffEffect
<1>7. CASE HandlerEnds(k)
  <2>1. /\ handler[k].pc = "read" /\ handler'[k].pc # "none" /\ UNCHANGED down /\ TypeOK'
        /\ \A l \in Conn : l # k => handler'[l] = handler[l] /\ up'[l] = up[l]
        /\ \A l \in Conn : Range(cells'[l]) \subseteq Range(cells[l]) \union Range(list)
    BY <1>7, EndEffect
  <2> QED
    BY <1>1, <2>1
<1>8. ASSUME NEW p \in DOMAIN cells[k], BroadcastTo(k, p)
      PROVE  /\ handler[k].pc # "none" /\ handler'[k].pc # "none"
             /\ \A l \in Conn : l # k => handler'[l] = handler[l] /\ up'[l] = up[l]
             /\ \A l \in Conn : handler[l].pc = "none" \/ ~Up(l) => down'[l] = down[l]
             /\ \A l, m \in Conn : m \in Range(cells'[l]) => handler[m].pc # "none"
             /\ TypeOK'
  <2> DEFINE to == cells[k][p]
  <2>1. /\ to \in Conn /\ to \in Range(cells[k])
        /\ \A l \in Conn : l # to => down'[l] = down[l]
        /\ ~Up(to) => down'[to] = down[to]
    BY <1>8, BroadcastWrites
  <2>2. /\ UNCHANGED up /\ handler[k].pc = "broadcast"
        /\ Range(cells'[k]) \subseteq Range(cells[k])
        /\ handler'[k].pc = "read" \/ handler'[k].pc = "broadcast"
        /\ \A l \in Conn : l # k => handler'[l] = handler[l] /\ cells'[l] = cells[l]
        /\ TypeOK'
    BY <1>8, BroadcastEffect
  <2> HIDE DEF to
  <2> QED
    BY <1>1, <2>1, <2>2
<1> QED
  BY <1>2, <1>3, <1>4, <1>5, <1>6, <1>7, <1>8 DEF Handler

\* Connections: a connection does nothing before it is accepted, and gets nothing once it is gone.
LEMMA ConnectionsStep ==
    ASSUME BaseInv, Next
    PROVE  Connections'
<1> USE DEF Connections, Unused
<1>1. TypeOK /\ Connections
  BY DEF BaseInv
<1>2. /\ \A k \in Conn : k[1] \in Client /\ k[2] \in 1 .. MaxConns /\ k = <<k[1], k[2]>>
      /\ \A c \in Client : Cur(c) \in Conn /\ Cur(c)[1] = c /\ Cur(c)[2] = gen[c]
      /\ \A k \in Conn : Up(k) <=> sock[k[1]] # "none" /\ k = Cur(k[1])
  BY <1>1, ConnFacts
<1>3. ASSUME NEW c \in Client, Lose(c) \/ Disconnect(c) PROVE Connections'
  <2>1. /\ UNCHANGED <<gen, up, handler, cells>>
        /\ sock'[c] = "none" /\ \A d \in Client : d # c => sock'[d] = sock[d]
        /\ down'[Cur(c)] = <<>> /\ \A l \in Conn : l # Cur(c) => down'[l] = down[l]
        /\ \A d \in Client : Cur(d)' = Cur(d)
        /\ \A k \in Conn : Up(k)' <=> Up(k) /\ k[1] # c
    BY <1>3, DownEffect
  <2>2. \A k \in Conn : ~Up(k)' => down'[k] = <<>>
    BY <1>1, <1>2, <2>1
  <2>3. \A k \in Conn : Unused(k) => Unused(k)'
    BY <1>1, <2>1
  <2> HIDE DEF Unused
  <2> QED
    BY <1>1, <1>2, <2>1, <2>2, <2>3
<1>4. ASSUME NEW c \in Client, Reconnect(c) PROVE Connections'
  <2>1. /\ UNCHANGED <<up, down, handler, cells>>
        /\ sock[c] = "none" /\ sock'[c] = "connecting"
        /\ \A d \in Client : d # c => sock'[d] = sock[d] /\ gen'[d] = gen[d] /\ Cur(d)' = Cur(d)
        /\ gen'[c] = gen[c] + 1 /\ Cur(c)' \in Conn /\ Unused(Cur(c)')
        /\ \A k \in Conn : Up(k)' <=> Up(k) \/ k = Cur(c)'
    BY <1>4, ReconnectEffect
  <2>2. \A d \in Client : gen[d] \in Nat /\ gen'[d] \in Nat /\ gen'[d] >= gen[d]
    <3>1. \A d \in Client : gen[d] \in Nat
      BY <1>1, SyncAssumption DEF TypeOK
    <3>2. \A d \in Client : gen'[d] = gen[d] \/ gen'[d] = gen[d] + 1
      BY <2>1
    <3> QED
      BY <3>1, <3>2
  <2>3. \A k \in Conn : Unused(k) => Unused(k)'
    BY <1>1, <2>1
  <2>4. Unused(Cur(c))'
    BY <2>1
  <2> HIDE DEF Unused
  <2>5. \A k \in Conn : k[2] > gen'[k[1]] => Unused(k)'
    <3>1. \A k \in Conn : k[2] > gen'[k[1]] => k[2] > gen[k[1]]
      BY <1>2, <2>2
    <3> QED
      BY <1>1, <2>3, <3>1
  <2>6. \A d \in Client : gen'[d] >= 1
    BY <1>1, <2>2
  <2> QED
    BY <1>1, <1>2, <2>1, <2>3, <2>4, <2>5, <2>6
<1>5. ASSUME NEW c \in Client, Closed(c) PROVE Connections'
  <2>1. UNCHANGED <<sock, gen, up, down, handler, cells>>
    BY <1>5, ClosedEffect DEF server, syncService
  <2> QED
    BY <1>1, <2>1 DEF Cur, Up
<1>6. ASSUME NEW c \in Client, Type(c) PROVE Connections'
  <2>1. /\ UNCHANGED <<sock, gen, down, handler, cells>>
        /\ \A l \in Conn : l # Cur(c) => up'[l] = up[l]
        /\ sock[c] # "open" => up'[Cur(c)] = up[Cur(c)]
    BY <1>6, TypeEffect
  <2>2. \A k \in Conn : Unused(k) => Unused(k)'
    BY <1>1, <1>2, <2>1
  <2> HIDE DEF Unused
  <2> QED
    BY <1>1, <1>2, <2>1, <2>2 DEF Cur, Up
<1>7. ASSUME NEW c \in Client, HandleAck(c) \/ HandleSync(c) PROVE Connections'
  <2>1. /\ UNCHANGED <<sock, gen, up, handler, cells>> /\ down[Cur(c)] # <<>> /\ sock[c] = "open"
        /\ \A l \in Conn : l # Cur(c) => down'[l] = down[l]
    BY <1>7, HandleAckEffect, HandleSyncEffect
  <2>2. Up(Cur(c)) /\ handler[Cur(c)].pc # "none"
    BY <1>1, <1>2, <2>1
  <2>3. \A k \in Conn : Unused(k) => Unused(k)'
    BY <1>1, <2>1, <2>2
  <2>4. \A k \in Conn : Up(k)' = Up(k)
    BY <2>1 DEF Up
  <2> HIDE DEF Unused
  <2> QED
    BY <1>1, <1>2, <2>1, <2>2, <2>3, <2>4 DEF Cur
<1>8. ASSUME NEW c \in Client, NEW expired \in BOOLEAN, Accept(c, expired) PROVE Connections'
  <2>1. /\ UNCHANGED <<gen, down, cells>>
        /\ sock[c] = "connecting" /\ sock'[c] = "open"
        /\ \A d \in Client : d # c => sock'[d] = sock[d]
        /\ \A d \in Client : Cur(d)' = Cur(d)
        /\ \A l \in Conn : Up(l)' <=> Up(l)
        /\ handler'[Cur(c)].pc = "read" /\ ~handler'[Cur(c)].subscribed
        /\ \A l \in Conn : l # Cur(c) => handler'[l] = handler[l] /\ up'[l] = up[l]
    BY <1>8, AcceptEffect
  <2>2. \A k \in Conn : k # Cur(c) /\ Unused(k) => Unused(k)'
    BY <1>1, <2>1
  <2>3. \A k \in Conn : k[2] > gen[k[1]] => k # Cur(c)
    BY <1>1, <1>2 DEF TypeOK
  <2>4. \A k, l \in Conn : k \in Range(cells'[l]) => handler'[k].pc # "none"
    BY <1>1, <1>2, <2>1
  <2>5. \A k \in Conn : handler'[k].subscribed => handler'[k].pc # "none"
    BY <1>1, <1>2, <2>1
  <2> HIDE DEF Unused
  <2> QED
    BY <1>1, <1>2, <2>1, <2>2, <2>3, <2>4, <2>5
<1>9. ASSUME NEW k \in Conn, Handler(k) PROVE Connections'
  <2>1. /\ UNCHANGED <<sock, gen>> /\ \A c \in Client : Cur(c)' = Cur(c)
        /\ \A l \in Conn : Up(l)' <=> Up(l)
    BY <1>9, ServerStep
  <2>2. /\ handler[k].pc # "none" /\ handler'[k].pc # "none"
        /\ \A l \in Conn : l # k => handler'[l] = handler[l] /\ up'[l] = up[l]
        /\ \A l \in Conn : handler[l].pc = "none" \/ ~Up(l) => down'[l] = down[l]
        /\ \A l, m \in Conn : m \in Range(cells'[l]) => handler[m].pc # "none"
    BY <1>9, ServerFrame
  <2>3. \A l \in Conn : Unused(l) => Unused(l)'
    BY <1>1, <2>2
  <2>4. \A l \in Conn : handler[l].pc # "none" => handler'[l].pc # "none"
    BY <2>2
  <2>5. \A l, m \in Conn : m \in Range(cells'[l]) => handler'[m].pc # "none"
    BY <2>2, <2>4
  <2>6. \A l \in Conn : handler'[l].subscribed => handler'[l].pc # "none"
    BY <1>1, <2>2
  <2> HIDE DEF Unused
  <2> QED
    BY <1>1, <1>2, <2>1, <2>2, <2>3, <2>4, <2>5, <2>6
<1> QED
  BY <1>3, <1>4, <1>5, <1>6, <1>7, <1>8, <1>9 DEF Next, Browser

\* UpOnce: an operation is sent once, before it is in the log, while its client waits for it.
LEMMA UpOnceStep ==
    ASSUME BaseInv, Next
    PROVE  UpOnce'
<1> USE DEF UpOnce
<1>1. TypeOK /\ UpOnce
  BY DEF BaseInv
<1>2. /\ \A k \in Conn : k[1] \in Client
      /\ \A c \in Client : Cur(c) \in Conn /\ Cur(c)[1] = c
  BY ConnFacts DEF BaseInv
<1>3. up \in [Conn -> Seq(Message)] /\ Len(log) \in Nat /\ log \in Seq(OpId)
  BY <1>1 DEF TypeOK
<1>4. ASSUME NEW c \in Client, Lose(c) \/ Disconnect(c) PROVE UpOnce'
  <2>1. UNCHANGED <<up, ops, pendingAcks, log>>
    BY <1>4, DownEffect
  <2> QED
    BY <1>1, <2>1
<1>5. ASSUME NEW c \in Client, Reconnect(c) PROVE UpOnce'
  <2>1. UNCHANGED <<up, ops, pendingAcks, log>>
    BY <1>5, ReconnectEffect
  <2> QED
    BY <1>1, <2>1
<1>6. ASSUME NEW c \in Client, Closed(c) PROVE UpOnce'
  <2>1. UNCHANGED <<up, ops, pendingAcks, log>>
    BY <1>6, ClosedEffect DEF manager, server, syncService
  <2> QED
    BY <1>1, <2>1
<1>7. ASSUME NEW c \in Client, HandleSync(c) PROVE UpOnce'
  <2>1. UNCHANGED <<up, ops, pendingAcks, log>>
    BY <1>7, HandleSyncEffect
  <2> QED
    BY <1>1, <2>1
<1>8. ASSUME NEW c \in Client, HandleAck(c) PROVE UpOnce'
  <2> DEFINE op == down[Cur(c)][1].op
             seq == down[Cur(c)][1].seq
  <2>1. /\ UNCHANGED <<up, ops, log>> /\ seq \in DOMAIN log /\ log[seq] = op
        /\ pendingAcks'[c] = pendingAcks[c] \ {op}
        /\ \A d \in Client : d # c => pendingAcks'[d] = pendingAcks[d]
    BY <1>8, HandleAckEffect
  <2>2. op \in Range(log)
    BY <2>1 DEF Range
  <2> HIDE DEF op, seq
  <2> QED
    BY <1>1, <1>2, <2>1, <2>2
<1>9. ASSUME NEW c \in Client, Type(c) PROVE UpOnce'
  <2> DEFINE op == Len(ops) + 1
             msg == [type |-> "op", op |-> op]
  <2>1. /\ UNCHANGED log /\ op \notin DOMAIN ops /\ msg \in Message
        /\ DOMAIN ops' = DOMAIN ops \union {op} /\ ops'[op] = c
        /\ \A o \in DOMAIN ops : ops'[o] = ops[o]
        /\ pendingAcks'[c] = pendingAcks[c] \union {op}
        /\ \A d \in Client : d # c => pendingAcks'[d] = pendingAcks[d]
        /\ \A l \in Conn : l # Cur(c) => up'[l] = up[l]
        /\ sock[c] = "open" => up'[Cur(c)] = Append(up[Cur(c)], msg)
        /\ sock[c] # "open" => up'[Cur(c)] = up[Cur(c)]
    BY <1>9, TypeEffect, ZenonT(30)
  <2>2. msg.type = "op" /\ msg.op = op /\ op \notin Range(log)
    BY <2>1 DEF BaseInv, OpsKnown
  <2> HIDE DEF op, msg
  <2>3. CASE sock[c] # "open"
    <3>1. \A l \in Conn : up'[l] = up[l]
      BY <2>1, <2>3
    <3> QED
      BY <1>1, <1>2, <2>1, <3>1
  <2>4. CASE sock[c] = "open"
    <3> DEFINE n == Len(up[Cur(c)]) + 1
    <3>1. /\ \A l \in Conn : \A i \in DOMAIN up'[l] :
                 i \in DOMAIN up[l] \/ (l = Cur(c) /\ i = n)
          /\ up'[Cur(c)][n] = msg
          /\ \A l \in Conn : \A i \in DOMAIN up[l] : up'[l][i] = up[l][i]
      <4>1. up' \in [Conn -> Seq(Message)]
        BY <1>9, TypeEffect DEF TypeOK
      <4>2. up \in [Conn -> Seq(Message)] /\ Cur(c) \in Conn /\ msg \in Message
        BY <1>2, <1>3, <2>1
      <4>3. up'[Cur(c)] = Append(up[Cur(c)], msg) /\ \A l \in Conn : l # Cur(c) => up'[l] = up[l]
        BY <2>1, <2>4
      <4>4. /\ DOMAIN up'[Cur(c)] = DOMAIN up[Cur(c)] \union {n} /\ up'[Cur(c)][n] = msg
            /\ \A i \in DOMAIN up[Cur(c)] : up'[Cur(c)][i] = up[Cur(c)][i]
        BY <4>2, <4>3, AppendMessage
      <4> QED
        BY <4>3, <4>4
    <3> HIDE DEF n
    <3>2. \A k \in Conn : \A i \in DOMAIN up'[k] : up'[k][i].type \in {"op", "sync_request"}
      BY <1>1, <2>2, <3>1
    <3>3. \A k \in Conn : \A i \in DOMAIN up'[k] : up'[k][i].type = "sync_request" =>
              i = 1 /\ up'[k][i].seq <= Len(log)
      BY <1>1, <2>2, <3>1
    <3>4. ASSUME NEW k \in Conn, NEW i \in DOMAIN up'[k], up'[k][i].type = "op"
          PROVE  LET o == up'[k][i].op
                 IN  /\ o \in DOMAIN ops' /\ ops'[o] = k[1] /\ o \in pendingAcks'[k[1]]
                     /\ o \notin Range(log)
                     /\ \A l \in Conn : \A j \in DOMAIN up'[l] :
                            up'[l][j].type = "op" /\ up'[l][j].op = o => l = k /\ j = i
      <4>1. CASE i \in DOMAIN up[k]
        <5>1. up'[k][i] = up[k][i] /\ up[k][i].op # op
          BY <1>1, <2>1, <3>1, <3>4, <4>1
        <5> QED
          BY <1>1, <1>2, <2>1, <2>2, <3>1, <3>4, <4>1, <5>1
      <4>2. CASE k = Cur(c) /\ i = n
        <5>1. \A l \in Conn : \A j \in DOMAIN up[l] : up[l][j].type = "op" => up[l][j].op # op
          BY <1>1, <2>1
        <5> QED
          BY <1>2, <2>1, <2>2, <3>1, <4>2, <5>1
      <4> QED
        BY <3>1, <4>1, <4>2
    <3> QED
      BY <2>1, <3>2, <3>3, <3>4
  <2> QED
    BY <2>3, <2>4
<1>10. ASSUME NEW c \in Client, NEW expired \in BOOLEAN, Accept(c, expired) PROVE UpOnce'
  <2> DEFINE msg == [type |-> "sync_request", seq |-> lastServerSeq[c]]
  <2>1. /\ UNCHANGED <<ops, pendingAcks, log>>
        /\ \A l \in Conn : l # Cur(c) => up'[l] = up[l]
        /\ up'[Cur(c)] = <<msg>> \/ up'[Cur(c)] = <<>>
    BY <1>10, AcceptEffect
  <2>2. msg.type = "sync_request" /\ msg.seq <= Len(log)
    BY <1>1 DEF TypeOK
  <2>3. \A i \in DOMAIN up'[Cur(c)] : i = 1 /\ up'[Cur(c)][i] = msg
    BY <2>1
  <2> HIDE DEF msg
  <2> QED
    BY <1>1, <1>2, <2>1, <2>2, <2>3
<1>11. ASSUME NEW k \in Conn, Handler(k) PROVE UpOnce'
  <2>1. UNCHANGED <<ops, pendingAcks>>
    BY <1>11, ServerStep
  <2>2. ASSUME UNCHANGED <<up, log>> PROVE UpOnce'
    BY <1>1, <2>1, <2>2
  <2>3. CASE HandleOp(k) \/ HandleOpFails(k)
    <3> DEFINE op == up[k][1].op
    <3>1. /\ up[k] # <<>> /\ up[k][1].type = "op" /\ op \in OpId /\ op \notin Range(log)
          /\ log' = Append(log, op)
          /\ up'[k] = Tail(up[k]) /\ \A l \in Conn : l # k => up'[l] = up[l]
      BY <2>3, HandleOpEffect
    <3>2. 1 \in DOMAIN up[k]
      BY <1>3, <3>1, TailMessage
    <3>3. \A l \in Conn : \A i \in DOMAIN up[l] :
              up[l][i].type = "op" /\ up[l][i].op = op => l = k /\ i = 1
      BY <1>1, <3>1, <3>2
    <3> HIDE DEF op
    <3>4. Range(log') = Range(log) \union {op} /\ Len(log') = Len(log) + 1
      BY <1>1, <3>1, AppendLog
    <3>5. \A l \in Conn : \A i \in DOMAIN up'[l] :
              LET j == IF l = k THEN i + 1 ELSE i
              IN  i \in Nat /\ i >= 1 /\ j \in DOMAIN up[l] /\ up'[l][i] = up[l][j]
      <4>1. up' \in [Conn -> Seq(Message)]
        BY <2>3, HandleOpEffect DEF TypeOK
      <4> QED
        BY <1>3, <3>1, <4>1, TakeFirst
    <3>6. \A l \in Conn : \A i \in DOMAIN up'[l] : up'[l][i].type \in {"op", "sync_request"}
      BY <1>1, <3>5
    <3>7. \A l \in Conn : \A i \in DOMAIN up'[l] : up'[l][i].type = "sync_request" =>
              i = 1 /\ up'[l][i].seq <= Len(log')
      <4> SUFFICES ASSUME NEW l \in Conn, NEW i \in DOMAIN up'[l], up'[l][i].type = "sync_request"
                   PROVE  i = 1 /\ up'[l][i].seq <= Len(log')
        OBVIOUS
      <4>1. PICK j \in DOMAIN up[l] : /\ j = (IF l = k THEN i + 1 ELSE i) /\ i \in Nat /\ i >= 1
                                      /\ up'[l][i] = up[l][j]
        BY <3>5
      <4>2. j = 1 /\ up[l][j].seq <= Len(log)
        BY <1>1, <4>1
      <4>3. up[l][j].seq \in Nat
        <5>1. up[l][j] \in Message
          BY <1>3
        <5> QED
          BY <4>1, <5>1 DEF Message, Seqs
      <4> QED
        BY <1>3, <3>4, <4>1, <4>2, <4>3
    <3>8. ASSUME NEW l \in Conn, NEW i \in DOMAIN up'[l], up'[l][i].type = "op"
          PROVE  LET o == up'[l][i].op
                 IN  /\ o \in DOMAIN ops /\ ops[o] = l[1] /\ o \in pendingAcks[l[1]]
                     /\ o \notin Range(log')
                     /\ \A m \in Conn : \A j \in DOMAIN up'[m] :
                            up'[m][j].type = "op" /\ up'[m][j].op = o => m = l /\ j = i
      <4>1. PICK i0 \in DOMAIN up[l] : /\ i0 = (IF l = k THEN i + 1 ELSE i) /\ i \in Nat /\ i >= 1
                                       /\ up'[l][i] = up[l][i0]
        BY <3>5
      <4>2. up[l][i0].op # op
        BY <3>3, <3>8, <4>1
      <4>3. ASSUME NEW m \in Conn, NEW j \in DOMAIN up'[m],
                   up'[m][j].type = "op" /\ up'[m][j].op = up'[l][i].op
            PROVE  m = l /\ j = i
        <5>1. PICK j0 \in DOMAIN up[m] : /\ j0 = (IF m = k THEN j + 1 ELSE j) /\ j \in Nat
                                         /\ up'[m][j] = up[m][j0]
          BY <3>5
        <5>2. m = l /\ j0 = i0
          BY <1>1, <3>8, <4>1, <4>3, <5>1
        <5> QED
          BY <4>1, <5>1, <5>2
      <4> QED
        BY <1>1, <3>4, <3>8, <4>1, <4>2, <4>3
    <3> QED
      BY <2>1, <3>6, <3>7, <3>8
  <2>4. CASE ListAfter(k)
    <3>1. /\ up[k] # <<>> /\ UNCHANGED log
          /\ up'[k] = Tail(up[k]) /\ \A l \in Conn : l # k => up'[l] = up[l]
      BY <2>4, ListAfterEffect
    <3>2. \A l \in Conn : \A i \in DOMAIN up'[l] :
              LET j == IF l = k THEN i + 1 ELSE i
              IN  i \in Nat /\ i >= 1 /\ j \in DOMAIN up[l] /\ up'[l][i] = up[l][j]
      <4>1. up' \in [Conn -> Seq(Message)]
        BY <2>4, ListAfterEffect DEF TypeOK
      <4> QED
        BY <1>3, <3>1, <4>1, TakeFirst
    <3>3. \A l \in Conn : \A i \in DOMAIN up'[l] : up'[l][i].type \in {"op", "sync_request"}
      BY <1>1, <3>2
    <3>4. \A l \in Conn : \A i \in DOMAIN up'[l] : up'[l][i].type = "sync_request" =>
              i = 1 /\ up'[l][i].seq <= Len(log)
      <4> SUFFICES ASSUME NEW l \in Conn, NEW i \in DOMAIN up'[l], up'[l][i].type = "sync_request"
                   PROVE  i = 1 /\ up'[l][i].seq <= Len(log)
        OBVIOUS
      <4>1. PICK j \in DOMAIN up[l] : /\ j = (IF l = k THEN i + 1 ELSE i) /\ i \in Nat /\ i >= 1
                                      /\ up'[l][i] = up[l][j]
        BY <3>2
      <4> QED
        BY <1>1, <4>1
    <3>5. ASSUME NEW l \in Conn, NEW i \in DOMAIN up'[l], up'[l][i].type = "op"
          PROVE  LET o == up'[l][i].op
                 IN  /\ o \in DOMAIN ops /\ ops[o] = l[1] /\ o \in pendingAcks[l[1]]
                     /\ o \notin Range(log)
                     /\ \A m \in Conn : \A j \in DOMAIN up'[m] :
                            up'[m][j].type = "op" /\ up'[m][j].op = o => m = l /\ j = i
      <4>1. PICK i0 \in DOMAIN up[l] : /\ i0 = (IF l = k THEN i + 1 ELSE i) /\ i \in Nat
                                       /\ up'[l][i] = up[l][i0]
        BY <3>2
      <4>2. ASSUME NEW m \in Conn, NEW j \in DOMAIN up'[m],
                   up'[m][j].type = "op" /\ up'[m][j].op = up'[l][i].op
            PROVE  m = l /\ j = i
        <5>1. PICK j0 \in DOMAIN up[m] : /\ j0 = (IF m = k THEN j + 1 ELSE j) /\ j \in Nat
                                         /\ up'[m][j] = up[m][j0]
          BY <3>2
        <5>2. m = l /\ j0 = i0
          BY <1>1, <3>5, <4>1, <4>2, <5>1
        <5> QED
          BY <4>1, <5>1, <5>2
      <4> QED
        BY <1>1, <3>5, <4>1, <4>2
    <3> QED
      BY <2>1, <3>1, <3>3, <3>4, <3>5
  <2>5. CASE HandlerEnds(k)
    <3>1. UNCHANGED log /\ up'[k] = <<>> /\ \A l \in Conn : l # k => up'[l] = up[l]
      BY <2>5, EndEffect
    <3>2. DOMAIN up'[k] = {}
      BY <3>1
    <3> QED
      BY <1>1, <2>1, <3>1, <3>2
  <2>6. CASE AckOp(k)
    BY <2>2, <2>6, AckOpEffect
  <2>7. CASE RefuseOp(k) \/ Broadcast(k)
    BY <2>2, <2>7, ProjectedEffect
  <2>8. CASE SendDiff(k)
    BY <2>2, <2>8, SendDiffEffect
  <2>9. ASSUME NEW p \in DOMAIN cells[k], BroadcastTo(k, p) PROVE UpOnce'
    BY <2>2, <2>9, BroadcastEffect
  <2> QED
    BY <1>11, <2>3, <2>4, <2>5, <2>6, <2>7, <2>8, <2>9 DEF Handler
<1> QED
  BY <1>4, <1>5, <1>6, <1>7, <1>8, <1>9, <1>10, <1>11 DEF Next, Browser

\* HandledOnce: an operation of the log is in the hands of one goroutine at most.
LEMMA HandledOnceStep ==
    ASSUME BaseInv, Next
    PROVE  HandledOnce'
<1> USE DEF HandledOnce
<1>1. TypeOK /\ HandledOnce
  BY DEF BaseInv
<1>2. /\ \A k \in Conn : k[1] \in Client
      /\ \A c \in Client : Cur(c) \in Conn /\ Cur(c)[1] = c
  BY ConnFacts DEF BaseInv
<1>3. ASSUME NEW c \in Client, Lose(c) \/ Disconnect(c) PROVE HandledOnce'
  <2>1. UNCHANGED <<handler, ops, pendingAcks, log>>
    BY <1>3, DownEffect
  <2> QED
    BY <1>1, <2>1
<1>4. ASSUME NEW c \in Client, Reconnect(c) PROVE HandledOnce'
  <2>1. UNCHANGED <<handler, ops, pendingAcks, log>>
    BY <1>4, ReconnectEffect
  <2> QED
    BY <1>1, <2>1
<1>5. ASSUME NEW c \in Client, Closed(c) PROVE HandledOnce'
  <2>1. UNCHANGED <<handler, ops, pendingAcks, log>>
    BY <1>5, ClosedEffect DEF manager, server, syncService
  <2> QED
    BY <1>1, <2>1
<1>6. ASSUME NEW c \in Client, HandleSync(c) PROVE HandledOnce'
  <2>1. UNCHANGED <<handler, ops, pendingAcks, log>>
    BY <1>6, HandleSyncEffect
  <2> QED
    BY <1>1, <2>1
<1>7. ASSUME NEW c \in Client, HandleAck(c) PROVE HandledOnce'
  <2> DEFINE op == down[Cur(c)][1].op
  <2>1. /\ UNCHANGED <<handler, ops, log>>
        /\ \A l \in Conn : handler[l].pc = "appended" => handler[l].op # op
        /\ pendingAcks'[c] = pendingAcks[c] \ {op}
        /\ \A d \in Client : d # c => pendingAcks'[d] = pendingAcks[d]
    BY <1>7, HandleAckEffect
  <2> HIDE DEF op
  <2> QED
    BY <1>1, <1>2, <2>1
<1>8. ASSUME NEW c \in Client, Type(c) PROVE HandledOnce'
  <2> DEFINE op == Len(ops) + 1
  <2>1. /\ UNCHANGED <<handler, log>>
        /\ DOMAIN ops' = DOMAIN ops \union {op}
        /\ \A o \in DOMAIN ops : ops'[o] = ops[o]
        /\ pendingAcks'[c] = pendingAcks[c] \union {op}
        /\ \A d \in Client : d # c => pendingAcks'[d] = pendingAcks[d]
    BY <1>8, TypeEffect, ZenonT(30)
  <2> HIDE DEF op
  <2> QED
    BY <1>1, <1>2, <2>1
<1>9. ASSUME NEW c \in Client, NEW expired \in BOOLEAN, Accept(c, expired) PROVE HandledOnce'
  <2>1. /\ UNCHANGED <<ops, pendingAcks, log>>
        /\ handler'[Cur(c)].pc = "read" /\ handler'[Cur(c)].op = 0 /\ handler'[Cur(c)].diff = {}
        /\ \A l \in Conn : l # Cur(c) => handler'[l] = handler[l]
    BY <1>9, AcceptEffect
  <2> QED
    BY <1>1, <1>2, <2>1
<1>10. ASSUME NEW k \in Conn, Handler(k) PROVE HandledOnce'
  <2>1. UNCHANGED <<ops, pendingAcks>>
    BY <1>10, ServerStep
  <2>2. CASE HandleOp(k) \/ HandleOpFails(k)
    <3> DEFINE op == up[k][1].op
    <3>1. /\ handler[k].pc = "read" /\ op # 0 /\ op \in OpId
          /\ op \in DOMAIN ops /\ ops[op] = k[1] /\ op \in pendingAcks[k[1]] /\ op \notin Range(log)
          /\ log' = Append(log, op)
          /\ \/ handler'[k].pc = "appended" /\ handler'[k].op = op
             \/ handler'[k].pc = "read" /\ handler'[k].op = handler[k].op
          /\ handler'[k].diff = handler[k].diff
          /\ \A l \in Conn : l # k => handler'[l] = handler[l]
      BY <2>2, HandleOpEffect
    <3> HIDE DEF op
    <3>2. Range(log') = Range(log) \union {op}
      BY <1>1, <3>1, AppendLog
    <3>3. \A l \in Conn : handler[l].op # op
      BY <1>1, <3>1
    <3> QED
      BY <1>1, <2>1, <3>1, <3>2, <3>3
  <2>3. CASE AckOp(k)
    <3>1. /\ UNCHANGED log /\ handler[k].pc = "appended" /\ handler[k].op # 0
          /\ \A l \in Conn : l # k => handler'[l] = handler[l]
          /\ handler'[k].pc = "acked" /\ handler'[k].op = handler[k].op
          /\ handler'[k].diff = handler[k].diff
      BY <2>3, AckOpEffect
    <3> QED
      BY <1>1, <2>1, <3>1
  <2>4. CASE RefuseOp(k) \/ Broadcast(k)
    <3>1. /\ UNCHANGED log /\ handler[k].pc = "acked" /\ handler[k].op # 0
          /\ \A l \in Conn : l # k => handler'[l] = handler[l]
          /\ \/ handler'[k].pc = "broadcast" /\ handler'[k].op = handler[k].op
             \/ handler'[k].pc = "read" /\ handler'[k].op = 0
          /\ handler'[k].diff = handler[k].diff
      BY <2>4, ProjectedEffect
    <3> QED
      BY <1>1, <2>1, <3>1
  <2>5. CASE ListAfter(k)
    <3>1. /\ UNCHANGED log /\ handler[k].pc = "read"
          /\ handler'[k].pc = "diff" /\ handler'[k].op = handler[k].op
          /\ handler'[k].diff \subseteq Range(log)
          /\ \A l \in Conn : l # k => handler'[l] = handler[l]
      BY <2>5, ListAfterEffect
    <3> QED
      BY <1>1, <2>1, <3>1
  <2>6. CASE SendDiff(k)
    <3>1. /\ UNCHANGED log /\ handler[k].pc = "diff"
          /\ handler'[k].pc = "read" /\ handler'[k].op = handler[k].op /\ handler'[k].diff = {}
          /\ \A l \in Conn : l # k => handler'[l] = handler[l]
      BY <2>6, SendDiffEffect
    <3> QED
      BY <1>1, <2>1, <3>1
  <2>7. CASE HandlerEnds(k)
    <3>1. /\ UNCHANGED log /\ handler[k].pc = "read"
          /\ handler'[k].pc = "ended" /\ handler'[k].op = handler[k].op
          /\ handler'[k].diff = handler[k].diff
          /\ \A l \in Conn : l # k => handler'[l] = handler[l]
      BY <2>7, EndEffect
    <3> QED
      BY <1>1, <2>1, <3>1
  <2>8. ASSUME NEW p \in DOMAIN cells[k], BroadcastTo(k, p) PROVE HandledOnce'
    <3>1. /\ UNCHANGED log /\ handler[k].pc = "broadcast" /\ handler[k].op # 0
          /\ \/ handler'[k].pc = "read" /\ handler'[k].op = 0
             \/ handler'[k].pc = "broadcast" /\ handler'[k].op = handler[k].op
          /\ handler'[k].diff = handler[k].diff
          /\ \A l \in Conn : l # k => handler'[l] = handler[l]
      BY <2>8, BroadcastEffect
    <3> QED
      BY <1>1, <2>1, <3>1
  <2> QED
    BY <1>10, <2>2, <2>3, <2>4, <2>5, <2>6, <2>7, <2>8 DEF Handler
<1> QED
  BY <1>3, <1>4, <1>5, <1>6, <1>7, <1>8, <1>9, <1>10 DEF Next, Browser

\* DownTrue: a message is still true when the client reads it, however late that is.
LEMMA DownTrueStep ==
    ASSUME BaseInv, Next
    PROVE  DownTrue'
<1> USE DEF DownTrue
<1>1. TypeOK /\ DownTrue
  BY DEF BaseInv
<1>2. /\ \A k \in Conn : k[1] \in Client
      /\ \A c \in Client : Cur(c) \in Conn /\ Cur(c)[1] = c
  BY ConnFacts DEF BaseInv
<1>3. down \in [Conn -> Seq(Message)] /\ log \in Seq(OpId) /\ Len(log) \in Nat
  BY <1>1 DEF TypeOK
<1>4. ASSUME NEW c \in Client, Lose(c) \/ Disconnect(c) PROVE DownTrue'
  <2>1. /\ UNCHANGED <<handler, ops, log>>
        /\ down'[Cur(c)] = <<>> /\ \A l \in Conn : l # Cur(c) => down'[l] = down[l]
    BY <1>4, DownEffect
  <2>2. DOMAIN down'[Cur(c)] = {}
    BY <2>1
  <2> QED
    BY <1>1, <2>1, <2>2
<1>5. ASSUME NEW c \in Client, Reconnect(c) PROVE DownTrue'
  <2>1. UNCHANGED <<handler, ops, log, down>>
    BY <1>5, ReconnectEffect
  <2> QED
    BY <1>1, <2>1
<1>6. ASSUME NEW c \in Client, Closed(c) PROVE DownTrue'
  <2>1. UNCHANGED <<handler, ops, log, down>>
    BY <1>6, ClosedEffect DEF server, syncService
  <2> QED
    BY <1>1, <2>1
<1>7. ASSUME NEW c \in Client, HandleAck(c) \/ HandleSync(c) PROVE DownTrue'
  <2>1. /\ UNCHANGED <<handler, ops, log>> /\ down[Cur(c)] # <<>>
        /\ down'[Cur(c)] = Tail(down[Cur(c)]) /\ \A l \in Conn : l # Cur(c) => down'[l] = down[l]
        /\ TypeOK'
    BY <1>7, HandleAckEffect, HandleSyncEffect
  <2>2. down' \in [Conn -> Seq(Message)]
    BY <2>1 DEF TypeOK
  <2>3. \A l \in Conn : \A i \in DOMAIN down'[l] :
            LET j == IF l = Cur(c) THEN i + 1 ELSE i
            IN  i \in Nat /\ i >= 1 /\ j \in DOMAIN down[l] /\ down'[l][i] = down[l][j]
    <3>1. PICK k \in Conn : k = Cur(c)
      BY <1>2
    <3>2. down[k] # <<>> /\ down'[k] = Tail(down[k]) /\ \A l \in Conn : l # k => down'[l] = down[l]
      BY <2>1, <3>1
    <3> QED
      BY <1>3, <2>2, <3>1, <3>2, TakeFirst
  <2>4. \A l \in Conn : \A i \in DOMAIN down'[l] : \E j \in DOMAIN down[l] : down'[l][i] = down[l][j]
    BY <2>3
  <2> QED
    BY <1>1, <2>1, <2>4
<1>8. ASSUME NEW c \in Client, Type(c) PROVE DownTrue'
  <2> DEFINE op == Len(ops) + 1
  <2>1. /\ UNCHANGED <<handler, log, down>>
        /\ DOMAIN ops' = DOMAIN ops \union {op}
        /\ \A o \in DOMAIN ops : ops'[o] = ops[o]
    BY <1>8, TypeEffect
  <2> HIDE DEF op
  <2> QED
    BY <1>1, <2>1
<1>9. ASSUME NEW c \in Client, NEW expired \in BOOLEAN, Accept(c, expired) PROVE DownTrue'
  <2>1. /\ UNCHANGED <<ops, log, down>>
        /\ handler'[Cur(c)].pc = "read"
        /\ \A l \in Conn : l # Cur(c) => handler'[l] = handler[l]
    BY <1>9, AcceptEffect
  <2> QED
    BY <1>1, <1>2, <2>1
<1>10. ASSUME NEW k \in Conn, Handler(k) PROVE DownTrue'
  <2>1. UNCHANGED ops
    BY <1>10, ServerStep
  <2>2. CASE HandleOp(k) \/ HandleOpFails(k)
    <3> DEFINE op == up[k][1].op
    <3>1. /\ UNCHANGED down /\ op \in OpId /\ op \notin Range(log) /\ handler[k].pc = "read"
          /\ log' = Append(log, op)
          /\ handler'[k].pc = "appended" => handler'[k].op = op
          /\ \A l \in Conn : l # k => handler'[l] = handler[l]
      BY <2>2, HandleOpEffect
    <3> HIDE DEF op
    <3>2. /\ Len(log') = Len(log) + 1 /\ Range(log') = Range(log) \union {op}
          /\ \A i \in DOMAIN log : i \in DOMAIN log' /\ log'[i] = log[i]
      BY <1>1, <3>1, AppendLog
    <3>3. \A i \in DOMAIN log : log[i] # op
      BY <3>1 DEF Range
    <3>4. \A l \in Conn : \A i \in DOMAIN down[l] : down[l][i].type = "sync" => down[l][i].seq \in Nat
      <4>1. \A l \in Conn : \A i \in DOMAIN down[l] : down[l][i] \in Message
        BY <1>3
      <4> QED
        BY <4>1 DEF Message, Seqs
    <3>5. \A l \in Conn : handler'[l].pc = "appended" =>
              handler'[l].op = op \/ (handler[l].pc = "appended" /\ handler'[l].op = handler[l].op)
      BY <3>1
    <3>6. \A n \in Nat : n <= Len(log) => n <= Len(log')
      BY <1>3, <3>2
    <3>7. ASSUME NEW l \in Conn, NEW i \in DOMAIN down[l], down[l][i].type = "ack"
          PROVE  /\ down[l][i].op \in DOMAIN ops /\ ops[down[l][i].op] = l[1]
                 /\ down[l][i].seq \in DOMAIN log' /\ log'[down[l][i].seq] = down[l][i].op
                 /\ \A m \in Conn : handler'[m].pc = "appended" => handler'[m].op # down[l][i].op
      BY <1>1, <3>2, <3>3, <3>5, <3>7
    <3>8. ASSUME NEW l \in Conn, NEW i \in DOMAIN down[l], down[l][i].type = "sync"
          PROVE  down[l][i].ops \subseteq Range(log') /\ down[l][i].seq <= Len(log')
      BY <1>1, <3>2, <3>4, <3>6, <3>8
    <3>9. \A l \in Conn : \A i \in DOMAIN down[l] : down[l][i].type \in {"ack", "sync"}
      BY <1>1
    <3> QED
      BY <2>1, <3>1, <3>7, <3>8, <3>9
  <2>3. CASE AckOp(k)
    <3> DEFINE op == handler[k].op
               msg == [type |-> "ack", op |-> op, seq |-> ServerSeq(op)]
    <3>1. /\ UNCHANGED log /\ handler[k].pc = "appended" /\ op # 0
          /\ ServerSeq(op) \in DOMAIN log /\ log[ServerSeq(op)] = op /\ msg \in Message
          /\ \A l \in Conn : l # k => handler'[l] = handler[l] /\ down'[l] = down[l]
          /\ down'[k] = Append(down[k], msg) \/ down'[k] = down[k]
          /\ handler'[k].pc # "appended"
      BY <2>3, AckOpEffect
    <3>2. op \in DOMAIN ops /\ ops[op] = k[1] /\ \A l \in Conn : handler[l].op = op => l = k
      BY <3>1 DEF BaseInv, HandledOnce
    <3>3. msg.type = "ack" /\ msg.op = op /\ msg.seq = ServerSeq(op)
      OBVIOUS
    <3> HIDE DEF msg, op
    <3>4. \A l \in Conn : handler'[l].pc = "appended" =>
              handler[l].pc = "appended" /\ handler'[l].op = handler[l].op /\ l # k
      BY <3>1
    <3>5. CASE down'[k] = down[k]
      <4>1. \A l \in Conn : down'[l] = down[l]
        BY <3>1, <3>5
      <4> QED
        BY <1>1, <2>1, <3>1, <3>4, <4>1
    <3>6. CASE down'[k] = Append(down[k], msg)
      <4>1. /\ \A l \in Conn : \A i \in DOMAIN down[l] : down'[l][i] = down[l][i]
            /\ \A l \in Conn : \A i \in DOMAIN down'[l] :
                   i \in DOMAIN down[l] \/ (l = k /\ i = Len(down[k]) + 1)
            /\ down'[k][Len(down[k]) + 1] = msg
        BY <1>1, <3>1, <3>6, AddLast
      <4>2. \A l \in Conn : handler'[l].pc = "appended" => handler'[l].op # op
        BY <3>2, <3>4
      <4> QED
        BY <1>1, <2>1, <3>1, <3>2, <3>3, <3>4, <4>1, <4>2
    <3> QED
      BY <3>1, <3>5, <3>6
  <2>4. CASE ListAfter(k)
    <3>1. /\ UNCHANGED <<log, down>> /\ handler'[k].pc = "diff"
          /\ \A l \in Conn : l # k => handler'[l] = handler[l]
      BY <2>4, ListAfterEffect
    <3> QED
      BY <1>1, <2>1, <3>1
  <2>5. CASE HandlerEnds(k)
    <3>1. /\ UNCHANGED <<log, down>> /\ handler'[k].pc = "ended"
          /\ \A l \in Conn : l # k => handler'[l] = handler[l]
      BY <2>5, EndEffect
    <3> QED
      BY <1>1, <2>1, <3>1
  <2>6. ASSUME NEW to \in Conn, NEW msg \in Message, UNCHANGED log, handler'[k].pc # "appended",
               \A l \in Conn : l # k => handler'[l] = handler[l],
               \A l \in Conn : l # to => down'[l] = down[l],
               down'[to] = down[to] \/ down'[to] = Append(down[to], msg),
               msg.type = "sync", msg.ops \subseteq Range(log), msg.seq <= Len(log)
        PROVE  DownTrue'
    <3>1. \A l \in Conn : handler'[l].pc = "appended" =>
              handler[l].pc = "appended" /\ handler'[l].op = handler[l].op
      BY <2>6
    <3>2. CASE down'[to] = down[to]
      <4>1. \A l \in Conn : down'[l] = down[l]
        BY <2>6, <3>2
      <4> QED
        BY <1>1, <2>1, <2>6, <3>1, <4>1
    <3>3. CASE down'[to] = Append(down[to], msg)
      <4>1. /\ \A l \in Conn : \A i \in DOMAIN down[l] : down'[l][i] = down[l][i]
            /\ \A l \in Conn : \A i \in DOMAIN down'[l] :
                   i \in DOMAIN down[l] \/ (l = to /\ i = Len(down[to]) + 1)
            /\ down'[to][Len(down[to]) + 1] = msg
        BY <1>1, <2>6, <3>3, AddLast
      <4> QED
        BY <1>1, <2>1, <2>6, <3>1, <4>1
    <3> QED
      BY <2>6, <3>2, <3>3
  <2>7. CASE SendDiff(k)
    <3> DEFINE msg == [type |-> "sync", ops |-> handler[k].diff, seq |-> Len(log)]
    <3>1. /\ UNCHANGED log /\ handler[k].diff \subseteq Range(log) /\ msg \in Message
          /\ \A l \in Conn : l # k => handler'[l] = handler[l] /\ down'[l] = down[l]
          /\ down'[k] = down[k] \/ down'[k] = Append(down[k], msg)
          /\ handler'[k].pc = "read"
      BY <2>7, SendDiffEffect
    <3>2. msg.type = "sync" /\ msg.ops \subseteq Range(log) /\ msg.seq <= Len(log)
      BY <1>3, <3>1
    <3> HIDE DEF msg
    <3> QED
      BY <2>6, <3>1, <3>2
  <2>8. ASSUME NEW p \in DOMAIN cells[k], BroadcastTo(k, p) PROVE DownTrue'
    <3> DEFINE op == handler[k].op
               to == cells[k][p]
               msg == [type |-> "sync", ops |-> {op}, seq |-> ServerSeq(op)]
    <3>1. /\ op \in Range(log) /\ msg \in Message /\ ServerSeq(op) \in DOMAIN log
          /\ to \in Conn /\ \A l \in Conn : l # to => down'[l] = down[l]
          /\ down'[to] = down[to] \/ down'[to] = Append(down[to], msg)
      BY <2>8, BroadcastWrites
    <3>1a. /\ UNCHANGED log /\ handler'[k].pc # "appended"
           /\ \A l \in Conn : l # k => handler'[l] = handler[l]
      BY <2>8, BroadcastEffect
    <3>2. ServerSeq(op) <= Len(log)
      BY <1>3, <3>1
    <3>3. msg.type = "sync" /\ msg.ops \subseteq Range(log) /\ msg.seq <= Len(log)
      BY <3>1, <3>2
    <3> HIDE DEF msg, op, to
    <3> QED
      BY <2>6, <3>1, <3>1a, <3>3
  <2>9. CASE RefuseOp(k) \/ Broadcast(k)
    <3>1. /\ UNCHANGED <<log, down>> /\ handler'[k].pc \in {"read", "broadcast"}
          /\ \A l \in Conn : l # k => handler'[l] = handler[l]
      BY <2>9, ProjectedEffect
    <3> QED
      BY <1>1, <2>1, <3>1
  <2> QED
    BY <1>10, <2>2, <2>3, <2>4, <2>5, <2>7, <2>8, <2>9 DEF Handler
<1> QED
  BY <1>4, <1>5, <1>6, <1>7, <1>8, <1>9, <1>10 DEF Next, Browser

\* ListTrue: only subscribed connections are listed; what an undisturbed walk has still to read stays.
LEMMA ListTrueStep ==
    ASSUME BaseInv, Next
    PROVE  ListTrue'
<1> USE DEF ListTrue
<1>1. TypeOK /\ ListTrue
  BY DEF BaseInv
<1>2. \A l \in live : l \in Conn
  BY <1>1 DEF TypeOK
<1>3. ASSUME UNCHANGED <<handler, list, cells, live, disturbed>> PROVE ListTrue'
  BY <1>1, <1>3
<1>4. ASSUME NEW c \in Client, NEW expired \in BOOLEAN, Accept(c, expired) PROVE ListTrue'
  <2>1. Cur(c) \in Conn
    BY ConnFacts DEF BaseInv
  <2>2. /\ UNCHANGED <<list, cells, live, disturbed>>
        /\ handler[Cur(c)].pc = "none" /\ handler[Cur(c)].op = 0 /\ ~handler[Cur(c)].subscribed
        /\ handler'[Cur(c)].pc = "read" /\ handler'[Cur(c)].op = 0 /\ ~handler'[Cur(c)].subscribed
        /\ \A l \in Conn : l # Cur(c) => handler'[l] = handler[l]
    BY <1>4, AcceptEffect DEF Unused
  <2> QED
    BY <1>1, <1>2, <2>1, <2>2
<1>5. ASSUME NEW k \in Conn, Handler(k) PROVE ListTrue'
  <2>1. \A l \in Conn : l # k => handler'[l] = handler[l]
    BY <1>5, ServerFrame
  <2>2. ASSUME handler[k].pc = "read", handler'[k].pc # "broadcast", handler'[k].subscribed,
               UNCHANGED disturbed, ensureSubscribed(k)
        PROVE  ListTrue'
    <3>1. /\ live' \subseteq live
          /\ Range(list') = Range(list) \union {k} /\ DOMAIN list \subseteq DOMAIN list'
          /\ \A l \in Conn :
                 /\ DOMAIN cells'[l] = DOMAIN cells[l]
                 /\ handler[l].op \notin disturbed => IsInjective(cells'[l])
      BY <2>2, SubscribeEffect
    <3>2. Range(list') = {l \in Conn : handler'[l].subscribed}
      BY <1>1, <2>1, <2>2, <3>1
    <3>3. k \notin live /\ DOMAIN cells'[k] = {}
      BY <1>1, <2>2, <3>1
    <3>4. IsInjective(cells'[k])
      BY <3>3 DEF IsInjective
    <3>5. \A l \in Conn : handler'[l].op \notin disturbed' => IsInjective(cells'[l])
      BY <2>1, <2>2, <3>1, <3>4
    <3>6. \A l \in live' : l # k /\ l \in Conn
      BY <1>2, <3>1, <3>3
    <3> QED
      BY <1>1, <2>1, <2>2, <3>1, <3>2, <3>3, <3>5, <3>6
  <2>3. CASE HandleOp(k) \/ HandleOpFails(k)
    <3>1. /\ handler[k].pc = "read" /\ handler'[k].pc # "broadcast" /\ handler'[k].subscribed
          /\ UNCHANGED disturbed
      BY <2>3, HandleOpEffect
    <3>2. ensureSubscribed(k)
      BY <2>3 DEF HandleOp, HandleOpFails
    <3> QED
      BY <2>2, <3>1, <3>2
  <2>4. CASE AckOp(k)
    <3>1. /\ UNCHANGED <<list, cells, live, disturbed>>
          /\ handler[k].pc = "appended" /\ handler'[k].pc = "acked"
          /\ handler'[k].op = handler[k].op /\ handler'[k].subscribed = handler[k].subscribed
      BY <2>4, AckOpEffect
    <3> QED
      BY <1>1, <1>2, <2>1, <3>1
  <2>5. CASE RefuseOp(k) \/ Broadcast(k)
    <3>1. /\ UNCHANGED <<list, disturbed>> /\ handler[k].pc = "acked"
          /\ handler'[k].subscribed = handler[k].subscribed
          /\ \A l \in Conn : l # k => cells'[l] = cells[l]
          /\ \/ handler'[k].pc = "read" /\ UNCHANGED <<cells, live>>
             \/ /\ handler'[k].pc = "broadcast" /\ handler'[k].op = handler[k].op
                /\ cells'[k] = list /\ live' = live \union {k}
      BY <2>5, ProjectedEffect
    <3>2. IsInjective(cells'[k])
      <4>1. IsInjective(list)
        BY <1>1 DEF TypeOK
      <4>2. DOMAIN cells[k] = {}
        BY <1>1, <3>1
      <4> QED
        BY <3>1, <4>1, <4>2 DEF IsInjective
    <3>3. \A l \in live : l # k
      BY <1>1, <3>1
    <3> QED
      BY <1>1, <1>2, <2>1, <3>1, <3>2, <3>3
  <2>6. CASE ListAfter(k)
    <3>1. /\ handler[k].pc = "read" /\ handler'[k].pc # "broadcast" /\ handler'[k].subscribed
          /\ UNCHANGED disturbed
      BY <2>6, ListAfterEffect
    <3>2. ensureSubscribed(k)
      BY <2>6 DEF ListAfter
    <3> QED
      BY <2>2, <3>1, <3>2
  <2>7. CASE SendDiff(k)
    <3>1. /\ UNCHANGED <<list, cells, live, disturbed>>
          /\ handler[k].pc = "diff" /\ handler'[k].pc = "read"
          /\ handler'[k].op = handler[k].op /\ handler'[k].subscribed = handler[k].subscribed
      BY <2>7, SendDiffEffect
    <3> QED
      BY <1>1, <1>2, <2>1, <3>1
  <2>8. CASE HandlerEnds(k)
    <3>1. /\ handler[k].pc = "read" /\ handler'[k].pc = "ended" /\ ~handler'[k].subscribed
          /\ handler'[k].op = handler[k].op
          /\ disturbed \subseteq disturbed' /\ live' = live
          /\ Range(list') = Range(list) \ {k}
          /\ \A l \in Conn :
                 /\ DOMAIN cells'[l] = DOMAIN cells[l]
                 /\ handler[l].op \notin disturbed' =>
                        /\ IsInjective(cells'[l])
                        /\ l \in live => list' = list
      BY <2>8, EndEffect
    <3>2. Range(list') = {l \in Conn : handler'[l].subscribed}
      BY <1>1, <2>1, <3>1
    <3>3. \A l \in live : l # k
      BY <1>1, <3>1
    <3>4. \A l \in Conn : handler'[l].op = handler[l].op
      BY <2>1, <3>1
    <3> QED
      BY <1>1, <1>2, <2>1, <3>1, <3>2, <3>3, <3>4
  <2>9. ASSUME NEW p \in DOMAIN cells[k], BroadcastTo(k, p) PROVE ListTrue'
    <3>1. /\ UNCHANGED <<list, disturbed>> /\ handler[k].pc = "broadcast"
          /\ handler'[k].subscribed = handler[k].subscribed
          /\ \A l \in Conn : l # k => cells'[l] = cells[l]
          /\ DOMAIN cells'[k] \subseteq DOMAIN cells[k]
          /\ IsInjective(cells[k]) => IsInjective(cells'[k])
          /\ \/ handler'[k].pc = "read" /\ DOMAIN cells'[k] = {} /\ live' = live \ {k}
             \/ /\ handler'[k].pc = "broadcast" /\ handler'[k].op = handler[k].op /\ live' = live
      BY <2>9, BroadcastEffect
    <3>2. DOMAIN cells'[k] = {} => IsInjective(cells'[k])
      BY DEF IsInjective
    <3> QED
      BY <1>1, <1>2, <2>1, <3>1, <3>2
  <2> QED
    BY <1>5, <2>3, <2>4, <2>5, <2>6, <2>7, <2>8, <2>9 DEF Handler
<1>6. ASSUME NEW c \in Client, Closed(c) PROVE UNCHANGED <<handler, list, cells, live, disturbed>>
  BY <1>6, ClosedEffect DEF server, syncService
<1> QED
  BY <1>3, <1>4, <1>5, <1>6, DownEffect, ReconnectEffect, TypeEffect, HandleAckEffect,
     HandleSyncEffect DEF Next, Browser

\* OpsKnown: the log, the marks of a client and its document agree about its own operations.
LEMMA OpsKnownStep ==
    ASSUME BaseInv, Next
    PROVE  OpsKnown'
<1> USE DEF OpsKnown
<1>1. TypeOK /\ OpsKnown
  BY DEF BaseInv
<1>2. /\ ops \in Seq(Client) /\ \A op \in DOMAIN ops : ops[op] \in Client
      /\ \A c \in Client : pendingAcks[c] \union confirmedReqIds[c] \subseteq DOMAIN ops
  BY <1>1 DEF TypeOK
<1>3. ASSUME NEW c \in Client, Lose(c) \/ Disconnect(c) PROVE OpsKnown'
  <2>1. UNCHANGED <<ops, pendingAcks, confirmedReqIds, doc, log>>
    BY <1>3, DownEffect
  <2> QED
    BY <1>1, <2>1
<1>4. ASSUME NEW c \in Client, Reconnect(c) PROVE OpsKnown'
  <2>1. UNCHANGED <<ops, pendingAcks, confirmedReqIds, doc, log>>
    BY <1>4, ReconnectEffect
  <2> QED
    BY <1>1, <2>1
<1>5. ASSUME NEW c \in Client, Closed(c) PROVE OpsKnown'
  <2>1. UNCHANGED <<ops, pendingAcks, confirmedReqIds, doc, log>>
    BY <1>5, ClosedEffect DEF manager, server, syncService
  <2> QED
    BY <1>1, <2>1
<1>6. ASSUME NEW c \in Client, HandleSync(c) PROVE OpsKnown'
  <2>1. /\ UNCHANGED <<ops, pendingAcks, log>>
        /\ confirmedReqIds'[c] \subseteq confirmedReqIds[c] /\ doc[c] \subseteq doc'[c]
        /\ \A d \in Client : d # c => confirmedReqIds'[d] = confirmedReqIds[d] /\ doc'[d] = doc[d]
    BY <1>6, HandleSyncEffect
  <2>2. \A d \in Client : confirmedReqIds'[d] \subseteq confirmedReqIds[d] /\ doc[d] \subseteq doc'[d]
    BY <2>1
  <2> QED
    BY <1>1, <1>2, <2>1, <2>2
<1>7. ASSUME NEW c \in Client, HandleAck(c) PROVE OpsKnown'
  <2> DEFINE op == down[Cur(c)][1].op
  <2>1. /\ UNCHANGED <<ops, doc, log>> /\ ops[op] = c
        /\ confirmedReqIds'[c] = confirmedReqIds[c] \union {op}
        /\ pendingAcks'[c] = pendingAcks[c] \ {op}
        /\ \A d \in Client : d # c => /\ confirmedReqIds'[d] = confirmedReqIds[d]
                                      /\ pendingAcks'[d] = pendingAcks[d]
    BY <1>7, HandleAckEffect
  <2> HIDE DEF op
  <2> QED
    BY <1>1, <2>1
<1>8. ASSUME NEW c \in Client, Type(c) PROVE OpsKnown'
  <2> DEFINE op == Len(ops) + 1
  <2>1. /\ UNCHANGED <<confirmedReqIds, log>>
        /\ DOMAIN ops' = DOMAIN ops \union {op} /\ op \notin DOMAIN ops /\ ops'[op] = c
        /\ \A o \in DOMAIN ops : ops'[o] = ops[o]
        /\ doc'[c] = doc[c] \union {op} /\ pendingAcks'[c] = pendingAcks[c] \union {op}
        /\ \A d \in Client : d # c => doc'[d] = doc[d] /\ pendingAcks'[d] = pendingAcks[d]
    BY <1>8, TypeEffect
  <2> HIDE DEF op
  <2>2. Range(log') \subseteq DOMAIN ops'
    BY <1>1, <2>1
  <2>3. \A d \in Client : \A o \in pendingAcks'[d] \union confirmedReqIds'[d] : ops'[o] = d
    BY <1>1, <1>2, <2>1
  <2>4. \A o \in DOMAIN ops' : o \in doc'[ops'[o]]
    BY <1>1, <1>2, <2>1
  <2> QED
    BY <2>2, <2>3, <2>4
<1>9. ASSUME NEW c \in Client, NEW expired \in BOOLEAN, Accept(c, expired) PROVE OpsKnown'
  <2>1. UNCHANGED <<ops, pendingAcks, confirmedReqIds, doc, log>>
    BY <1>9, AcceptEffect
  <2> QED
    BY <1>1, <2>1
<1>10. ASSUME NEW k \in Conn, Handler(k) PROVE OpsKnown'
  <2>1. UNCHANGED <<ops, pendingAcks, confirmedReqIds, doc>>
    BY <1>10, ServerStep
  <2>2. CASE HandleOp(k) \/ HandleOpFails(k)
    <3> DEFINE op == up[k][1].op
    <3>1. op \in OpId /\ op \in DOMAIN ops /\ log' = Append(log, op)
      BY <2>2, HandleOpEffect
    <3> HIDE DEF op
    <3>2. Range(log') = Range(log) \union {op}
      BY <1>1, <3>1, AppendLog
    <3> QED
      BY <1>1, <2>1, <3>1, <3>2
  <2>3. CASE UNCHANGED log
    BY <1>1, <2>1, <2>3
  <2> QED
    BY <1>10, <2>2, <2>3 DEF Handler, AckOp, RefuseOp, Broadcast, BroadcastTo, ListAfter, SendDiff,
                             HandlerEnds
<1> QED
  BY <1>3, <1>4, <1>5, <1>6, <1>7, <1>8, <1>9, <1>10 DEF Next, Browser

\* AckedBelowMark: an ack raises the mark to its operation, and nothing lowers a mark.
LEMMA AckedStep ==
    ASSUME BaseInv, Next
    PROVE  AckedBelowMark'
<1> USE DEF AckedBelowMark
<1>1. TypeOK /\ AckedBelowMark
  BY DEF BaseInv
<1>2. /\ \A op \in DOMAIN ops : ops[op] \in Client
      /\ \A c \in Client : lastServerSeq[c] \in Nat
      /\ log \in Seq(OpId) /\ \A i \in DOMAIN log : i \in Nat
  BY <1>1 DEF TypeOK
<1>3. ASSUME NEW c \in Client, Lose(c) \/ Disconnect(c) PROVE AckedBelowMark'
  <2>1. UNCHANGED <<ops, pendingAcks, lastServerSeq, log>>
    BY <1>3, DownEffect
  <2> QED
    BY <1>1, <2>1
<1>4. ASSUME NEW c \in Client, Reconnect(c) PROVE AckedBelowMark'
  <2>1. UNCHANGED <<ops, pendingAcks, lastServerSeq, log>>
    BY <1>4, ReconnectEffect
  <2> QED
    BY <1>1, <2>1
<1>5. ASSUME NEW c \in Client, Closed(c) PROVE AckedBelowMark'
  <2>1. UNCHANGED <<ops, pendingAcks, lastServerSeq, log>>
    BY <1>5, ClosedEffect DEF manager, server, syncService
  <2> QED
    BY <1>1, <2>1
<1>6. ASSUME NEW c \in Client, HandleSync(c) PROVE AckedBelowMark'
  <2>1. /\ UNCHANGED <<ops, pendingAcks, log>>
        /\ lastServerSeq'[c] >= lastServerSeq[c]
        /\ \A d \in Client : d # c => lastServerSeq'[d] = lastServerSeq[d]
        /\ TypeOK'
    BY <1>6, HandleSyncEffect
  <2>2. \A d \in Client : lastServerSeq'[d] \in Nat /\ lastServerSeq'[d] >= lastServerSeq[d]
    <3>1. \A d \in Client : lastServerSeq'[d] \in Nat
      BY <2>1 DEF TypeOK
    <3> QED
      BY <1>2, <2>1, <3>1
  <2> QED
    BY <1>1, <1>2, <2>1, <2>2
<1>7. ASSUME NEW c \in Client, HandleAck(c) PROVE AckedBelowMark'
  <2> DEFINE op == down[Cur(c)][1].op
             seq == down[Cur(c)][1].seq
  <2>1. /\ UNCHANGED <<ops, log>> /\ ops[op] = c /\ seq \in DOMAIN log /\ log[seq] = op
        /\ pendingAcks'[c] = pendingAcks[c] \ {op}
        /\ lastServerSeq'[c] >= lastServerSeq[c] /\ lastServerSeq'[c] >= seq
        /\ \A d \in Client : d # c => /\ lastServerSeq'[d] = lastServerSeq[d]
                                      /\ pendingAcks'[d] = pendingAcks[d]
        /\ TypeOK'
    BY <1>7, HandleAckEffect
  <2>2. \A d \in Client : lastServerSeq'[d] \in Nat
    BY <2>1 DEF TypeOK
  <2> HIDE DEF op, seq
  <2>3. \A d \in Client : lastServerSeq'[d] >= lastServerSeq[d]
    BY <1>2, <2>1
  <2>4. ASSUME NEW o \in DOMAIN ops, o \notin pendingAcks'[ops[o]]
        PROVE  \E i \in DOMAIN log : log[i] = o /\ i <= lastServerSeq'[ops[o]]
    <3>1. CASE o = op
      BY <1>2, <2>1, <2>2, <3>1
    <3>2. CASE o # op
      <4>1. o \notin pendingAcks[ops[o]]
        BY <1>2, <2>1, <2>4, <3>2
      <4>2. PICK i \in DOMAIN log : log[i] = o /\ i <= lastServerSeq[ops[o]]
        BY <1>1, <4>1
      <4> QED
        BY <1>2, <2>2, <2>3, <4>2
    <3> QED
      BY <3>1, <3>2
  <2> QED
    BY <2>1, <2>4
<1>8. ASSUME NEW c \in Client, Type(c) PROVE AckedBelowMark'
  <2> DEFINE op == Len(ops) + 1
  <2>1. /\ UNCHANGED <<lastServerSeq, log>>
        /\ DOMAIN ops' = DOMAIN ops \union {op} /\ op \notin DOMAIN ops /\ ops'[op] = c
        /\ \A o \in DOMAIN ops : ops'[o] = ops[o]
        /\ pendingAcks'[c] = pendingAcks[c] \union {op}
        /\ \A d \in Client : d # c => pendingAcks'[d] = pendingAcks[d]
    BY <1>8, TypeEffect, ZenonT(30)
  <2> HIDE DEF op
  <2> QED
    BY <1>1, <1>2, <2>1
<1>9. ASSUME NEW c \in Client, NEW expired \in BOOLEAN, Accept(c, expired) PROVE AckedBelowMark'
  <2>1. UNCHANGED <<ops, pendingAcks, lastServerSeq, log>>
    BY <1>9, AcceptEffect
  <2> QED
    BY <1>1, <2>1
<1>10. ASSUME NEW k \in Conn, Handler(k) PROVE AckedBelowMark'
  <2>1. UNCHANGED <<ops, pendingAcks, lastServerSeq>>
    BY <1>10, ServerStep
  <2>2. CASE HandleOp(k) \/ HandleOpFails(k)
    <3> DEFINE op == up[k][1].op
    <3>1. op \in OpId /\ log' = Append(log, op)
      BY <2>2, HandleOpEffect
    <3> HIDE DEF op
    <3>2. \A i \in DOMAIN log : i \in DOMAIN log' /\ log'[i] = log[i]
      BY <1>1, <3>1, AppendLog
    <3> QED
      BY <1>1, <2>1, <3>2
  <2>3. CASE UNCHANGED log
    BY <1>1, <2>1, <2>3
  <2> QED
    BY <1>10, <2>2, <2>3 DEF Handler, AckOp, RefuseOp, Broadcast, BroadcastTo, ListAfter, SendDiff,
                             HandlerEnds
<1> QED
  BY <1>3, <1>4, <1>5, <1>6, <1>7, <1>8, <1>9, <1>10 DEF Next, Browser

\* The first part of the invariant holds at first ...
LEMMA BaseInit ==
    ASSUME Init
    PROVE  BaseInv
<1> USE SyncAssumption DEF Init
<1>1. TypeOK
  <2>1. /\ ops \in Seq(Client) /\ Len(ops) = 0 /\ DOMAIN ops = {}
        /\ log \in Seq(OpId) /\ Len(log) = 0 /\ DOMAIN log = {}
    OBVIOUS
  <2>2. IsInjective(log)
    BY <2>1 DEF IsInjective
  <2>3. {up, down} \subseteq [Conn -> Seq(Message)]
    OBVIOUS
  <2>4. handler \in [Conn -> HandlerState]
    BY DEF HandlerState
  <2>5. /\ sock \in [Client -> {"none", "connecting", "open"}] /\ gen \in [Client -> 0 .. MaxConns]
        /\ {timer, closing, mounted, left} \subseteq [Client -> BOOLEAN]
        /\ {pendingAcks, confirmedReqIds, doc, reapplied} \subseteq [Client -> SUBSET DOMAIN ops]
        /\ withheld \subseteq OpId /\ disturbed \subseteq OpId /\ tickets \subseteq Client
        /\ faults \in 0 .. MaxFaults
    OBVIOUS
  <2>6. {lastServerSeq, asked} \subseteq [Client -> 0 .. Len(log)]
    BY <2>1
  <2>7. Len(ops) <= MaxOps
    BY <2>1
  <2>8. ServiceTyped
    BY DEF ServiceTyped, IsInjective, Range
  <2> QED
    BY <2>1, <2>2, <2>3, <2>4, <2>5, <2>6, <2>7, <2>8 DEF TypeOK, HandlerState, ServiceTyped
<1>2. \A k \in Conn : Unused(k)
  BY DEF Unused
<1>3. \A c \in Client : gen[c] = 1 /\ sock[c] = "connecting" /\ Cur(c) \in Conn
  BY DEF Cur, Conn
<1>4. Connections
  BY <1>2, <1>3 DEF Connections, Unused, Range
<1>5. \A k \in Conn : DOMAIN up[k] = {} /\ DOMAIN down[k] = {}
  OBVIOUS
<1>6. UpOnce /\ DownTrue
  BY <1>5 DEF UpOnce, DownTrue
<1>7. HandledOnce
  BY <1>2 DEF HandledOnce, Unused
<1>8. DOMAIN ops = {} /\ Range(log) = {}
  BY DEF Range
<1>9. OpsKnown /\ AckedBelowMark
  BY <1>8 DEF OpsKnown, AckedBelowMark
<1>10. ListTrue
  BY DEF ListTrue, Range, IsInjective
<1> QED
  BY <1>1, <1>4, <1>6, <1>7, <1>9, <1>10 DEF BaseInv

\* ... and every step keeps it.
LEMMA BaseStep ==
    ASSUME BaseInv, [Next]_vars
    PROVE  BaseInv'
<1>1. CASE Next
  <2>1. TypeOK'
    BY <1>1, DownEffect, ReconnectEffect, ClosedEffect, TypeEffect, HandleAckEffect,
       HandleSyncEffect, AcceptEffect, ServerFrame DEF Next, Browser
  <2> QED
    BY <1>1, <2>1, ConnectionsStep, UpOnceStep, HandledOnceStep, DownTrueStep, ListTrueStep,
       OpsKnownStep, AckedStep DEF BaseInv
<1>2. CASE UNCHANGED vars
  <2>1. UNCHANGED <<sock, gen, timer, closing, mounted, left, lastServerSeq, pendingAcks,
                    confirmedReqIds, doc, asked, reapplied, ops, up, down, handler, list, cap,
                    cells, live, log, withheld, disturbed, tickets, faults>>
    BY <1>2 DEF vars, wsClient, manager, server, syncService
  <2>2. TypeOK'
    BY <2>1 DEF BaseInv, TypeOK
  <2>3. Connections'
    BY <2>1 DEF BaseInv, Connections, Unused, Cur, Up
  <2>4. UpOnce' /\ HandledOnce'
    BY <2>1 DEF BaseInv, UpOnce, HandledOnce
  <2>5. DownTrue' /\ ListTrue' /\ OpsKnown' /\ AckedBelowMark'
    BY <2>1 DEF BaseInv, DownTrue, ListTrue, OpsKnown, AckedBelowMark
  <2> QED
    BY <2>2, <2>3, <2>4, <2>5 DEF BaseInv
<1> QED
  BY <1>1, <1>2

(***************************************************************************)
(* Whatever breaks and whenever, the client's and the server's state keeps *)
(* its type: marks stay within the log, which holds each operation once,   *)
(* though clients reconnect and requests are answered late.                *)
(***************************************************************************)
THEOREM TypeCorrect == Spec => []TypeOK
<1>1. Init => BaseInv
  BY BaseInit
<1>2. BaseInv /\ [Next]_vars => BaseInv'
  BY BaseStep
<1>3. BaseInv => TypeOK
  BY DEF BaseInv
<1> QED
  BY <1>1, <1>2, <1>3, PTL DEF Spec

-----------------------------------------------------------------------------
(***************************************************************************)
(* Tickets and documents that were left.                                   *)
(***************************************************************************)

\* A step of a goroutine logs nobody in, and subscribes only on a message of the client.
LEMMA ServerGrants ==
    ASSUME BaseInv, NEW k \in Conn, Handler(k)
    PROVE  /\ handler'[k].authenticated = handler[k].authenticated
           /\ up[k] = <<>> => up'[k] = <<>> /\ (handler'[k].subscribed => handler[k].subscribed)
<1>1. CASE HandleOp(k) \/ HandleOpFails(k)
  BY <1>1, HandleOpEffect
<1>2. CASE AckOp(k)
  BY <1>2, AckOpEffect
<1>3. CASE ListAfter(k)
  BY <1>3, ListAfterEffect
<1>4. CASE SendDiff(k)
  BY <1>4, SendDiffEffect
<1>5. CASE HandlerEnds(k)
  BY <1>5, EndEffect
<1>6. ASSUME NEW p \in DOMAIN cells[k], BroadcastTo(k, p)
      PROVE  /\ handler'[k].authenticated = handler[k].authenticated
             /\ up[k] = <<>> => up'[k] = <<>> /\ (handler'[k].subscribed => handler[k].subscribed)
  BY <1>6, BroadcastEffect
<1>7. CASE RefuseOp(k) \/ Broadcast(k)
  BY <1>7, ProjectedEffect
<1> QED
  BY <1>1, <1>2, <1>3, <1>4, <1>5, <1>6, <1>7 DEF Handler

\* A ticket is gone from the store when a connection is logged in with it.
LEMMA TicketStep ==
    ASSUME BaseInv, TicketSpent, TicketOnce, [Next]_vars
    PROVE  TicketSpent' /\ TicketOnce'
<1>1. ASSUME UNCHANGED <<handler, tickets>> PROVE TicketSpent' /\ TicketOnce'
  BY <1>1 DEF TicketSpent, TicketOnce
<1>2. ASSUME NEW c \in Client, NEW expired \in BOOLEAN, Accept(c, expired)
      PROVE  TicketSpent' /\ TicketOnce'
  <2>1. /\ tickets' = tickets \ {c}
        /\ handler'[Cur(c)].authenticated => c \in tickets
        /\ \A l \in Conn : l # Cur(c) => handler'[l] = handler[l]
    BY <1>2, AcceptEffect, ZenonT(30)
  <2>2. Cur(c) \in Conn /\ Cur(c)[1] = c
    BY ConnFacts DEF BaseInv
  <2>3. TicketSpent'
    BY <2>1, <2>2 DEF TicketSpent
  <2>4. TicketOnce'
    BY <2>1, <2>2 DEF TicketSpent, TicketOnce
  <2> QED
    BY <2>3, <2>4
<1>3. ASSUME NEW k \in Conn, Handler(k) PROVE TicketSpent' /\ TicketOnce'
  <2>1. /\ UNCHANGED tickets /\ handler'[k].authenticated = handler[k].authenticated
        /\ \A l \in Conn : l # k => handler'[l] = handler[l]
    BY <1>3, ServerStep, ServerFrame, ServerGrants
  <2>2. \A l \in Conn : handler'[l].authenticated = handler[l].authenticated
    BY <2>1
  <2> QED
    BY <2>1, <2>2 DEF TicketSpent, TicketOnce
<1>4. CASE Next
  <2>1. ASSUME NEW c \in Client, Closed(c) PROVE UNCHANGED <<handler, tickets>>
    BY <2>1, ClosedEffect DEF server, syncService
  <2> QED
    BY <1>1, <1>2, <1>3, <1>4, <2>1, DownEffect, ReconnectEffect, TypeEffect, HandleAckEffect,
       HandleSyncEffect DEF Next, Browser
<1>5. CASE UNCHANGED vars
  BY <1>1, <1>5 DEF vars, server, syncService
<1> QED
  BY <1>4, <1>5

(***************************************************************************)
(* A ticket logs in one connection at most: Redeem takes it out of the     *)
(* store before the connection is served, however often the browser comes  *)
(* back with the same URL.                                                 *)
(***************************************************************************)
THEOREM TicketUsedOnce == Spec => []TicketOnce
<1> DEFINE Inv == BaseInv /\ TicketSpent /\ TicketOnce
<1>1. Init => Inv
  <2> SUFFICES ASSUME Init PROVE Inv
    OBVIOUS
  <2>1. \A k \in Conn : ~handler[k].authenticated
    BY DEF Init
  <2> QED
    BY <2>1, BaseInit DEF TicketSpent, TicketOnce
<1>2. Inv /\ [Next]_vars => Inv'
  BY BaseStep, TicketStep
<1> QED
  BY <1>1, <1>2, PTL DEF Spec

\* A client whose document was left sends nothing on the connections it still makes.
LEMMA LeftStep ==
    ASSUME BaseInv, LeftSilent, [Next]_vars
    PROVE  LeftSilent'
<1> USE DEF LeftSilent
<1>1. TypeOK
  BY DEF BaseInv
<1>2. /\ \A c \in Client : Cur(c) \in Conn /\ Cur(c)[1] = c
      /\ \A c, d \in Client : Cur(c) = Cur(d) => c = d
  BY ConnFacts DEF BaseInv
<1>3. ASSUME UNCHANGED <<sock, gen, mounted, left, handler, up>> PROVE LeftSilent'
  BY <1>3 DEF Cur
<1>4. ASSUME NEW c \in Client, Lose(c) \/ Disconnect(c) PROVE LeftSilent'
  <2>1. /\ UNCHANGED <<up, handler>> /\ \A d \in Client : Cur(d)' = Cur(d)
        /\ sock'[c] = "none" /\ \A d \in Client : d # c => sock'[d] = sock[d]
    BY <1>4, DownEffect
  <2>2. /\ left'[c] => ~mounted'[c]
        /\ \A d \in Client : d # c => left'[d] = left[d] /\ mounted'[d] = mounted[d]
    BY <1>1, <1>4 DEF Lose, Disconnect, TypeOK
  <2> QED
    BY <2>1, <2>2
<1>5. ASSUME NEW c \in Client, Reconnect(c) PROVE LeftSilent'
  <2>1. /\ UNCHANGED <<mounted, left, up, handler>>
        /\ \A d \in Client : d # c => sock'[d] = sock[d] /\ Cur(d)' = Cur(d)
        /\ Unused(Cur(c)')
    BY <1>5, ReconnectEffect
  <2>2. up[Cur(c)'] = <<>> /\ ~handler[Cur(c)'].subscribed
    BY <2>1 DEF Unused
  <2> QED
    BY <2>1, <2>2
<1>6. ASSUME NEW c \in Client, Type(c) PROVE LeftSilent'
  <2>1. /\ UNCHANGED <<sock, gen, mounted, left, handler>> /\ mounted[c]
        /\ \A l \in Conn : l # Cur(c) => up'[l] = up[l]
    BY <1>6, TypeEffect
  <2>2. \A d \in Client : Cur(d)' = Cur(d)
    BY <2>1 DEF Cur
  <2> QED
    BY <1>2, <2>1, <2>2
<1>7. ASSUME NEW c \in Client, NEW expired \in BOOLEAN, Accept(c, expired) PROVE LeftSilent'
  <2>1. /\ UNCHANGED <<mounted, left>>
        /\ \A d \in Client : d # c => sock'[d] = sock[d]
        /\ \A d \in Client : Cur(d)' = Cur(d)
        /\ ~handler'[Cur(c)].subscribed
        /\ \A l \in Conn : l # Cur(c) => handler'[l] = handler[l] /\ up'[l] = up[l]
        /\ ~mounted[c] => up'[Cur(c)] = <<>>
    BY <1>7, AcceptEffect, ZenonT(30)
  <2> QED
    BY <1>2, <2>1
<1>8. ASSUME NEW k \in Conn, Handler(k) PROVE LeftSilent'
  <2>1. UNCHANGED <<sock, gen, mounted, left>> /\ \A d \in Client : Cur(d)' = Cur(d)
    BY <1>8, ServerStep
  <2>2. /\ \A l \in Conn : l # k => handler'[l] = handler[l] /\ up'[l] = up[l]
        /\ up[k] = <<>> => up'[k] = <<>> /\ (handler'[k].subscribed => handler[k].subscribed)
    BY <1>8, ServerFrame, ServerGrants
  <2> QED
    BY <1>2, <2>1, <2>2
<1>9. CASE Next
  <2>1. ASSUME NEW c \in Client, Closed(c) PROVE UNCHANGED <<sock, gen, mounted, left, handler, up>>
    BY <2>1, ClosedEffect DEF server, syncService
  <2> QED
    BY <1>3, <1>4, <1>5, <1>6, <1>7, <1>8, <1>9, <2>1, HandleAckEffect, HandleSyncEffect
    DEF Next, Browser
<1>10. CASE UNCHANGED vars
  BY <1>3, <1>10 DEF vars, wsClient, server, syncService
<1> QED
  BY <1>9, <1>10

(***************************************************************************)
(* A document that was left has no subscription on the connection its      *)
(* browser still makes: without its handler nothing is asked for, and the  *)
(* server subscribes only on a message.                                    *)
(***************************************************************************)
THEOREM LeftUnsubscribed == Spec => []LeftNotSubscribed
<1> DEFINE Inv == BaseInv /\ LeftSilent
<1>1. Init => Inv
  <2> SUFFICES ASSUME Init PROVE Inv
    OBVIOUS
  <2>1. BaseInv
    BY BaseInit
  <2>2. \A c \in Client : ~left[c] /\ mounted[c]
    BY DEF Init
  <2> QED
    BY <2>1, <2>2 DEF LeftSilent
<1>2. Inv /\ [Next]_vars => Inv'
  BY BaseStep, LeftStep
<1>3. Inv => LeftNotSubscribed
  BY DEF LeftSilent, LeftNotSubscribed
<1> QED
  BY <1>1, <1>2, <1>3, PTL DEF Spec

-----------------------------------------------------------------------------
(***************************************************************************)
(* A client's own operations.                                              *)
(***************************************************************************)

\* What a step may not do to an operation that comes once.
LEMMA StillOnce ==
    ASSUME NEW k \in Conn, NEW op, ComesOnce(k, op),
           pendingAcks'[k[1]] = pendingAcks[k[1]], confirmedReqIds'[k[1]] = confirmedReqIds[k[1]],
           NoDiff(k, op)', Syncs(k, op)' = Syncs(k, op),
           OnWayUp(k, op)' => OnWayUp(k, op), Outstanding(k, op)' => Outstanding(k, op)
    PROVE  ComesOnce(k, op)'
  BY DEF ComesOnce

\* Where an operation is on its way, after the first message was taken.
LEMMA TakeFirstSyncs ==
    ASSUME TypeOK, TypeOK', NEW k \in Conn, NEW op, down[k] # <<>>, down'[k] = Tail(down[k])
    PROVE  /\ \A i \in Syncs(k, op)' : i \in Nat /\ i >= 1 /\ i + 1 \in Syncs(k, op)
           /\ \A i \in Syncs(k, op) : i = 1 \/ i - 1 \in Syncs(k, op)'
           /\ \A i \in DOMAIN down'[k] : i + 1 \in DOMAIN down[k] /\ down'[k][i] = down[k][i + 1]
<1>1. down[k] \in Seq(Message) /\ down'[k] \in Seq(Message)
  BY DEF TypeOK
<1>2. /\ \A i \in DOMAIN down'[k] : i \in Nat /\ i >= 1 /\ i + 1 \in DOMAIN down[k]
                                    /\ down'[k][i] = down[k][i + 1]
      /\ \A i \in DOMAIN down[k] : i \in Nat /\ (i = 1 \/ i - 1 \in DOMAIN down'[k])
  BY <1>1
<1>3. \A i \in DOMAIN down[k] : i # 1 => (i - 1) + 1 = i
  BY <1>2
<1> QED
  BY <1>2, <1>3 DEF Syncs

\* Where an operation is on its way, after one more message.
LEMMA AddLastSyncs ==
    ASSUME TypeOK, NEW k \in Conn, NEW msg \in Message,
           down'[k] = Append(down[k], msg), NEW op
    PROVE  /\ msg.type = "sync" /\ op \in msg.ops =>
                  Syncs(k, op)' = Syncs(k, op) \union {Len(down[k]) + 1}
           /\ ~(msg.type = "sync" /\ op \in msg.ops) => Syncs(k, op)' = Syncs(k, op)
<1>1. down[k] \in Seq(Message)
  BY DEF TypeOK
<1>2. /\ DOMAIN down'[k] = DOMAIN down[k] \union {Len(down[k]) + 1}
      /\ down'[k][Len(down[k]) + 1] = msg
      /\ \A i \in DOMAIN down[k] : i # Len(down[k]) + 1 /\ down'[k][i] = down[k][i]
  BY <1>1, AppendMessage
<1> QED
  BY <1>2 DEF Syncs

\* OwnInv and the browsers: what comes once stays so across reconnects, acks and broadcasts.
LEMMA OwnBrowser ==
    ASSUME BaseInv, OwnInv, Remembered, NEW c \in Client, Browser(c)
    PROVE  OwnInv'
<1>1. TypeOK
  BY DEF BaseInv
<1>2. /\ \A k \in Conn : k[1] \in Client
      /\ \A d \in Client : Cur(d) \in Conn /\ Cur(d)[1] = d
  BY ConnFacts DEF BaseInv
<1>3. ASSUME Lose(c) \/ Disconnect(c) PROVE OwnInv'
  <2>1. /\ UNCHANGED <<gen, pendingAcks, confirmedReqIds, ops, up, handler, cells, log, disturbed>>
        /\ down'[Cur(c)] = <<>> /\ \A l \in Conn : l # Cur(c) => down'[l] = down[l]
        /\ \A d \in Client : Cur(d)' = Cur(d)
    BY <1>3, DownEffect
  <2> SUFFICES ASSUME NEW k \in Conn, NEW op \in DOMAIN ops,
                      k = Cur(k[1]), ops[op] = k[1], op \notin disturbed, Settled(k, op)'
               PROVE  ComesOnce(k, op)'
    BY <1>2, <2>1 DEF OwnInv
  <2>2. /\ OnWayUp(k, op)' <=> OnWayUp(k, op)
        /\ Outstanding(k, op)' <=> Outstanding(k, op)
        /\ NoDiff(k, op)' <=> NoDiff(k, op)
    BY <2>1 DEF OnWayUp, Outstanding, NoDiff
  <2>3. DOMAIN down'[k] = {} \/ down'[k] = down[k]
    BY <2>1
  <2>4. Settled(k, op)
    BY <2>1, <2>2, <2>3 DEF Settled
  <2>5. ComesOnce(k, op)
    BY <2>4 DEF OwnInv
  <2>6. Syncs(k, op)' \subseteq Syncs(k, op)
    BY <2>3 DEF Syncs
  <2> QED
    BY <2>1, <2>2, <2>5, <2>6 DEF ComesOnce
<1>4. ASSUME Reconnect(c) PROVE OwnInv'
  <2>1. /\ UNCHANGED <<pendingAcks, confirmedReqIds, ops, up, down, handler, cells, log, disturbed>>
        /\ \A d \in Client : d # c => Cur(d)' = Cur(d)
        /\ Cur(c)' \in Conn /\ Unused(Cur(c)')
    BY <1>4, ReconnectEffect
  <2> SUFFICES ASSUME NEW k \in Conn, NEW op \in DOMAIN ops,
                      k = Cur(k[1])', ops[op] = k[1], op \notin disturbed, Settled(k, op)'
               PROVE  ComesOnce(k, op)'
    BY <2>1 DEF OwnInv
  <2>2. /\ OnWayUp(k, op)' <=> OnWayUp(k, op)
        /\ Outstanding(k, op)' <=> Outstanding(k, op)
        /\ NoDiff(k, op)' <=> NoDiff(k, op)
        /\ Syncs(k, op)' = Syncs(k, op)
        /\ Settled(k, op)
        /\ ComesOnce(k, op)' <=> ComesOnce(k, op)
    BY <2>1 DEF OnWayUp, Outstanding, NoDiff, Syncs, Settled, ComesOnce
  <2>3. CASE k[1] # c
    BY <1>2, <2>1, <2>2, <2>3 DEF OwnInv
  <2>4. CASE k[1] = c
    <3>1. Unused(k)
      BY <2>1, <2>4
    <3>2. DOMAIN up[k] = {} /\ DOMAIN down[k] = {} /\ handler[k].pc = "none" /\ handler[k].diff = {}
      BY <3>1 DEF Unused
    <3>3. op \notin pendingAcks[k[1]]
      BY <2>2, <3>2 DEF Settled, OnWayUp
    <3>4. op # 0
      BY <1>1 DEF TypeOK
    <3>5. Outstanding(k, op) => op \in confirmedReqIds[k[1]]
      <4> SUFFICES ASSUME NEW l \in Conn, handler[l].op = op,
                          handler[l].pc \in {"appended", "acked"} \/ k \in Range(cells[l])
                   PROVE  op \in confirmedReqIds[k[1]]
        BY DEF Outstanding
      <4>1. k \notin Range(cells[l])
        BY <3>2 DEF BaseInv, Connections
      <4>2. ops[op] = l[1] /\ op \in pendingAcks[l[1]] \union confirmedReqIds[l[1]]
        BY <3>4, <4>1 DEF BaseInv, HandledOnce, Remembered
      <4> QED
        BY <3>3, <4>2
    <3>6. NoDiff(k, op) /\ Syncs(k, op) = {}
      BY <3>2 DEF NoDiff, Syncs
    <3> QED
      BY <2>2, <3>5, <3>6 DEF ComesOnce
  <2> QED
    BY <2>3, <2>4
<1>5. ASSUME Closed(c) PROVE OwnInv'
  <2>1. UNCHANGED <<gen, pendingAcks, confirmedReqIds, ops, up, down, handler, cells, log,
                    disturbed>>
    BY <1>5, ClosedEffect DEF manager, server, syncService
  <2> QED
    BY <2>1 DEF OwnInv, Cur, Settled, ComesOnce, NoDiff, Syncs, OnWayUp, Outstanding
<1>6. ASSUME Type(c) PROVE OwnInv'
  <2> DEFINE new == Len(ops) + 1
             msg == [type |-> "op", op |-> new]
  <2>1. /\ UNCHANGED <<gen, confirmedReqIds, down, handler, cells, log, disturbed>>
        /\ new \notin DOMAIN ops /\ msg \in Message
        /\ DOMAIN ops' = DOMAIN ops \union {new} /\ ops'[new] = c
        /\ \A o \in DOMAIN ops : ops'[o] = ops[o]
        /\ pendingAcks'[c] = pendingAcks[c] \union {new}
        /\ \A d \in Client : d # c => pendingAcks'[d] = pendingAcks[d]
        /\ \A l \in Conn : l # Cur(c) => up'[l] = up[l]
        /\ sock[c] = "open" => up'[Cur(c)] = Append(up[Cur(c)], msg)
        /\ sock[c] # "open" => up'[Cur(c)] = up[Cur(c)]
    <3>1. /\ UNCHANGED <<gen, confirmedReqIds, down, handler, cells, log, disturbed>>
          /\ new \notin DOMAIN ops /\ msg \in Message
          /\ DOMAIN ops' = DOMAIN ops \union {new} /\ ops'[new] = c
          /\ \A o \in DOMAIN ops : ops'[o] = ops[o]
      BY <1>6, TypeEffect
    <3>2. /\ pendingAcks'[c] = pendingAcks[c] \union {new}
          /\ \A d \in Client : d # c => pendingAcks'[d] = pendingAcks[d]
      BY <1>6, TypeEffect
    <3>3. /\ \A l \in Conn : l # Cur(c) => up'[l] = up[l]
          /\ sock[c] = "open" => up'[Cur(c)] = Append(up[Cur(c)], msg)
          /\ sock[c] # "open" => up'[Cur(c)] = up[Cur(c)]
      BY <1>6, TypeEffect
    <3> QED
      BY <3>1, <3>2, <3>3
  <2>2. msg.type = "op" /\ msg.op = new
    OBVIOUS
  <2> HIDE DEF new, msg
  <2>3. \A d \in Client : Cur(d)' = Cur(d)
    BY <2>1 DEF Cur
  <2>4. \A l \in Conn : \A i \in DOMAIN up[l] : i \in DOMAIN up'[l] /\ up'[l][i] = up[l][i]
    <3>1. up[Cur(c)] \in Seq(Message)
      BY <1>1, <1>2 DEF TypeOK
    <3> QED
      BY <2>1, <3>1, AppendMessage, SMTT(30)
  <2>5. \A l \in Conn : \A i \in DOMAIN up'[l] : i \in DOMAIN up[l] \/ up'[l][i] = msg
    <3>1. up[Cur(c)] \in Seq(Message)
      BY <1>1, <1>2 DEF TypeOK
    <3> QED
      BY <2>1, <3>1, AppendMessage
  <2> SUFFICES ASSUME NEW k \in Conn, NEW op \in DOMAIN ops',
                      k = Cur(k[1]), ops'[op] = k[1], op \notin disturbed, Settled(k, op)'
               PROVE  ComesOnce(k, op)'
    BY <1>2, <2>1, <2>3 DEF OwnInv
  <2>6. Syncs(k, op)' = Syncs(k, op) /\ (Outstanding(k, op)' <=> Outstanding(k, op))
    BY <2>1 DEF Syncs, Outstanding
  <2>7. NoDiff(k, op) => NoDiff(k, op)'
    BY <2>1, <2>2, <2>4, <2>5 DEF NoDiff
  <2>8. CASE op # new
    <3>1. OnWayUp(k, op)' <=> OnWayUp(k, op)
      BY <2>2, <2>4, <2>5, <2>8 DEF OnWayUp
    <3>2. op \in pendingAcks'[k[1]] <=> op \in pendingAcks[k[1]]
      BY <1>2, <2>1, <2>8
    <3>3. Settled(k, op) /\ op \in DOMAIN ops /\ ops[op] = k[1]
      BY <2>1, <2>8, <3>1, <3>2 DEF Settled
    <3>4. ComesOnce(k, op)
      BY <3>3 DEF OwnInv
    <3> QED
      BY <2>1, <2>6, <2>7, <3>1, <3>2, <3>4 DEF ComesOnce
  <2>9. CASE op = new
    <3>1. op \notin Range(log)
      BY <2>1, <2>9 DEF BaseInv, OpsKnown
    <3>2. Syncs(k, op) = {} /\ ~Outstanding(k, op)
      <4>1. \A i \in DOMAIN down[k] : down[k][i].type = "sync" => down[k][i].ops \subseteq Range(log)
        BY DEF BaseInv, DownTrue
      <4>2. op # 0
        BY <1>1, <2>9, SyncAssumption DEF TypeOK, new
      <4>3. \A l \in Conn : handler[l].op # op
        BY <2>1, <2>9, <4>2 DEF BaseInv, HandledOnce
      <4> QED
        BY <3>1, <4>1, <4>3 DEF Syncs, Outstanding
    <3>3. NoDiff(k, op)
      <4>1. handler[k].diff \subseteq Range(log)
        BY DEF BaseInv, HandledOnce
      <4>2. \A i \in DOMAIN up[k] : up[k][i].type = "sync_request" =>
                \A j \in up[k][i].seq + 1 .. Len(log) : j \in DOMAIN log
        <5> SUFFICES ASSUME NEW i \in DOMAIN up[k], up[k][i].type = "sync_request",
                            NEW j \in up[k][i].seq + 1 .. Len(log)
                     PROVE  j \in DOMAIN log
          OBVIOUS
        <5>1. up[k][i] \in Message /\ log \in Seq(OpId)
          BY <1>1 DEF TypeOK
        <5>2. up[k][i].seq \in Nat
          BY <5>1 DEF Message, Seqs
        <5> QED
          BY <5>1, <5>2
      <4> QED
        BY <3>1, <4>1, <4>2 DEF NoDiff, Range
    <3>4. op \in pendingAcks'[k[1]]
      BY <2>1, <2>9
    <3> QED
      BY <2>6, <2>7, <3>2, <3>3, <3>4 DEF ComesOnce
  <2> QED
    BY <2>8, <2>9
<1>7. ASSUME HandleAck(c) PROVE OwnInv'
  <2> DEFINE new == down[Cur(c)][1].op
  <2>1. /\ UNCHANGED <<gen, ops, up, handler, cells, log, disturbed>> /\ down[Cur(c)] # <<>>
        /\ down[Cur(c)][1].type = "ack"
        /\ confirmedReqIds'[c] = confirmedReqIds[c] \union {new}
        /\ pendingAcks'[c] = pendingAcks[c] \ {new}
        /\ \A d \in Client : d # c => /\ confirmedReqIds'[d] = confirmedReqIds[d]
                                      /\ pendingAcks'[d] = pendingAcks[d]
        /\ down'[Cur(c)] = Tail(down[Cur(c)]) /\ \A l \in Conn : l # Cur(c) => down'[l] = down[l]
        /\ TypeOK'
    BY <1>7, HandleAckEffect
  <2>2. 1 \in DOMAIN down[Cur(c)]
    BY <1>1, <1>2, <2>1, TailMessage DEF TypeOK
  <2>3. \A d \in Client : Cur(d)' = Cur(d)
    BY <2>1 DEF Cur
  <2> SUFFICES ASSUME NEW k \in Conn, NEW op \in DOMAIN ops,
                      k = Cur(k[1]), ops[op] = k[1], op \notin disturbed, Settled(k, op)'
               PROVE  ComesOnce(k, op)'
    BY <1>2, <2>1, <2>3 DEF OwnInv
  <2>4. /\ OnWayUp(k, op)' <=> OnWayUp(k, op)
        /\ Outstanding(k, op)' <=> Outstanding(k, op)
        /\ NoDiff(k, op)' <=> NoDiff(k, op)
    BY <2>1 DEF OnWayUp, Outstanding, NoDiff
  <2>5. CASE k # Cur(c)
    <3>1. k[1] # c
      BY <2>5
    <3>2. /\ down'[k] = down[k] /\ pendingAcks'[k[1]] = pendingAcks[k[1]]
          /\ confirmedReqIds'[k[1]] = confirmedReqIds[k[1]]
      BY <1>2, <2>1, <2>5, <3>1
    <3>3. Settled(k, op) /\ Syncs(k, op)' = Syncs(k, op)
      BY <2>1, <2>4, <3>2 DEF Settled, Syncs
    <3>4. ComesOnce(k, op)
      BY <3>3 DEF OwnInv
    <3> QED
      BY <2>4, <3>2, <3>3, <3>4 DEF ComesOnce
  <2>6. CASE k = Cur(c)
    <3> HIDE DEF new
    <3>1. /\ down[k] # <<>> /\ down'[k] = Tail(down[k]) /\ 1 \in DOMAIN down[k]
          /\ down[k][1].type = "ack" /\ down[k][1].op = new /\ k[1] = c
      BY <1>2, <2>1, <2>2, <2>6 DEF new
    <3>2. /\ \A i \in Syncs(k, op)' : i \in Nat /\ i >= 1 /\ i + 1 \in Syncs(k, op)
          /\ \A i \in Syncs(k, op) : i = 1 \/ i - 1 \in Syncs(k, op)'
          /\ \A i \in DOMAIN down'[k] : i + 1 \in DOMAIN down[k] /\ down'[k][i] = down[k][i + 1]
      BY <1>1, <2>1, <3>1, TakeFirstSyncs
    <3>3. Settled(k, op)
      <4>1. CASE op = new
        BY <3>1, <4>1 DEF Settled
      <4>2. CASE op # new
        BY <2>1, <2>4, <3>1, <3>2, <4>2 DEF Settled
      <4> QED
        BY <4>1, <4>2
    <3>4. ComesOnce(k, op)
      BY <2>6, <3>3 DEF OwnInv
    <3>5. Syncs(k, op) = {} => Syncs(k, op)' = {}
      BY <3>2
    <3>6. \A i, j \in Syncs(k, op)' : i = j
      BY <3>2, <3>4 DEF ComesOnce
    <3>7. op \notin pendingAcks'[c] \union confirmedReqIds'[c] =>
              op \notin pendingAcks[c] \union confirmedReqIds[c]
      BY <2>1
    <3> QED
      BY <2>4, <3>1, <3>4, <3>5, <3>6, <3>7 DEF ComesOnce
  <2> QED
    BY <2>5, <2>6
<1>8. ASSUME HandleSync(c) PROVE OwnInv'
  <2> DEFINE msg == down[Cur(c)][1]
  <2>1. /\ UNCHANGED <<gen, pendingAcks, ops, up, handler, cells, log, disturbed>>
        /\ down[Cur(c)] # <<>>
        /\ msg.type = "sync"
        /\ confirmedReqIds'[c] = confirmedReqIds[c] \ (msg.ops \ pendingAcks[c])
        /\ \A d \in Client : d # c => confirmedReqIds'[d] = confirmedReqIds[d]
        /\ down'[Cur(c)] = Tail(down[Cur(c)]) /\ \A l \in Conn : l # Cur(c) => down'[l] = down[l]
        /\ TypeOK'
    BY <1>8, HandleSyncEffect
  <2>2. 1 \in DOMAIN down[Cur(c)]
    BY <1>1, <1>2, <2>1, TailMessage DEF TypeOK
  <2>3. \A d \in Client : Cur(d)' = Cur(d)
    BY <2>1 DEF Cur
  <2> SUFFICES ASSUME NEW k \in Conn, NEW op \in DOMAIN ops,
                      k = Cur(k[1]), ops[op] = k[1], op \notin disturbed, Settled(k, op)'
               PROVE  ComesOnce(k, op)'
    BY <1>2, <2>1, <2>3 DEF OwnInv
  <2>4. /\ OnWayUp(k, op)' <=> OnWayUp(k, op)
        /\ Outstanding(k, op)' <=> Outstanding(k, op)
        /\ NoDiff(k, op)' <=> NoDiff(k, op)
    BY <2>1 DEF OnWayUp, Outstanding, NoDiff
  <2>5. CASE k # Cur(c)
    <3>1. k[1] # c
      BY <2>5
    <3>2. /\ down'[k] = down[k] /\ pendingAcks'[k[1]] = pendingAcks[k[1]]
          /\ confirmedReqIds'[k[1]] = confirmedReqIds[k[1]]
      BY <1>2, <2>1, <2>5, <3>1
    <3>3. Settled(k, op) /\ Syncs(k, op)' = Syncs(k, op)
      BY <2>1, <2>4, <3>2 DEF Settled, Syncs
    <3>4. ComesOnce(k, op)
      BY <3>3 DEF OwnInv
    <3> QED
      BY <2>4, <3>2, <3>3, <3>4 DEF ComesOnce
  <2>6. CASE k = Cur(c)
    <3> HIDE DEF msg
    <3>1. /\ down[k] # <<>> /\ down'[k] = Tail(down[k]) /\ 1 \in DOMAIN down[k]
          /\ down[k][1] = msg /\ k[1] = c
      BY <1>2, <2>1, <2>2, <2>6 DEF msg
    <3>2. /\ \A i \in Syncs(k, op)' : i \in Nat /\ i >= 1 /\ i + 1 \in Syncs(k, op)
          /\ \A i \in DOMAIN down'[k] : i + 1 \in DOMAIN down[k] /\ down'[k][i] = down[k][i + 1]
      BY <1>1, <2>1, <3>1, TakeFirstSyncs
    <3>3. Settled(k, op)
      BY <2>1, <2>4, <3>1, <3>2 DEF Settled
    <3>4. ComesOnce(k, op)
      BY <2>6, <3>3 DEF OwnInv
    <3>5. Syncs(k, op) = {} => Syncs(k, op)' = {}
      BY <3>2
    <3>6. \A i, j \in Syncs(k, op)' : i = j
      BY <3>2, <3>4 DEF ComesOnce
    <3>7. ASSUME op \notin pendingAcks[c] \union confirmedReqIds'[c]
          PROVE  Syncs(k, op)' = {} /\ ~Outstanding(k, op)
      <4>1. CASE op \notin pendingAcks[c] \union confirmedReqIds[c]
        BY <3>1, <3>4, <3>5, <4>1 DEF ComesOnce
      <4>2. CASE op \in pendingAcks[c] \union confirmedReqIds[c]
        <5>1. op \in msg.ops
          BY <2>1, <3>7, <4>2
        <5>2. 1 \in Syncs(k, op)
          BY <2>1, <3>1, <5>1 DEF Syncs
        <5>3. Syncs(k, op)' = {}
          BY <3>2, <3>4, <5>2 DEF ComesOnce
        <5> QED
          BY <3>4, <5>2, <5>3 DEF ComesOnce
      <4> QED
        BY <4>1, <4>2
    <3> QED
      BY <2>1, <2>4, <3>1, <3>4, <3>5, <3>6, <3>7 DEF ComesOnce
  <2> QED
    BY <2>5, <2>6
<1>9. ASSUME NEW expired \in BOOLEAN, Accept(c, expired) PROVE OwnInv'
  <2> DEFINE msg == [type |-> "sync_request", seq |-> lastServerSeq[c]]
  <2>1. /\ UNCHANGED <<pendingAcks, confirmedReqIds, ops, down, cells, log, disturbed>>
        /\ \A d \in Client : Cur(d)' = Cur(d)
        /\ Unused(Cur(c))
        /\ handler'[Cur(c)].pc = "read" /\ handler'[Cur(c)].op = 0
        /\ handler'[Cur(c)].diff = {}
        /\ \A l \in Conn : l # Cur(c) => handler'[l] = handler[l] /\ up'[l] = up[l]
        /\ up'[Cur(c)] = <<msg>> \/ up'[Cur(c)] = <<>>
    BY <1>9, AcceptEffect
  <2>2. \A i \in DOMAIN up'[Cur(c)] : up'[Cur(c)][i] = msg
    BY <2>1
  <2>3. msg.type = "sync_request" /\ msg.seq = lastServerSeq[c]
    OBVIOUS
  <2> HIDE DEF msg
  <2> SUFFICES ASSUME NEW k \in Conn, NEW op \in DOMAIN ops,
                      k = Cur(k[1]), ops[op] = k[1], op \notin disturbed, Settled(k, op)'
               PROVE  ComesOnce(k, op)'
    BY <1>2, <2>1 DEF OwnInv
  <2>4. op # 0
    BY <1>1 DEF TypeOK
  <2>5. Syncs(k, op)' = Syncs(k, op)
    BY <2>1 DEF Syncs
  <2>6. Outstanding(k, op)' => Outstanding(k, op)
    BY <2>1, <2>4 DEF Outstanding
  <2>7. CASE k # Cur(c)
    <3>1. up'[k] = up[k] /\ handler'[k] = handler[k]
      BY <2>1, <2>7
    <3>2. Settled(k, op) /\ (OnWayUp(k, op)' <=> OnWayUp(k, op)) /\ (NoDiff(k, op) => NoDiff(k, op)')
      BY <2>1, <3>1 DEF Settled, OnWayUp, NoDiff
    <3>3. ComesOnce(k, op)
      BY <3>2 DEF OwnInv
    <3>4. NoDiff(k, op)
      BY <3>3 DEF ComesOnce
    <3> QED
      BY <2>1, <2>5, <2>6, <3>2, <3>3, <3>4, StillOnce
  <2>8. CASE k = Cur(c)
    <3>1. DOMAIN down[k] = {} /\ k[1] = c
      BY <1>2, <2>1, <2>8 DEF Unused
    <3>2. ~OnWayUp(k, op)'
      BY <2>2, <2>3, <2>8 DEF OnWayUp
    <3>3. op \notin pendingAcks[c]
      BY <2>1, <2>8, <3>1, <3>2 DEF Settled
    <3>4. Settled(k, op)
      BY <3>1, <3>3 DEF Settled
    <3>5. ComesOnce(k, op)
      BY <2>8, <3>4 DEF OwnInv
    <3>6. NoDiff(k, op)'
      <4>1. PICK i \in DOMAIN log : log[i] = op /\ i <= lastServerSeq[c]
        BY <3>1, <3>3 DEF BaseInv, AckedBelowMark
      <4>2. /\ log \in Seq(OpId) /\ lastServerSeq[c] \in Nat
            /\ \A j \in DOMAIN log : log[i] = log[j] => i = j
        BY <1>1 DEF TypeOK, IsInjective
      <4>3. ASSUME NEW j \in lastServerSeq[c] + 1 .. Len(log) PROVE log[j] # op
        <5>1. j \in DOMAIN log /\ j # i
          BY <4>1, <4>2
        <5> QED
          BY <4>1, <4>2, <5>1
      <4>4. \A n \in DOMAIN up'[k] : up'[k][n].seq = lastServerSeq[c]
        BY <2>2, <2>3, <2>8
      <4>5. op \notin handler'[k].diff
        BY <2>1, <2>8
      <4> QED
        BY <2>1, <4>3, <4>4, <4>5 DEF NoDiff
    <3>7. OnWayUp(k, op)' => OnWayUp(k, op)
      BY <3>2
    <3> QED
      BY <2>1, <2>5, <2>6, <3>5, <3>6, <3>7, StillOnce
  <2> QED
    BY <2>7, <2>8
<1> QED
  BY <1>3, <1>4, <1>5, <1>6, <1>7, <1>8, <1>9 DEF Browser

\* An operation whose broadcast was disturbed stays so.
LEMMA DisturbedGrows ==
    ASSUME BaseInv, NEW h \in Conn, Handler(h)
    PROVE  disturbed \subseteq disturbed'
  BY EndEffect DEF Handler, HandleOp, HandleOpFails, AckOp, RefuseOp, ListAfter, SendDiff,
     Broadcast, BroadcastTo

\* OwnInv and the server: an own operation is not listed again, and broadcast once.
LEMMA OwnServer ==
    ASSUME BaseInv, OwnInv, NEW h \in Conn, Handler(h)
    PROVE  OwnInv'
<1>1. TypeOK
  BY DEF BaseInv
<1>2. \A k \in Conn : k[1] \in Client
  BY ConnFacts DEF BaseInv
<1>3. /\ UNCHANGED <<pendingAcks, confirmedReqIds, ops>> /\ \A d \in Client : Cur(d)' = Cur(d)
  BY ServerStep
<1>4. \A op \in DOMAIN ops : op # 0
  BY <1>1 DEF TypeOK
<1>5. up \in [Conn -> Seq(Message)] /\ log \in Seq(OpId) /\ Len(log) \in Nat
  BY <1>1 DEF TypeOK
<1>13. disturbed \subseteq disturbed'
  BY DisturbedGrows
<1> SUFFICES ASSUME NEW k \in Conn, NEW op \in DOMAIN ops,
                    k = Cur(k[1]), ops[op] = k[1], op \notin disturbed',
                    Settled(k, op)'
             PROVE  ComesOnce(k, op)'
  BY <1>2, <1>3 DEF OwnInv
<1>6. Settled(k, op) => ComesOnce(k, op) /\ NoDiff(k, op)
  BY <1>13 DEF OwnInv, ComesOnce
<1>7. CASE HandleOp(h) \/ HandleOpFails(h)
  <2> DEFINE new == up[h][1].op
  <2>1. /\ UNCHANGED down /\ handler[h].pc = "read" /\ up[h] # <<>> /\ up[h][1].type = "op"
        /\ new \in OpId /\ new \in pendingAcks[h[1]] /\ ops[new] = h[1] /\ new \notin Range(log)
        /\ log' = Append(log, new)
        /\ up'[h] = Tail(up[h]) /\ \A l \in Conn : l # h => up'[l] = up[l]
        /\ \/ handler'[h].pc = "appended" /\ handler'[h].op = new
           \/ handler'[h].pc = "read" /\ handler'[h].op = handler[h].op
        /\ handler'[h].diff = handler[h].diff
        /\ \A l \in Conn : l # h => handler'[l] = handler[l]
        /\ \A l \in Conn : handler[l].op \notin disturbed' => Range(cells'[l]) = Range(cells[l])
    BY <1>7, HandleOpEffect
  <2>2. 1 \in DOMAIN up[h]
    BY <1>5, <2>1, TailMessage
  <2>3. \A l \in Conn : \A i \in DOMAIN up[l] :
            up[l][i].type = "op" /\ up[l][i].op = new => l = h /\ i = 1
    BY <2>1, <2>2 DEF BaseInv, UpOnce
  <2>4. up[h][1].op = new
    OBVIOUS
  <2> HIDE DEF new
  <2>5. /\ Len(log') = Len(log) + 1 /\ \A i \in DOMAIN log : log'[i] = log[i]
        /\ log'[Len(log) + 1] = new
    BY <1>1, <2>1, AppendLog
  <2>6. up' \in [Conn -> Seq(Message)]
    BY <1>7, HandleOpEffect DEF TypeOK
  <2>7. \A l \in Conn : \A i \in DOMAIN up'[l] :
            LET j == IF l = h THEN i + 1 ELSE i
            IN  i \in Nat /\ i >= 1 /\ j \in DOMAIN up[l] /\ up'[l][i] = up[l][j]
    <3>1. up[h] # <<>> /\ up'[h] = Tail(up[h]) /\ \A l \in Conn : l # h => up'[l] = up[l]
      BY <2>1
    <3> QED
      BY <1>5, <2>6, <3>1, TakeFirst
  <2>8. \A i \in DOMAIN up'[k] : \E j \in DOMAIN up[k] : up'[k][i] = up[k][j] /\ (k = h => j # 1)
    BY <2>7
  <2>9. handler[h].op = 0
    BY <2>1 DEF BaseInv, HandledOnce
  <2>10. Syncs(k, op)' = Syncs(k, op)
    BY <2>1 DEF Syncs
  <2>11. OnWayUp(k, op)' => OnWayUp(k, op) /\ op # new
    BY <2>3, <2>8 DEF OnWayUp
  <2>12. op = new => k[1] = h[1] /\ op \in pendingAcks[k[1]]
    BY <2>1
  <2>13. op = new => k = h
    <3> SUFFICES ASSUME op = new, k # h PROVE FALSE
      OBVIOUS
    <3>1. ~OnWayUp(k, op)' /\ op \in pendingAcks'[k[1]]
      BY <1>3, <2>11, <2>12
    <3>2. handler'[k].op # op
      BY <1>4, <2>1 DEF BaseInv, HandledOnce
    <3>3. \A i \in DOMAIN down[k] : down[k][i].type = "ack" => down[k][i].op \in Range(log)
      BY DEF BaseInv, DownTrue, Range
    <3> QED
      BY <2>1, <3>1, <3>2, <3>3 DEF Settled
  <2>14. Settled(k, op)
    <3>1. CASE op = new
      BY <2>1, <2>2, <2>4, <2>13, <3>1 DEF Settled, OnWayUp
    <3>2. CASE op # new
      BY <1>3, <2>1, <2>11, <3>2 DEF Settled
    <3> QED
      BY <3>1, <3>2
  <2>15. ComesOnce(k, op) /\ NoDiff(k, op)
    BY <1>6, <2>14
  <2>16. NoDiff(k, op)'
    <3>1. op \notin handler'[k].diff
      BY <2>1, <2>15 DEF NoDiff
    <3>2. ASSUME NEW i \in DOMAIN up'[k], up'[k][i].type = "sync_request",
                 NEW j \in up'[k][i].seq + 1 .. Len(log')
          PROVE  log'[j] # op
      <4>1. PICK n \in DOMAIN up[k] : up'[k][i] = up[k][n] /\ (k = h => n # 1)
        BY <2>8
      <4>2. n = 1 /\ k # h
        BY <3>2, <4>1 DEF BaseInv, UpOnce
      <4>3. op # new
        BY <2>13, <4>2
      <4>4. up[k][n].seq \in Nat
        <5>1. up[k][n] \in Message
          BY <1>5
        <5> QED
          BY <3>2, <4>1, <5>1 DEF Message, Seqs
      <4>5. CASE j = Len(log) + 1
        BY <2>5, <4>3, <4>5
      <4>6. CASE j # Len(log) + 1
        <5>1. j \in up[k][n].seq + 1 .. Len(log) /\ j \in DOMAIN log
          BY <1>5, <2>5, <3>2, <4>1, <4>4, <4>6
        <5> QED
          BY <2>5, <2>15, <3>2, <4>1, <5>1 DEF NoDiff
      <4> QED
        BY <4>5, <4>6
    <3> QED
      BY <3>1, <3>2 DEF NoDiff
  <2>17. CASE op # new
    <3>1. Outstanding(k, op)' => Outstanding(k, op)
      <4> SUFFICES ASSUME NEW l \in Conn, handler'[l].op = op,
                          handler'[l].pc \in {"appended", "acked"} \/ k \in Range(cells'[l])
                   PROVE  Outstanding(k, op)
        BY DEF Outstanding
      <4>1. l # h
        BY <1>4, <2>1, <2>9, <2>17
      <4>2. handler'[l] = handler[l]
        BY <2>1, <4>1
      <4>3. Range(cells'[l]) = Range(cells[l])
        BY <2>1, <4>2
      <4> QED
        BY <4>2, <4>3 DEF Outstanding
    <3> QED
      BY <1>3, <2>10, <2>11, <2>15, <2>16, <3>1, StillOnce
  <2>18. CASE op = new
    <3>1. OnWayUp(k, op)
      BY <2>1, <2>2, <2>4, <2>13, <2>18 DEF OnWayUp
    <3>2. Syncs(k, op) = {}
      BY <2>15, <3>1 DEF ComesOnce
    <3> QED
      BY <1>3, <2>10, <2>12, <2>16, <2>18, <3>2 DEF ComesOnce
  <2> QED
    BY <2>17, <2>18
<1>8. CASE AckOp(h)
  <2> DEFINE new == handler[h].op
             msg == [type |-> "ack", op |-> new, seq |-> ServerSeq(new)]
  <2>1. /\ UNCHANGED <<up, cells, log>> /\ handler[h].pc = "appended" /\ msg \in Message
        /\ \A l \in Conn : l # h => handler'[l] = handler[l] /\ down'[l] = down[l]
        /\ down'[h] = Append(down[h], msg) \/ down'[h] = down[h]
        /\ handler'[h].pc = "acked" /\ handler'[h].op = new
        /\ handler'[h].diff = handler[h].diff
    BY <1>8, AckOpEffect
  <2>2. msg.type = "ack" /\ msg.op = new
    OBVIOUS
  <2> HIDE DEF msg
  <2>3. OnWayUp(k, op)' <=> OnWayUp(k, op)
    BY <2>1 DEF OnWayUp
  <2>4. Syncs(k, op)' = Syncs(k, op)
    <3>1. CASE down'[k] = down[k]
      BY <3>1 DEF Syncs
    <3>2. CASE down'[k] = Append(down[k], msg)
      BY <1>1, <2>1, <2>2, <3>2, AddLastSyncs
    <3> QED
      BY <2>1, <3>1, <3>2
  <2>5. Settled(k, op)
    <3>1. CASE down'[k] = down[k]
      BY <1>3, <2>1, <2>3, <3>1 DEF Settled
    <3>2. CASE down'[k] # down[k]
      <4>1. k = h /\ down'[k] = Append(down[k], msg)
        BY <2>1, <3>2
      <4>2. /\ \A i \in DOMAIN down[k] : down'[k][i] = down[k][i]
            /\ \A i \in DOMAIN down'[k] : i \in DOMAIN down[k] \/ down'[k][i] = msg
        BY <1>1, <2>1, <4>1, AddLast
      <4> QED
        BY <1>3, <2>1, <2>2, <2>3, <4>1, <4>2 DEF Settled
    <3> QED
      BY <3>1, <3>2
  <2>6. NoDiff(k, op) => NoDiff(k, op)'
    BY <2>1 DEF NoDiff
  <2>7. Outstanding(k, op)' => Outstanding(k, op)
    BY <2>1 DEF Outstanding
  <2> QED
    BY <1>3, <1>6, <2>3, <2>4, <2>5, <2>6, <2>7, StillOnce
<1>14. CASE RefuseOp(h) \/ Broadcast(h)
  <2>1. /\ UNCHANGED <<up, down, log>> /\ handler[h].pc = "acked"
        /\ \A l \in Conn : l # h => handler'[l] = handler[l] /\ cells'[l] = cells[l]
        /\ handler'[h].pc \in {"read", "broadcast"}
        /\ handler'[h].op = 0 \/ handler'[h].op = handler[h].op
        /\ handler'[h].diff = handler[h].diff
    BY <1>14, ProjectedEffect
  <2>2. /\ OnWayUp(k, op)' <=> OnWayUp(k, op)
        /\ NoDiff(k, op)' <=> NoDiff(k, op)
        /\ Syncs(k, op)' = Syncs(k, op)
    BY <2>1 DEF OnWayUp, NoDiff, Syncs
  <2>3. Settled(k, op)
    BY <1>3, <2>1, <2>2 DEF Settled
  <2>4. Outstanding(k, op)' => Outstanding(k, op)
    <3> SUFFICES ASSUME NEW l \in Conn, handler'[l].op = op,
                        handler'[l].pc \in {"appended", "acked"} \/ k \in Range(cells'[l])
                 PROVE  Outstanding(k, op)
      BY DEF Outstanding
    <3>1. CASE l = h
      BY <1>4, <2>1, <3>1 DEF Outstanding
    <3>2. CASE l # h
      BY <2>1, <3>2 DEF Outstanding
    <3> QED
      BY <3>1, <3>2
  <2> QED
    BY <1>3, <1>6, <2>2, <2>3, <2>4, StillOnce
<1>9. CASE ListAfter(h)
  <2> DEFINE seq == up[h][1].seq
  <2>1. /\ UNCHANGED <<down, log>> /\ up[h] # <<>> /\ up[h][1].type = "sync_request"
        /\ up'[h] = Tail(up[h]) /\ \A l \in Conn : l # h => up'[l] = up[l]
        /\ handler'[h].pc = "diff"
        /\ \A o \in handler'[h].diff : \E i \in seq + 1 .. Len(log) : log[i] = o
        /\ handler'[h].op = handler[h].op
        /\ \A l \in Conn : handler[l].op \notin disturbed' => Range(cells'[l]) = Range(cells[l])
        /\ handler[h].pc = "read"
        /\ \A l \in Conn : l # h => handler'[l] = handler[l]
        /\ TypeOK'
    BY <1>9, ListAfterEffect
  <2>2. 1 \in DOMAIN up[h]
    BY <1>5, <2>1, TailMessage
  <2>3. up' \in [Conn -> Seq(Message)]
    BY <2>1 DEF TypeOK
  <2>4. \A l \in Conn : \A i \in DOMAIN up'[l] :
            LET j == IF l = h THEN i + 1 ELSE i
            IN  i \in Nat /\ i >= 1 /\ j \in DOMAIN up[l] /\ up'[l][i] = up[l][j]
    <3>1. up[h] # <<>> /\ up'[h] = Tail(up[h]) /\ \A l \in Conn : l # h => up'[l] = up[l]
      BY <2>1
    <3> QED
      BY <1>5, <2>3, <3>1, TakeFirst
  <2>5. \A i \in DOMAIN up'[k] : \E j \in DOMAIN up[k] : up'[k][i] = up[k][j]
    BY <2>4
  <2>6. OnWayUp(k, op)' => OnWayUp(k, op)
    BY <2>5 DEF OnWayUp
  <2>7. Settled(k, op)
    BY <1>3, <2>1, <2>6 DEF Settled
  <2>8. Syncs(k, op)' = Syncs(k, op) /\ (Outstanding(k, op)' => Outstanding(k, op))
    <3>1. Outstanding(k, op)' => Outstanding(k, op)
      <4> SUFFICES ASSUME NEW l \in Conn, handler'[l].op = op,
                          handler'[l].pc \in {"appended", "acked"} \/ k \in Range(cells'[l])
                   PROVE  Outstanding(k, op)
        BY DEF Outstanding
      <4>1. handler[l].op = op /\ (handler'[l].pc = handler[l].pc \/ handler'[l].pc = "diff")
        BY <2>1
      <4>2. Range(cells'[l]) = Range(cells[l])
        BY <2>1, <4>1
      <4> QED
        BY <4>1, <4>2 DEF Outstanding
    <3> QED
      BY <2>1, <3>1 DEF Syncs
  <2>9. NoDiff(k, op)'
    <3>1. NoDiff(k, op)
      BY <1>6, <2>7
    <3>2. \A i \in DOMAIN up'[k] : up'[k][i].type = "sync_request" =>
              \A j \in up'[k][i].seq + 1 .. Len(log') : log'[j] # op
      BY <2>1, <2>5, <3>1 DEF NoDiff
    <3>3. op \notin handler'[k].diff
      BY <2>1, <2>2, <3>1 DEF NoDiff
    <3> QED
      BY <3>2, <3>3 DEF NoDiff
  <2> QED
    BY <1>3, <1>6, <2>6, <2>7, <2>8, <2>9, StillOnce
<1>10. CASE SendDiff(h)
  <2> DEFINE msg == [type |-> "sync", ops |-> handler[h].diff, seq |-> Len(log)]
  <2>1. /\ UNCHANGED <<up, cells, log>> /\ msg \in Message /\ handler[h].pc = "diff"
        /\ \A l \in Conn : l # h => handler'[l] = handler[l] /\ down'[l] = down[l]
        /\ down'[h] = Append(down[h], msg) \/ down'[h] = down[h]
        /\ handler'[h].pc = "read" /\ handler'[h].diff = {}
        /\ handler'[h].op = handler[h].op
    BY <1>10, SendDiffEffect
  <2>2. msg.type = "sync" /\ msg.ops = handler[h].diff
    OBVIOUS
  <2> HIDE DEF msg
  <2>3. OnWayUp(k, op)' <=> OnWayUp(k, op)
    BY <2>1 DEF OnWayUp
  <2>4. Settled(k, op)
    <3>1. CASE down'[k] = down[k]
      BY <1>3, <2>1, <2>3, <3>1 DEF Settled
    <3>2. CASE down'[k] # down[k]
      <4>1. k = h /\ down'[k] = Append(down[k], msg)
        BY <2>1, <3>2
      <4>2. /\ \A i \in DOMAIN down[k] : down'[k][i] = down[k][i]
            /\ \A i \in DOMAIN down'[k] : i \in DOMAIN down[k] \/ down'[k][i] = msg
        BY <1>1, <2>1, <4>1, AddLast
      <4> QED
        BY <1>3, <2>1, <2>2, <2>3, <4>1, <4>2 DEF Settled
    <3> QED
      BY <3>1, <3>2
  <2>5. NoDiff(k, op)
    BY <1>6, <2>4
  <2>6. Syncs(k, op)' = Syncs(k, op)
    <3>1. CASE down'[k] = down[k]
      BY <3>1 DEF Syncs
    <3>2. CASE down'[k] # down[k]
      <4>1. k = h /\ down'[k] = Append(down[k], msg)
        BY <2>1, <3>2
      <4>2. op \notin msg.ops
        BY <2>2, <2>5, <4>1 DEF NoDiff
      <4> QED
        BY <1>1, <2>1, <4>1, <4>2, AddLastSyncs
    <3> QED
      BY <3>1, <3>2
  <2>7. NoDiff(k, op)'
    BY <2>1, <2>5 DEF NoDiff
  <2>8. Outstanding(k, op)' => Outstanding(k, op)
    <3> SUFFICES ASSUME NEW l \in Conn, handler'[l].op = op,
                        handler'[l].pc \in {"appended", "acked"} \/ k \in Range(cells'[l])
                 PROVE  Outstanding(k, op)
      BY DEF Outstanding
    <3> QED
      BY <2>1 DEF Outstanding
  <2> QED
    BY <1>3, <1>6, <2>3, <2>4, <2>6, <2>7, <2>8, StillOnce
<1>11. CASE HandlerEnds(h)
  <2>1. /\ UNCHANGED <<down, log>> /\ up'[h] = <<>> /\ handler[h].pc = "read"
        /\ \A l \in Conn : l # h => handler'[l] = handler[l] /\ up'[l] = up[l]
        /\ handler'[h].pc = "ended"
        /\ handler'[h].op = handler[h].op /\ handler'[h].diff = handler[h].diff
        /\ \A l \in Conn : handler[l].op \notin disturbed' => Range(cells'[l]) = Range(cells[l])
    BY <1>11, EndEffect
  <2>2. DOMAIN up'[k] = {} \/ up'[k] = up[k]
    BY <2>1
  <2>3. OnWayUp(k, op)' => OnWayUp(k, op)
    BY <2>2 DEF OnWayUp
  <2>4. Settled(k, op)
    BY <1>3, <2>1, <2>3 DEF Settled
  <2>5. NoDiff(k, op) => NoDiff(k, op)'
    BY <2>1, <2>2 DEF NoDiff
  <2>6. Syncs(k, op)' = Syncs(k, op)
    BY <2>1 DEF Syncs
  <2>7. Outstanding(k, op)' => Outstanding(k, op)
    <3> SUFFICES ASSUME NEW l \in Conn, handler'[l].op = op,
                        handler'[l].pc \in {"appended", "acked"} \/ k \in Range(cells'[l])
                 PROVE  Outstanding(k, op)
      BY DEF Outstanding
    <3>1. handler[l].op = op /\ (handler'[l].pc = handler[l].pc \/ handler'[l].pc = "ended")
      BY <2>1
    <3>2. Range(cells'[l]) = Range(cells[l])
      BY <2>1, <3>1
    <3> QED
      BY <3>1, <3>2 DEF Outstanding
  <2> QED
    BY <1>3, <1>6, <2>3, <2>4, <2>5, <2>6, <2>7, StillOnce
<1>12. ASSUME NEW p \in DOMAIN cells[h], BroadcastTo(h, p) PROVE ComesOnce(k, op)'
  <2> DEFINE new == handler[h].op
             to == cells[h][p]
             msg == [type |-> "sync", ops |-> {new}, seq |-> ServerSeq(new)]
  <2>1. /\ UNCHANGED <<up, log, disturbed>> /\ handler[h].pc = "broadcast"
        /\ Range(cells'[h]) \subseteq Range(cells[h])
        /\ IsInjective(cells[h]) => Range(cells'[h]) = Range(cells[h]) \ {to}
        /\ handler'[h].pc \in {"read", "broadcast"}
        /\ handler'[h].op = 0 \/ handler'[h].op = new
        /\ handler'[h].diff = handler[h].diff
        /\ \A l \in Conn : l # h => handler'[l] = handler[l] /\ cells'[l] = cells[l]
    BY <1>12, BroadcastEffect
  <2>12. /\ to \in Conn /\ to \in Range(cells[h])
         /\ new # 0 /\ msg \in Message /\ new \in Range(log)
         /\ \A l \in Conn : l # to => down'[l] = down[l]
         /\ down'[to] = down[to] \/ down'[to] = Append(down[to], msg)
    BY <1>12, BroadcastWrites
  <2>13. new \notin disturbed => IsInjective(cells[h])
    BY DEF BaseInv, ListTrue
  <2>2. msg.type = "sync" /\ msg.ops = {new}
    OBVIOUS
  <2>3. \A l \in Conn : handler[l].op = new => l = h
    BY <2>12 DEF BaseInv, HandledOnce
  <2> HIDE DEF msg, new, to
  <2>4. OnWayUp(k, op)' <=> OnWayUp(k, op)
    BY <2>1 DEF OnWayUp
  <2>5. /\ \A i \in DOMAIN down[k] : down'[k][i] = down[k][i]
        /\ \A i \in DOMAIN down'[k] : i \in DOMAIN down[k] \/ down'[k][i] = msg
    <3>1. CASE down'[to] = down[to]
      BY <2>12, <3>1
    <3>2. CASE down'[to] = Append(down[to], msg)
      BY <1>1, <2>12, <3>2, AddLast
    <3> QED
      BY <2>12, <3>1, <3>2
  <2>6. Settled(k, op)
    <3>1. handler'[k].pc = "appended" => handler'[k] = handler[k]
      BY <2>1
    <3> QED
      BY <1>3, <2>2, <2>4, <2>5, <3>1 DEF Settled
  <2>7. ComesOnce(k, op) /\ NoDiff(k, op)
    BY <1>6, <2>6
  <2>8. NoDiff(k, op)'
    BY <2>1, <2>7 DEF NoDiff
  <2>9. Outstanding(k, op)' => Outstanding(k, op)
    <3> SUFFICES ASSUME NEW l \in Conn, handler'[l].op = op,
                        handler'[l].pc \in {"appended", "acked"} \/ k \in Range(cells'[l])
                 PROVE  Outstanding(k, op)
      BY DEF Outstanding
    <3>1. CASE l = h
      BY <1>4, <2>1, <3>1 DEF Outstanding, new
    <3>2. CASE l # h
      BY <2>1, <3>2 DEF Outstanding
    <3> QED
      BY <3>1, <3>2
  <2>10. CASE down'[k] = down[k]
    <3>1. Syncs(k, op)' = Syncs(k, op)
      BY <2>10 DEF Syncs
    <3> QED
      BY <1>3, <2>4, <2>7, <2>8, <2>9, <3>1, StillOnce
  <2>11. CASE down'[k] # down[k]
    <3>1. k = to /\ down'[k] = Append(down[k], msg)
      BY <2>11, <2>12
    <3>2. CASE op # new
      <4>1. Syncs(k, op)' = Syncs(k, op)
        BY <1>1, <2>12, <2>2, <3>1, <3>2, AddLastSyncs
      <4> QED
        BY <1>3, <2>4, <2>7, <2>8, <2>9, <4>1, StillOnce
    <3>3. CASE op = new
      <4>1. Outstanding(k, op)
        BY <2>12, <3>1, <3>3 DEF Outstanding, new
      <4>2. Syncs(k, op) = {} /\ op \in pendingAcks[k[1]] \union confirmedReqIds[k[1]]
        BY <2>7, <4>1 DEF ComesOnce
      <4>3. Syncs(k, op)' = {Len(down[k]) + 1}
        BY <1>1, <2>12, <2>2, <3>1, <3>3, <4>2, AddLastSyncs
      <4>4. ~Outstanding(k, op)'
        <5> SUFFICES ASSUME NEW l \in Conn, handler'[l].op = op,
                            handler'[l].pc \in {"appended", "acked"} \/ k \in Range(cells'[l])
                     PROVE  FALSE
          BY DEF Outstanding
        <5>1. l = h
          BY <2>1, <2>3, <3>3
        <5>2. Range(cells'[h]) = Range(cells[h]) \ {to}
          BY <2>1, <2>13, <3>3
        <5> QED
          BY <2>1, <3>1, <5>1, <5>2
      <4>5. ~OnWayUp(k, op)
        BY <2>12, <3>3 DEF OnWayUp, BaseInv, UpOnce
      <4> QED
        BY <1>3, <2>4, <2>8, <4>2, <4>3, <4>4, <4>5 DEF ComesOnce
    <3> QED
      BY <3>2, <3>3
  <2> QED
    BY <2>10, <2>11
<1> QED
  BY <1>7, <1>8, <1>9, <1>10, <1>11, <1>12, <1>14 DEF Handler

\* Remembered is kept: only a sync makes a client forget, and none comes before the broadcast.
LEMMA RememberedStep ==
    ASSUME BaseInv, OwnInv, Remembered, Next
    PROVE  Remembered'
<1>1. TypeOK
  BY DEF BaseInv
<1>2. /\ \A k \in Conn : k[1] \in Client
      /\ \A d \in Client : Cur(d) \in Conn /\ Cur(d)[1] = d
  BY ConnFacts DEF BaseInv
<1>3. ASSUME NEW c \in Client, Lose(c) \/ Disconnect(c) PROVE Remembered'
  BY <1>3, DownEffect DEF Remembered
<1>4. ASSUME NEW c \in Client, Reconnect(c) PROVE Remembered'
  BY <1>4, ReconnectEffect DEF Remembered
<1>5. ASSUME NEW c \in Client, Closed(c) PROVE Remembered'
  <2>1. UNCHANGED <<pendingAcks, confirmedReqIds, handler, disturbed>>
    BY <1>5, ClosedEffect DEF manager, server
  <2> QED
    BY <2>1 DEF Remembered
<1>6. ASSUME NEW c \in Client, Type(c) PROVE Remembered'
  <2>1. /\ UNCHANGED <<confirmedReqIds, handler, disturbed>>
        /\ pendingAcks[c] \subseteq pendingAcks'[c]
        /\ \A d \in Client : d # c => pendingAcks'[d] = pendingAcks[d]
    BY <1>6, TypeEffect
  <2> QED
    BY <1>2, <2>1 DEF Remembered
<1>7. ASSUME NEW c \in Client, HandleAck(c) PROVE Remembered'
  <2> DEFINE new == down[Cur(c)][1].op
  <2>1. /\ UNCHANGED <<handler, disturbed>>
        /\ confirmedReqIds'[c] = confirmedReqIds[c] \union {new}
        /\ pendingAcks'[c] = pendingAcks[c] \ {new}
        /\ \A d \in Client : d # c => /\ confirmedReqIds'[d] = confirmedReqIds[d]
                                      /\ pendingAcks'[d] = pendingAcks[d]
    BY <1>7, HandleAckEffect
  <2> HIDE DEF new
  <2> QED
    BY <1>2, <2>1 DEF Remembered
<1>8. ASSUME NEW c \in Client, HandleSync(c) PROVE Remembered'
  <2> DEFINE msg == down[Cur(c)][1]
  <2>1. /\ UNCHANGED <<pendingAcks, handler, disturbed>>
        /\ down[Cur(c)] # <<>> /\ msg.type = "sync"
        /\ confirmedReqIds'[c] = confirmedReqIds[c] \ (msg.ops \ pendingAcks[c])
        /\ \A d \in Client : d # c => confirmedReqIds'[d] = confirmedReqIds[d]
    BY <1>8, HandleSyncEffect
  <2>2. 1 \in DOMAIN down[Cur(c)]
    BY <1>1, <1>2, <2>1, TailMessage DEF TypeOK
  <2> SUFFICES ASSUME NEW k \in Conn, handler[k].pc \in {"appended", "acked"},
                      handler[k].op \notin disturbed
               PROVE  handler[k].op \in pendingAcks'[k[1]] \union confirmedReqIds'[k[1]]
    BY <2>1 DEF Remembered
  <2> DEFINE op == handler[k].op
  <2>3. op \in pendingAcks[k[1]] \union confirmedReqIds[k[1]]
    BY DEF Remembered
  <2>4. op \in DOMAIN ops /\ ops[op] = k[1]
    BY DEF BaseInv, HandledOnce
  <2>5. ASSUME k[1] = c, op \notin pendingAcks[c] PROVE op \notin msg.ops
    <3>1. Settled(Cur(c), op)
      BY <1>2, <2>5 DEF Settled
    <3>2. ComesOnce(Cur(c), op)
      BY <1>2, <2>4, <2>5, <3>1 DEF OwnInv
    <3>3. Syncs(Cur(c), op) = {}
      BY <3>2 DEF ComesOnce, Outstanding
    <3> QED
      BY <2>1, <2>2, <3>3 DEF Syncs
  <2> HIDE DEF op, msg
  <2>6. CASE k[1] = c
    BY <2>1, <2>3, <2>5, <2>6 DEF op
  <2>7. CASE k[1] # c
    BY <1>2, <2>1, <2>3, <2>7 DEF op
  <2> QED
    BY <2>6, <2>7
<1>9. ASSUME NEW c \in Client, NEW expired \in BOOLEAN, Accept(c, expired) PROVE Remembered'
  <2>1. /\ UNCHANGED <<pendingAcks, confirmedReqIds, disturbed>>
        /\ handler'[Cur(c)].pc = "read"
        /\ \A l \in Conn : l # Cur(c) => handler'[l] = handler[l]
    BY <1>9, AcceptEffect
  <2> QED
    BY <2>1 DEF Remembered
<1>10. ASSUME NEW h \in Conn, Handler(h) PROVE Remembered'
  <2>1. UNCHANGED <<pendingAcks, confirmedReqIds>>
    BY <1>10, ServerStep
  <2>2. /\ disturbed \subseteq disturbed'
        /\ \A l \in Conn : l # h => handler'[l] = handler[l]
        /\ handler'[h].pc \in {"appended", "acked"} =>
               \/ handler[h].pc \in {"appended", "acked"} /\ handler'[h].op = handler[h].op
               \/ handler'[h].op \in pendingAcks[h[1]]
    <3>1. CASE HandleOp(h) \/ HandleOpFails(h)
      BY <3>1, HandleOpEffect
    <3>2. CASE AckOp(h)
      BY <3>2, AckOpEffect
    <3>3. CASE RefuseOp(h) \/ Broadcast(h)
      BY <3>3, ProjectedEffect
    <3>4. CASE ListAfter(h)
      BY <3>4, ListAfterEffect
    <3>6. CASE SendDiff(h)
      BY <3>6, SendDiffEffect
    <3>7. CASE HandlerEnds(h)
      BY <3>7, EndEffect
    <3>5. ASSUME NEW p \in DOMAIN cells[h], BroadcastTo(h, p)
          PROVE  /\ disturbed' = disturbed /\ handler'[h].pc \in {"read", "broadcast"}
                 /\ \A l \in Conn : l # h => handler'[l] = handler[l]
      BY <3>5, BroadcastEffect
    <3> QED
      BY <1>10, <3>1, <3>2, <3>3, <3>4, <3>5, <3>6, <3>7 DEF Handler
  <2> QED
    BY <2>1, <2>2 DEF Remembered
<1> QED
  BY <1>3, <1>4, <1>5, <1>6, <1>7, <1>8, <1>9, <1>10 DEF Next, Browser

(***************************************************************************)
(* No client applies an operation of its own a second time unless an       *)
(* Unsubscribe came into its broadcast: neither the broadcast nor the diff *)
(* of a later connection brings back one that SyncManager would not        *)
(* recognise, whenever its ack came and however late the goroutine that    *)
(* handled it goes on.                                                     *)
(***************************************************************************)
THEOREM OwnOnlyOnce == Spec => []OwnNotReapplied
<1> DEFINE Inv == BaseInv /\ OwnInv /\ Remembered /\ OwnNotReapplied
<1>1. Init => Inv
  <2> SUFFICES ASSUME Init PROVE Inv
    OBVIOUS
  <2>1. /\ DOMAIN ops = {} /\ \A c \in Client : reapplied[c] = {}
        /\ \A k \in Conn : handler[k].pc = "none"
    BY DEF Init
  <2> QED
    BY <2>1, BaseInit DEF OwnInv, OwnNotReapplied, Remembered
<1>2. ASSUME Inv, [Next]_vars PROVE Inv'
  <2>1. BaseInv'
    BY <1>2, BaseStep
  <2>2. OwnInv' /\ Remembered'
    <3>1. CASE Next
      BY <1>2, <3>1, OwnBrowser, OwnServer, RememberedStep DEF Next
    <3>2. CASE UNCHANGED vars
      <4>1. UNCHANGED <<gen, pendingAcks, confirmedReqIds, ops, up, down, handler, cells, log,
                        disturbed>>
        BY <3>2 DEF vars, wsClient, manager, server, syncService
      <4> QED
        BY <1>2, <4>1 DEF OwnInv, Remembered, Cur, Settled, ComesOnce, NoDiff, Syncs, OnWayUp,
           Outstanding
    <3> QED
      BY <1>2, <3>1, <3>2
  <2>3. OwnNotReapplied'
    <3>1. ASSUME NEW c \in Client, HandleSync(c) PROVE OwnNotReapplied'
      <4> DEFINE msg == down[Cur(c)][1]
                 known == pendingAcks[c] \union confirmedReqIds[c]
      <4>1. /\ down[Cur(c)] # <<>> /\ msg.type = "sync" /\ msg.ops \subseteq Range(log)
            /\ reapplied'[c] = reapplied[c] \union {op \in msg.ops \ known : ops[op] = c}
            /\ \A d \in Client : d # c => reapplied'[d] = reapplied[d]
            /\ UNCHANGED disturbed
        BY <1>2, <3>1, HandleSyncEffect
      <4>2. TypeOK /\ Cur(c) \in Conn /\ Cur(c)[1] = c /\ Range(log) \subseteq DOMAIN ops
        BY <1>2, ConnFacts DEF BaseInv, OpsKnown
      <4>3. 1 \in DOMAIN down[Cur(c)]
        BY <4>1, <4>2, TailMessage DEF TypeOK
      <4>4. ASSUME NEW op \in msg.ops \ known, ops[op] = c PROVE op \in disturbed
        <5> SUFFICES ASSUME op \notin disturbed PROVE FALSE
          OBVIOUS
        <5>1. Settled(Cur(c), op) /\ op \in DOMAIN ops
          BY <4>1, <4>2, <4>4 DEF Settled
        <5>2. ComesOnce(Cur(c), op)
          BY <1>2, <4>2, <4>4, <5>1 DEF OwnInv
        <5>3. Syncs(Cur(c), op) = {}
          BY <4>2, <4>4, <5>2 DEF ComesOnce
        <5> QED
          BY <4>1, <4>3, <4>4, <5>3 DEF Syncs
      <4> HIDE DEF msg, known
      <4>5. reapplied'[c] \subseteq disturbed
        BY <1>2, <4>1, <4>4 DEF OwnNotReapplied
      <4> QED
        BY <1>2, <4>1, <4>5 DEF OwnNotReapplied
    <3>2. CASE UNCHANGED reapplied /\ disturbed \subseteq disturbed'
      BY <1>2, <3>2 DEF OwnNotReapplied
    <3>3. ASSUME NEW c \in Client, Closed(c) PROVE UNCHANGED <<reapplied, disturbed>>
      BY <1>2, <3>3, ClosedEffect DEF manager, server
    <3>4. ASSUME NEW h \in Conn, Handler(h)
          PROVE  UNCHANGED reapplied /\ disturbed \subseteq disturbed'
      BY <1>2, <3>4, ServerStep, DisturbedGrows
    <3>5. CASE Next
      BY <1>2, <3>1, <3>2, <3>3, <3>4, <3>5, DownEffect, ReconnectEffect, TypeEffect,
         HandleAckEffect, AcceptEffect DEF Next, Browser
    <3>6. CASE UNCHANGED vars
      BY <3>2, <3>6 DEF vars, manager, server
    <3> QED
      BY <1>2, <3>5, <3>6
  <2> QED
    BY <2>1, <2>2, <2>3
<1>3. Inv => OwnNotReapplied
  OBVIOUS
<1> QED
  BY <1>1, <1>2, <1>3, PTL DEF Spec

-----------------------------------------------------------------------------
(***************************************************************************)
(* What a connected client lacks is on its way.                            *)
(***************************************************************************)

\* What a step may not do to what is coming on connection k.
LEMMA StillComing ==
    ASSUME NEW k \in Conn, NEW op, Coming(k, op),
           doc[k[1]] \subseteq doc'[k[1]], withheld \subseteq withheld', disturbed \subseteq disturbed',
           handler[k].diff \subseteq handler'[k].diff,
           Syncs(k, op) # {} => Syncs(k, op)' # {},
           op \notin withheld' \union disturbed' /\ Outstanding(k, op) => Outstanding(k, op)'
    PROVE  Coming(k, op)'
  BY DEF Coming

\* Complete and the browsers: what is read is applied, or was the client's own.
LEMMA CompleteBrowser ==
    ASSUME BaseInv, Complete, NEW c \in Client, Browser(c)
    PROVE  Complete'
<1>1. TypeOK
  BY DEF BaseInv
<1>2. /\ \A k \in Conn : k[1] \in Client
      /\ \A d \in Client : Cur(d) \in Conn /\ Cur(d)[1] = d
  BY ConnFacts DEF BaseInv
<1>3. ASSUME Lose(c) \/ Disconnect(c) PROVE Complete'
  <2>1. /\ UNCHANGED <<doc, asked, up, handler, cells, log, withheld, disturbed>>
        /\ sock'[c] = "none" /\ \A d \in Client : d # c => sock'[d] = sock[d]
        /\ \A l \in Conn : l # Cur(c) => down'[l] = down[l]
        /\ \A d \in Client : Cur(d)' = Cur(d)
    BY <1>3, DownEffect
  <2>2. \A d \in Client : mounted'[d] => mounted[d]
    BY <1>1, <1>3 DEF Lose, Disconnect, TypeOK
  <2> SUFFICES ASSUME NEW k \in Conn, k = Cur(k[1]), mounted'[k[1]], sock'[k[1]] = "open"
               PROVE  \/ Asking(k)'
                      \/ /\ handler'[k].subscribed
                         /\ \A i \in asked'[k[1]] + 1 .. Len(log') : Coming(k, log[i])'
    BY <1>2, <2>1 DEF Complete
  <2>3. k[1] # c /\ k # Cur(c) /\ mounted[k[1]] /\ sock[k[1]] = "open"
    BY <1>2, <2>1, <2>2
  <2>4. down'[k] = down[k]
    BY <2>1, <2>3
  <2>5. Asking(k)' <=> Asking(k)
    BY <2>1 DEF Asking
  <2>6. \A i \in asked[k[1]] + 1 .. Len(log) : Coming(k, log[i])' <=> Coming(k, log[i])
    BY <2>1, <2>4 DEF Coming, Syncs, Outstanding
  <2> QED
    BY <2>1, <2>3, <2>5, <2>6 DEF Complete
<1>4. ASSUME Reconnect(c) PROVE Complete'
  <2>1. /\ UNCHANGED <<mounted, doc, asked, up, down, handler, cells, log, withheld, disturbed>>
        /\ sock'[c] = "connecting"
        /\ \A d \in Client : d # c => sock'[d] = sock[d] /\ Cur(d)' = Cur(d)
    BY <1>4, ReconnectEffect
  <2> SUFFICES ASSUME NEW k \in Conn, k = Cur(k[1])', mounted'[k[1]], sock'[k[1]] = "open"
               PROVE  \/ Asking(k)'
                      \/ /\ handler'[k].subscribed
                         /\ \A i \in asked'[k[1]] + 1 .. Len(log') : Coming(k, log[i])'
    BY DEF Complete
  <2>2. k[1] # c /\ k = Cur(k[1]) /\ mounted[k[1]] /\ sock[k[1]] = "open"
    BY <1>2, <2>1
  <2>3. Asking(k)' <=> Asking(k)
    BY <2>1 DEF Asking
  <2>4. \A i \in asked[k[1]] + 1 .. Len(log) : Coming(k, log[i])' <=> Coming(k, log[i])
    BY <2>1 DEF Coming, Syncs, Outstanding
  <2> QED
    BY <2>1, <2>2, <2>3, <2>4 DEF Complete
<1>5. ASSUME Closed(c) PROVE Complete'
  <2>1. UNCHANGED <<sock, gen, mounted, doc, asked, up, down, handler, cells, log, withheld,
                    disturbed>>
    BY <1>5, ClosedEffect DEF manager, server, syncService
  <2> QED
    BY <2>1 DEF Complete, Cur, Asking, Coming, Syncs, Outstanding
<1>6. ASSUME Type(c) PROVE Complete'
  <2> DEFINE msg == [type |-> "op", op |-> Len(ops) + 1]
  <2>1. /\ UNCHANGED <<sock, gen, mounted, asked, down, handler, cells, log, withheld, disturbed>>
        /\ msg \in Message
    BY <1>6, TypeEffect
  <2>2. \A d \in Client : doc[d] \subseteq doc'[d]
    BY <1>6, TypeEffect
  <2>3. /\ \A l \in Conn : l # Cur(c) => up'[l] = up[l]
        /\ sock[c] = "open" => up'[Cur(c)] = Append(up[Cur(c)], msg)
        /\ sock[c] # "open" => up'[Cur(c)] = up[Cur(c)]
    BY <1>6, TypeEffect
  <2> HIDE DEF msg
  <2>4. \A l \in Conn : up[l] # <<>> => up'[l] # <<>> /\ up'[l][1] = up[l][1]
    <3>1. up[Cur(c)] \in Seq(Message)
      BY <1>1, <1>2 DEF TypeOK
    <3>2. up[Cur(c)] # <<>> => Append(up[Cur(c)], msg) # <<>> /\ Append(up[Cur(c)], msg)[1] = up[Cur(c)][1]
      BY <2>1, <3>1
    <3> QED
      BY <2>3, <3>2
  <2>5. \A d \in Client : Cur(d)' = Cur(d)
    BY <2>1 DEF Cur
  <2> SUFFICES ASSUME NEW k \in Conn, k = Cur(k[1]), mounted[k[1]], sock[k[1]] = "open"
               PROVE  \/ Asking(k)'
                      \/ /\ handler'[k].subscribed
                         /\ \A i \in asked'[k[1]] + 1 .. Len(log') : Coming(k, log[i])'
    BY <1>2, <2>1, <2>5 DEF Complete
  <2>6. Asking(k) => Asking(k)'
    BY <2>1, <2>4 DEF Asking
  <2>7. \A i \in asked[k[1]] + 1 .. Len(log) : Coming(k, log[i]) => Coming(k, log[i])'
    BY <1>2, <2>1, <2>2 DEF Coming, Syncs, Outstanding
  <2> QED
    BY <2>1, <2>6, <2>7 DEF Complete
<1>7. ASSUME HandleAck(c) PROVE Complete'
  <2>1. /\ UNCHANGED <<sock, gen, mounted, doc, asked, up, handler, cells, log, withheld,
                       disturbed>>
        /\ down[Cur(c)] # <<>> /\ down[Cur(c)][1].type = "ack"
        /\ down'[Cur(c)] = Tail(down[Cur(c)]) /\ \A l \in Conn : l # Cur(c) => down'[l] = down[l]
        /\ TypeOK'
    BY <1>7, HandleAckEffect
  <2>2. \A d \in Client : Cur(d)' = Cur(d)
    BY <2>1 DEF Cur
  <2> SUFFICES ASSUME NEW k \in Conn, k = Cur(k[1]), mounted[k[1]], sock[k[1]] = "open"
               PROVE  \/ Asking(k)'
                      \/ /\ handler'[k].subscribed
                         /\ \A i \in asked'[k[1]] + 1 .. Len(log') : Coming(k, log[i])'
    BY <1>2, <2>1, <2>2 DEF Complete
  <2>3. Asking(k)' <=> Asking(k)
    BY <2>1 DEF Asking
  <2>4. ASSUME NEW i \in asked[k[1]] + 1 .. Len(log), Coming(k, log[i]) PROVE Coming(k, log[i])'
    <3>1. PICK op : op = log[i] /\ op = log'[i]
      BY <2>1
    <3>2. Syncs(k, op) # {} => Syncs(k, op)' # {}
      <4>1. CASE k # Cur(c)
        BY <2>1, <4>1 DEF Syncs
      <4>2. CASE k = Cur(c)
        <5>1. \A n \in Syncs(k, op) : n = 1 \/ n - 1 \in Syncs(k, op)'
          BY <1>1, <2>1, <4>2, TakeFirstSyncs
        <5>2. 1 \notin Syncs(k, op)
          BY <2>1, <4>2 DEF Syncs
        <5> QED
          BY <5>1, <5>2
      <4> QED
        BY <4>1, <4>2
    <3>3. Outstanding(k, op)' <=> Outstanding(k, op)
      BY <2>1 DEF Outstanding
    <3>4. Coming(k, op)'
      BY <2>1, <2>4, <3>1, <3>2, <3>3, StillComing
    <3> QED
      BY <3>1, <3>4 DEF Coming, Syncs, Outstanding
  <2> QED
    BY <2>1, <2>3, <2>4 DEF Complete
<1>8. ASSUME HandleSync(c) PROVE Complete'
  <2> DEFINE msg == down[Cur(c)][1]
  <2>1. /\ UNCHANGED <<sock, gen, mounted, asked, up, handler, cells, log, withheld, disturbed>>
        /\ down[Cur(c)] # <<>> /\ msg.type = "sync" /\ msg.ops \subseteq Range(log)
        /\ doc'[c] = doc[c] \union (msg.ops \ (pendingAcks[c] \union confirmedReqIds[c]))
        /\ \A d \in Client : d # c => doc'[d] = doc[d]
        /\ down'[Cur(c)] = Tail(down[Cur(c)]) /\ \A l \in Conn : l # Cur(c) => down'[l] = down[l]
        /\ TypeOK'
    BY <1>8, HandleSyncEffect
  <2>2. \A d \in Client : Cur(d)' = Cur(d)
    BY <2>1 DEF Cur
  <2>3. msg.ops \subseteq doc'[c]
    <3>1. \A op \in pendingAcks[c] \union confirmedReqIds[c] : op \in doc[c]
      <4>1. \A op \in pendingAcks[c] \union confirmedReqIds[c] : op \in DOMAIN ops
        BY <1>1 DEF TypeOK
      <4> QED
        BY <4>1 DEF BaseInv, OpsKnown
    <3> HIDE DEF msg
    <3> QED
      BY <2>1, <3>1
  <2> SUFFICES ASSUME NEW k \in Conn, k = Cur(k[1]), mounted[k[1]], sock[k[1]] = "open"
               PROVE  \/ Asking(k)'
                      \/ /\ handler'[k].subscribed
                         /\ \A i \in asked'[k[1]] + 1 .. Len(log') : Coming(k, log[i])'
    BY <1>2, <2>1, <2>2 DEF Complete
  <2>4. Asking(k)' <=> Asking(k)
    BY <2>1 DEF Asking
  <2>5. ASSUME NEW i \in asked[k[1]] + 1 .. Len(log), Coming(k, log[i]) PROVE Coming(k, log[i])'
    <3>1. PICK op : op = log[i] /\ op = log'[i]
      BY <2>1
    <3>2. Outstanding(k, op)' <=> Outstanding(k, op)
      BY <2>1 DEF Outstanding
    <3>3. doc[k[1]] \subseteq doc'[k[1]]
      BY <1>2, <2>1
    <3>4. CASE k = Cur(c) /\ op \in msg.ops
      <4>1. op \in doc'[k[1]]
        BY <1>2, <2>3, <3>4
      <4> QED
        BY <3>1, <4>1 DEF Coming
    <3>5. CASE ~(k = Cur(c) /\ op \in msg.ops)
      <4>1. Syncs(k, op) # {} => Syncs(k, op)' # {}
        <5>1. CASE k # Cur(c)
          BY <2>1, <5>1 DEF Syncs
        <5>2. CASE k = Cur(c)
          <6>1. \A n \in Syncs(k, op) : n = 1 \/ n - 1 \in Syncs(k, op)'
            BY <1>1, <2>1, <5>2, TakeFirstSyncs
          <6>2. 1 \notin Syncs(k, op)
            BY <3>5, <5>2 DEF Syncs
          <6> QED
            BY <6>1, <6>2
        <5> QED
          BY <5>1, <5>2
      <4>2. Coming(k, op)'
        BY <2>1, <2>5, <3>1, <3>2, <3>3, <4>1, StillComing
      <4> QED
        BY <3>1, <4>2 DEF Coming, Syncs, Outstanding
    <3> QED
      BY <3>4, <3>5
  <2> QED
    BY <2>1, <2>4, <2>5 DEF Complete
<1>9. ASSUME NEW expired \in BOOLEAN, Accept(c, expired) PROVE Complete'
  <2> DEFINE msg == [type |-> "sync_request", seq |-> lastServerSeq[c]]
  <2>1. /\ UNCHANGED <<mounted, doc, down, cells, log, withheld, disturbed>>
        /\ \A d \in Client : d # c => sock'[d] = sock[d] /\ asked'[d] = asked[d]
        /\ \A d \in Client : Cur(d)' = Cur(d)
        /\ Unused(Cur(c))
        /\ \A l \in Conn : l # Cur(c) => handler'[l] = handler[l] /\ up'[l] = up[l]
        /\ mounted[c] => asked'[c] = lastServerSeq[c] /\ up'[Cur(c)] = <<msg>>
    BY <1>9, AcceptEffect
  <2> SUFFICES ASSUME NEW k \in Conn, k = Cur(k[1]), mounted[k[1]], sock'[k[1]] = "open"
               PROVE  \/ Asking(k)'
                      \/ /\ handler'[k].subscribed
                         /\ \A i \in asked'[k[1]] + 1 .. Len(log') : Coming(k, log[i])'
    BY <1>2, <2>1 DEF Complete
  <2>2. CASE k[1] = c
    <3>1. Asking(k)'
      BY <2>1, <2>2 DEF Asking
    <3> QED
      BY <3>1
  <2>3. CASE k[1] # c
    <3>1. /\ k # Cur(c) /\ handler'[k] = handler[k] /\ up'[k] = up[k] /\ sock[k[1]] = "open"
          /\ asked'[k[1]] = asked[k[1]]
      BY <1>2, <2>1, <2>3
    <3>2. Asking(k)' <=> Asking(k)
      BY <3>1 DEF Asking
    <3>3. ASSUME NEW i \in asked[k[1]] + 1 .. Len(log), Coming(k, log[i]) PROVE Coming(k, log[i])'
      <4>1. PICK op : op = log[i] /\ op = log'[i]
        BY <2>1
      <4>2. op # 0
        <5>1. log \in Seq(OpId) /\ asked[k[1]] \in Nat
          BY <1>1, <1>2 DEF TypeOK
        <5>2. i \in DOMAIN log
          BY <5>1
        <5>3. log[i] \in OpId
          BY <5>1, <5>2
        <5> QED
          BY <4>1, <5>3, SyncAssumption DEF OpId
      <4>3. Outstanding(k, op) => Outstanding(k, op)'
        <5> SUFFICES ASSUME NEW l \in Conn, handler[l].op = op,
                            handler[l].pc \in {"appended", "acked"} \/ k \in Range(cells[l])
                     PROVE  Outstanding(k, op)'
          BY DEF Outstanding
        <5>1. l # Cur(c)
          BY <2>1, <4>2 DEF Unused
        <5> QED
          BY <2>1, <5>1 DEF Outstanding
      <4>4. Syncs(k, op)' = Syncs(k, op)
        BY <2>1 DEF Syncs
      <4>5. Coming(k, op)'
        BY <2>1, <3>1, <3>3, <4>1, <4>3, <4>4, StillComing
      <4> QED
        BY <4>1, <4>5 DEF Coming, Syncs, Outstanding
    <3> QED
      BY <2>1, <3>1, <3>2, <3>3 DEF Complete
  <2> QED
    BY <2>2, <2>3
<1> QED
  BY <1>3, <1>4, <1>5, <1>6, <1>7, <1>8, <1>9 DEF Browser

\* Complete and the server: what it lists, appends or broadcasts is written to the client.
LEMMA CompleteServer ==
    ASSUME BaseInv, Complete, NEW h \in Conn, Handler(h)
    PROVE  Complete'
<1>1. TypeOK
  BY DEF BaseInv
<1>2. /\ \A k \in Conn : k[1] \in Client
      /\ \A k \in Conn : Up(k) <=> sock[k[1]] # "none" /\ k = Cur(k[1])
  BY ConnFacts DEF BaseInv
<1>3. UNCHANGED <<sock, mounted, doc, asked>> /\ \A d \in Client : Cur(d)' = Cur(d)
  BY ServerStep
<1>4. /\ up \in [Conn -> Seq(Message)] /\ log \in Seq(OpId) /\ Len(log) \in Nat
      /\ \A d \in Client : asked[d] \in Nat
  BY <1>1 DEF TypeOK
<1> SUFFICES ASSUME NEW k \in Conn, k = Cur(k[1]), mounted[k[1]], sock[k[1]] = "open"
             PROVE  \/ Asking(k)'
                    \/ /\ handler'[k].subscribed
                       /\ \A i \in asked[k[1]] + 1 .. Len(log') : Coming(k, log[i])'
  BY <1>2, <1>3 DEF Complete
<1>5. Up(k)
  BY <1>2
<1>6. \/ Asking(k)
      \/ handler[k].subscribed /\ \A i \in asked[k[1]] + 1 .. Len(log) : Coming(k, log[i])
  BY DEF Complete
<1>7. \A i \in asked[k[1]] + 1 .. Len(log) : i \in DOMAIN log /\ log[i] \in OpId /\ log[i] # 0
  <2> SUFFICES ASSUME NEW i \in asked[k[1]] + 1 .. Len(log)
               PROVE  i \in DOMAIN log /\ log[i] \in OpId /\ log[i] # 0
    OBVIOUS
  <2>1. asked[k[1]] \in Nat
    BY <1>2, <1>4
  <2>2. i \in DOMAIN log
    BY <1>4, <2>1
  <2>3. log[i] \in OpId
    BY <1>4, <2>2
  <2> QED
    BY <2>2, <2>3, SyncAssumption DEF OpId
<1>8. CASE HandleOp(h) \/ HandleOpFails(h)
  <2> DEFINE new == up[h][1].op
  <2>1. /\ UNCHANGED <<down, disturbed>> /\ handler[h].pc = "read" /\ up[h][1].type = "op"
        /\ new \in OpId
        /\ log' = Append(log, new)
        /\ \A l \in Conn : l # h => up'[l] = up[l]
        /\ \/ handler'[h].pc = "appended" /\ handler'[h].op = new /\ UNCHANGED withheld
           \/ withheld' = withheld \union {new}
        /\ handler'[h].subscribed /\ handler'[h].diff = handler[h].diff
        /\ \A l \in Conn : l # h => handler'[l] = handler[l]
        /\ \A l \in Conn : handler[l].op \notin disturbed' => Range(cells'[l]) = Range(cells[l])
    BY <1>8, HandleOpEffect
  <2> HIDE DEF new
  <2>2. /\ Len(log') = Len(log) + 1 /\ \A i \in DOMAIN log : log'[i] = log[i]
        /\ log'[Len(log) + 1] = new
    BY <1>1, <2>1, AppendLog
  <2>3. handler[h].op = 0
    BY <2>1 DEF BaseInv, HandledOnce
  <2>4. Asking(k) => Asking(k)'
    <3>1. Asking(k) => k # h
      BY <2>1 DEF Asking
    <3> QED
      BY <1>2, <1>3, <2>1, <3>1 DEF Asking
  <2>5. handler[k].subscribed => handler'[k].subscribed
    BY <2>1
  <2>6. ASSUME NEW i \in asked[k[1]] + 1 .. Len(log), Coming(k, log[i]) PROVE Coming(k, log[i])'
    <3>1. PICK op \in OpId : op = log[i] /\ op = log'[i] /\ op # 0
      BY <1>7, <2>2
    <3>2. op \notin withheld' \union disturbed' /\ Outstanding(k, op) => Outstanding(k, op)'
      <4> SUFFICES ASSUME NEW l \in Conn, handler[l].op = op, op \notin disturbed',
                          handler[l].pc \in {"appended", "acked"} \/ k \in Range(cells[l])
                   PROVE  Outstanding(k, op)'
        BY DEF Outstanding
      <4>1. l # h
        BY <2>3, <3>1
      <4>2. handler'[l] = handler[l] /\ Range(cells'[l]) = Range(cells[l])
        BY <2>1, <4>1
      <4> QED
        BY <4>2 DEF Outstanding
    <3>3. Syncs(k, op)' = Syncs(k, op) /\ handler'[k].diff = handler[k].diff
      BY <2>1 DEF Syncs
    <3>4. withheld \subseteq withheld'
      BY <2>1
    <3>5. Coming(k, op)'
      BY <1>3, <2>1, <2>6, <3>1, <3>2, <3>3, <3>4, StillComing
    <3> QED
      BY <3>1, <3>5 DEF Coming, Syncs, Outstanding
  <2>7. ASSUME NEW i \in asked[k[1]] + 1 .. Len(log'), i \notin asked[k[1]] + 1 .. Len(log)
        PROVE  Coming(k, log[i])'
    <3>1. i = Len(log) + 1
      BY <1>2, <1>4, <2>2, <2>7
    <3>2. log'[i] = new
      BY <2>2, <3>1
    <3>3. CASE handler'[h].pc = "appended" /\ handler'[h].op = new
      BY <3>2, <3>3 DEF Coming, Outstanding
    <3>4. CASE withheld' = withheld \union {new}
      BY <3>2, <3>4 DEF Coming
    <3> QED
      BY <2>1, <3>3, <3>4
  <2> QED
    BY <1>6, <2>4, <2>5, <2>6, <2>7
<1>9. CASE AckOp(h)
  <2> DEFINE new == handler[h].op
             msg == [type |-> "ack", op |-> new, seq |-> ServerSeq(new)]
  <2>1. /\ UNCHANGED <<up, cells, log, withheld, disturbed>> /\ msg \in Message
        /\ \A l \in Conn : l # h => handler'[l] = handler[l] /\ down'[l] = down[l]
        /\ down'[h] = Append(down[h], msg) \/ down'[h] = down[h]
        /\ handler'[h].op = new /\ handler'[h].pc = "acked"
        /\ handler'[h].diff = handler[h].diff /\ handler'[h].subscribed = handler[h].subscribed
    BY <1>9, AckOpEffect
  <2>2. msg.type = "ack"
    OBVIOUS
  <2> HIDE DEF msg
  <2>3. Asking(k)' <=> Asking(k)
    BY <1>2, <1>3, <2>1 DEF Asking
  <2>4. ASSUME NEW i \in asked[k[1]] + 1 .. Len(log), Coming(k, log[i]) PROVE Coming(k, log[i])'
    <3>1. PICK op \in OpId : op = log[i] /\ op = log'[i]
      BY <1>7, <2>1
    <3>2. Syncs(k, op)' = Syncs(k, op)
      <4>1. CASE down'[k] = down[k]
        BY <4>1 DEF Syncs
      <4>2. CASE down'[k] = Append(down[k], msg)
        BY <1>1, <2>1, <2>2, <4>2, AddLastSyncs
      <4> QED
        BY <2>1, <4>1, <4>2
    <3>3. Outstanding(k, op) => Outstanding(k, op)'
      BY <2>1 DEF Outstanding
    <3>4. handler'[k].diff = handler[k].diff
      BY <2>1
    <3>5. Coming(k, op)'
      BY <1>3, <2>1, <2>4, <3>1, <3>2, <3>3, <3>4, StillComing
    <3> QED
      BY <3>1, <3>5 DEF Coming, Syncs, Outstanding
  <2>5. handler'[k].subscribed = handler[k].subscribed
    BY <2>1
  <2> QED
    BY <1>6, <2>1, <2>3, <2>4, <2>5
<1>14. CASE RefuseOp(h) \/ Broadcast(h)
  <2> DEFINE new == handler[h].op
  <2>1. /\ UNCHANGED <<up, down, log, disturbed>>
        /\ \A l \in Conn : l # h => handler'[l] = handler[l] /\ cells'[l] = cells[l]
        /\ \/ handler'[h].op = new /\ cells'[h] = list /\ UNCHANGED withheld
           \/ withheld' = withheld \union {new}
        /\ handler'[h].diff = handler[h].diff /\ handler'[h].subscribed = handler[h].subscribed
    BY <1>14, ProjectedEffect
  <2>2. handler[k].subscribed => k \in Range(list)
    BY DEF BaseInv, ListTrue
  <2>3. Asking(k)' <=> Asking(k)
    BY <1>2, <1>3, <2>1 DEF Asking
  <2>4. ASSUME NEW i \in asked[k[1]] + 1 .. Len(log), Coming(k, log[i]), handler[k].subscribed
        PROVE  Coming(k, log[i])'
    <3>1. PICK op \in OpId : op = log[i] /\ op = log'[i]
      BY <1>7, <2>1
    <3>2. Syncs(k, op)' = Syncs(k, op) /\ withheld \subseteq withheld'
      BY <2>1 DEF Syncs
    <3>3. op \notin withheld' \union disturbed' /\ Outstanding(k, op) => Outstanding(k, op)'
      <4> SUFFICES ASSUME NEW l \in Conn, handler[l].op = op, op \notin withheld',
                          handler[l].pc \in {"appended", "acked"} \/ k \in Range(cells[l])
                   PROVE  Outstanding(k, op)'
        BY DEF Outstanding
      <4>1. CASE l = h
        <5>1. handler'[h].op = op /\ k \in Range(cells'[h])
          BY <2>1, <2>2, <2>4, <4>1
        <5> QED
          BY <5>1 DEF Outstanding
      <4>2. CASE l # h
        BY <2>1, <4>2 DEF Outstanding
      <4> QED
        BY <4>1, <4>2
    <3>4. handler'[k].diff = handler[k].diff
      BY <2>1
    <3>5. Coming(k, op)'
      BY <1>3, <2>1, <2>4, <3>1, <3>2, <3>3, <3>4, StillComing
    <3> QED
      BY <3>1, <3>5 DEF Coming, Syncs, Outstanding
  <2>5. handler'[k].subscribed = handler[k].subscribed
    BY <2>1
  <2> QED
    BY <1>6, <2>1, <2>3, <2>4, <2>5
<1>10. CASE ListAfter(h)
  <2> DEFINE seq == up[h][1].seq
  <2>1. /\ UNCHANGED <<down, log, withheld, disturbed>> /\ handler[h].pc = "read" /\ up[h] # <<>>
        /\ \A l \in Conn : l # h => up'[l] = up[l]
        /\ handler'[h].subscribed
        /\ \A i \in seq + 1 .. Len(log) : log[i] \in handler'[h].diff
        /\ \A l \in Conn : handler[l].op \notin disturbed' => Range(cells'[l]) = Range(cells[l])
        /\ \A l \in Conn : l # h => handler'[l] = handler[l]
    BY <1>10, ListAfterEffect
  <2>2. handler[h].diff = {} /\ handler[h].op = 0
    BY <2>1 DEF BaseInv, HandledOnce
  <2>3. CASE k = h /\ Asking(k)
    <3>1. seq = asked[k[1]]
      BY <2>3 DEF Asking
    <3>2. \A i \in asked[k[1]] + 1 .. Len(log) : log[i] \in handler'[k].diff
      BY <2>1, <2>3, <3>1
    <3>3. \A i \in asked[k[1]] + 1 .. Len(log) : Coming(k, log[i])'
      BY <2>1, <3>2 DEF Coming
    <3> QED
      BY <2>1, <2>3, <3>3
  <2>4. CASE k # h /\ Asking(k)
    BY <1>2, <1>3, <2>1, <2>4 DEF Asking
  <2>5. CASE ~Asking(k)
    <3> HIDE DEF seq
    <3>1. ASSUME NEW i \in asked[k[1]] + 1 .. Len(log), Coming(k, log[i]) PROVE Coming(k, log[i])'
      <4>1. PICK op \in OpId : op = log[i] /\ op = log'[i] /\ op # 0
        BY <1>7, <2>1
      <4>2. op \notin withheld' \union disturbed' /\ Outstanding(k, op) => Outstanding(k, op)'
        <5> SUFFICES ASSUME NEW l \in Conn, handler[l].op = op, op \notin disturbed',
                            handler[l].pc \in {"appended", "acked"} \/ k \in Range(cells[l])
                     PROVE  Outstanding(k, op)'
          BY DEF Outstanding
        <5>1. l # h
          BY <2>2, <4>1
        <5>2. handler'[l] = handler[l] /\ Range(cells'[l]) = Range(cells[l])
          BY <2>1, <5>1
        <5> QED
          BY <5>2 DEF Outstanding
      <4>3. Syncs(k, op)' = Syncs(k, op) /\ handler[k].diff \subseteq handler'[k].diff
        BY <2>1, <2>2 DEF Syncs
      <4>4. Coming(k, op)'
        BY <1>3, <2>1, <3>1, <4>1, <4>2, <4>3, StillComing
      <4> QED
        BY <4>1, <4>4 DEF Coming, Syncs, Outstanding
    <3>2. handler[k].subscribed => handler'[k].subscribed
      BY <2>1
    <3> QED
      BY <1>6, <2>1, <2>5, <3>1, <3>2
  <2> QED
    BY <2>3, <2>4, <2>5
<1>11. CASE SendDiff(h)
  <2> DEFINE msg == [type |-> "sync", ops |-> handler[h].diff, seq |-> Len(log)]
  <2>1. /\ UNCHANGED <<up, cells, log, withheld, disturbed>> /\ msg \in Message
        /\ handler[h].pc = "diff"
        /\ \A l \in Conn : l # h => handler'[l] = handler[l] /\ down'[l] = down[l]
        /\ Up(h) => down'[h] = Append(down[h], msg)
        /\ ~Up(h) => down'[h] = down[h]
        /\ handler'[h].subscribed = handler[h].subscribed
    BY <1>11, SendDiffEffect
  <2>2. msg.type = "sync" /\ msg.ops = handler[h].diff
    OBVIOUS
  <2> HIDE DEF msg
  <2>3. handler[h].op = 0
    BY <2>1 DEF BaseInv, HandledOnce
  <2>4. Asking(k)' <=> Asking(k)
    BY <1>2, <1>3, <2>1 DEF Asking
  <2>5. ASSUME NEW i \in asked[k[1]] + 1 .. Len(log), Coming(k, log[i]) PROVE Coming(k, log[i])'
    <3>1. PICK op \in OpId : op = log[i] /\ op = log'[i] /\ op # 0
      BY <1>7, <2>1
    <3>2. op \notin withheld' \union disturbed' /\ Outstanding(k, op) => Outstanding(k, op)'
      <4> SUFFICES ASSUME NEW l \in Conn, handler[l].op = op, op \notin disturbed',
                          handler[l].pc \in {"appended", "acked"} \/ k \in Range(cells[l])
                   PROVE  Outstanding(k, op)'
        BY DEF Outstanding
      <4>1. l # h
        BY <2>3, <3>1
      <4>2. handler'[l] = handler[l] /\ Range(cells'[l]) = Range(cells[l])
        BY <2>1, <4>1
      <4> QED
        BY <4>2 DEF Outstanding
    <3>3. CASE k # h
      <4>1. Syncs(k, op)' = Syncs(k, op) /\ handler'[k].diff = handler[k].diff
        BY <2>1, <3>3 DEF Syncs
      <4>2. Coming(k, op)'
        BY <1>3, <2>1, <2>5, <3>1, <3>2, <4>1, StillComing
      <4> QED
        BY <3>1, <4>2 DEF Coming, Syncs, Outstanding
    <3>4. CASE k = h
      <4>1. /\ op \in handler[k].diff => Syncs(k, op)' # {}
            /\ Syncs(k, op) # {} => Syncs(k, op)' # {}
        <5>1. down'[k] = Append(down[k], msg)
          BY <1>5, <2>1, <3>4
        <5>2. CASE op \in msg.ops
          <6>1. Syncs(k, op)' = Syncs(k, op) \union {Len(down[k]) + 1}
            BY <1>1, <2>1, <2>2, <5>1, <5>2, AddLastSyncs
          <6> QED
            BY <6>1
        <5>3. CASE op \notin msg.ops
          <6>1. Syncs(k, op)' = Syncs(k, op)
            BY <1>1, <2>1, <2>2, <5>1, <5>3, AddLastSyncs
          <6> QED
            BY <2>2, <3>4, <5>3, <6>1
        <5> QED
          BY <5>2, <5>3
      <4>2. Coming(k, op)'
        BY <1>3, <2>1, <2>5, <3>1, <3>2, <4>1 DEF Coming
      <4> QED
        BY <3>1, <4>2 DEF Coming, Syncs, Outstanding
    <3> QED
      BY <3>3, <3>4
  <2>6. handler'[k].subscribed = handler[k].subscribed
    BY <2>1
  <2> QED
    BY <1>6, <2>1, <2>4, <2>5, <2>6
<1>12. CASE HandlerEnds(h)
  <2>1. /\ UNCHANGED <<down, log, withheld>> /\ handler[h].pc = "read" /\ ~Up(h)
        /\ \A l \in Conn : l # h => handler'[l] = handler[l] /\ up'[l] = up[l]
        /\ disturbed \subseteq disturbed'
        /\ \A l \in Conn : handler[l].op \notin disturbed' => Range(cells'[l]) = Range(cells[l])
    BY <1>12, EndEffect
  <2>2. k # h /\ handler'[k] = handler[k] /\ up'[k] = up[k]
    BY <1>5, <2>1
  <2>3. handler[h].op = 0
    BY <2>1 DEF BaseInv, HandledOnce
  <2>4. Asking(k)' <=> Asking(k)
    BY <1>2, <1>3, <2>2 DEF Asking
  <2>5. ASSUME NEW i \in asked[k[1]] + 1 .. Len(log), Coming(k, log[i]) PROVE Coming(k, log[i])'
    <3>1. PICK op \in OpId : op = log[i] /\ op = log'[i] /\ op # 0
      BY <1>7, <2>1
    <3>2. op \notin withheld' \union disturbed' /\ Outstanding(k, op) => Outstanding(k, op)'
      <4> SUFFICES ASSUME NEW l \in Conn, handler[l].op = op, op \notin disturbed',
                          handler[l].pc \in {"appended", "acked"} \/ k \in Range(cells[l])
                   PROVE  Outstanding(k, op)'
        BY DEF Outstanding
      <4>1. l # h
        BY <2>3, <3>1
      <4>2. handler'[l] = handler[l] /\ Range(cells'[l]) = Range(cells[l])
        BY <2>1, <4>1
      <4> QED
        BY <4>2 DEF Outstanding
    <3>3. Syncs(k, op)' = Syncs(k, op)
      BY <2>1 DEF Syncs
    <3>4. Coming(k, op)'
      BY <1>3, <2>1, <2>2, <2>5, <3>1, <3>2, <3>3, StillComing
    <3> QED
      BY <3>1, <3>4 DEF Coming, Syncs, Outstanding
  <2> QED
    BY <1>6, <2>1, <2>2, <2>4, <2>5
<1>13. ASSUME NEW p \in DOMAIN cells[h], BroadcastTo(h, p)
       PROVE  \/ Asking(k)'
              \/ /\ handler'[k].subscribed
                 /\ \A i \in asked[k[1]] + 1 .. Len(log') : Coming(k, log[i])'
  <2> DEFINE new == handler[h].op
             to == cells[h][p]
             msg == [type |-> "sync", ops |-> {new}, seq |-> ServerSeq(new)]
  <2>1. /\ UNCHANGED <<up, log, withheld, disturbed>> /\ handler[h].pc = "broadcast"
        /\ Range(cells[h]) \ {to} \subseteq Range(cells'[h])
        /\ Range(cells'[h]) # {} => handler'[h].op = new
        /\ handler'[h].diff = handler[h].diff /\ handler'[h].subscribed = handler[h].subscribed
        /\ \A l \in Conn : l # h => handler'[l] = handler[l] /\ cells'[l] = cells[l]
    BY <1>13, BroadcastEffect
  <2>6. /\ to \in Conn /\ msg \in Message
        /\ \A l \in Conn : l # to => down'[l] = down[l]
        /\ down'[to] = down[to] \/ down'[to] = Append(down[to], msg)
        /\ Up(to) => down'[to] = Append(down[to], msg)
    BY <1>13, BroadcastWrites
  <2>2. msg.type = "sync" /\ msg.ops = {new}
    OBVIOUS
  <2> HIDE DEF msg, new, to
  <2>3. Asking(k)' <=> Asking(k)
    BY <1>2, <1>3, <2>1 DEF Asking
  <2>4. ASSUME NEW i \in asked[k[1]] + 1 .. Len(log), Coming(k, log[i]) PROVE Coming(k, log[i])'
    <3>1. PICK op \in OpId : op = log[i] /\ op = log'[i] /\ op # 0
      BY <1>7, <2>1
    <3>2. Syncs(k, op) # {} => Syncs(k, op)' # {}
      <4>1. CASE down'[k] = down[k]
        BY <4>1 DEF Syncs
      <4>2. CASE down'[k] = Append(down[k], msg)
        <5>1. Syncs(k, op) \subseteq Syncs(k, op)'
          BY <1>1, <2>6, <4>2, AddLastSyncs
        <5> QED
          BY <5>1
      <4> QED
        BY <2>6, <4>1, <4>2
    <3>3. handler'[k].diff = handler[k].diff
      BY <2>1
    <3>4. CASE Outstanding(k, op) => Outstanding(k, op)'
      <4>1. Coming(k, op)'
        BY <1>3, <2>1, <2>4, <3>1, <3>2, <3>3, <3>4, StillComing, ZenonT(30)
      <4> QED
        BY <3>1, <4>1 DEF Coming, Syncs, Outstanding
    <3>5. CASE Outstanding(k, op) /\ ~Outstanding(k, op)'
      <4>1. PICK l \in Conn : /\ handler[l].op = op
                              /\ handler[l].pc \in {"appended", "acked"} \/ k \in Range(cells[l])
        BY <3>5 DEF Outstanding
      <4>2. l = h
        BY <2>1, <3>5, <4>1 DEF Outstanding
      <4>3. op = new /\ k \in Range(cells[h])
        BY <2>1, <4>1, <4>2 DEF new
      <4>4. k = to
        <5> SUFFICES ASSUME k # to PROVE FALSE
          OBVIOUS
        <5>1. handler'[h].op = op /\ k \in Range(cells'[h])
          BY <2>1, <4>3
        <5> QED
          BY <3>5, <5>1 DEF Outstanding
      <4>5. down'[k] = Append(down[k], msg)
        BY <1>5, <2>6, <4>4
      <4>6. Syncs(k, op)' = Syncs(k, op) \union {Len(down[k]) + 1}
        BY <1>1, <2>6, <2>2, <4>3, <4>5, AddLastSyncs
      <4>7. Syncs(k, op)' # {}
        BY <4>6
      <4>8. Coming(k, op)'
        BY <4>7 DEF Coming
      <4> QED
        BY <3>1, <4>8 DEF Coming, Syncs, Outstanding
    <3> QED
      BY <3>4, <3>5
  <2>5. handler'[k].subscribed = handler[k].subscribed
    BY <2>1
  <2> QED
    BY <1>6, <2>1, <2>3, <2>4, <2>5
<1> QED
  BY <1>8, <1>9, <1>10, <1>11, <1>12, <1>13, <1>14 DEF Handler

(***************************************************************************)
(* No operation falls between a diff and the broadcasts: a connected       *)
(* client that has read all there is has every operation of the log above  *)
(* the mark it asked with, but for those that were never broadcast or      *)
(* whose broadcast an Unsubscribe disturbed.                               *)
(***************************************************************************)
THEOREM NothingFallsBetween == Spec => []QuietClientComplete
<1> DEFINE Inv == BaseInv /\ Complete
<1>1. Init => Inv
  <2> SUFFICES ASSUME Init PROVE Inv
    OBVIOUS
  <2>1. BaseInv
    BY BaseInit
  <2>2. \A c \in Client : sock[c] = "connecting"
    BY DEF Init
  <2>3. \A k \in Conn : k[1] \in Client
    BY DEF Conn
  <2> QED
    BY <2>1, <2>2, <2>3 DEF Complete
<1>2. ASSUME Inv, [Next]_vars PROVE Inv'
  <2>1. BaseInv'
    BY <1>2, BaseStep
  <2>2. CASE Next
    BY <1>2, <2>1, <2>2, CompleteBrowser, CompleteServer DEF Next
  <2>3. CASE UNCHANGED vars
    <3>1. UNCHANGED <<sock, gen, mounted, doc, asked, up, down, handler, cells, log, withheld,
                    disturbed>>
      BY <2>3 DEF vars, wsClient, manager, server, syncService
    <3> QED
      BY <1>2, <2>1, <3>1 DEF Complete, Cur, Asking, Coming, Syncs, Outstanding
  <2> QED
    BY <1>2, <2>2, <2>3
<1>3. Inv => QuietClientComplete
  <2> SUFFICES ASSUME Inv, NEW c \in Client, Quiet(c), NEW i \in asked[c] + 1 .. Len(log)
               PROVE  log[i] \in doc[c] \union withheld \union disturbed
    BY DEF QuietClientComplete
  <2>1. TypeOK /\ Cur(c) \in Conn /\ Cur(c)[1] = c
    BY ConnFacts DEF BaseInv
  <2>2. /\ mounted[c] /\ sock[c] = "open" /\ up[Cur(c)] = <<>> /\ DOMAIN down[Cur(c)] = {}
        /\ \A k \in Conn : handler[k].pc \in {"none", "read", "ended"}
    BY DEF Quiet
  <2>3. Coming(Cur(c), log[i])
    BY <2>1, <2>2 DEF Complete, Asking
  <2>4. Syncs(Cur(c), log[i]) = {}
    BY <2>2 DEF Syncs
  <2>5. handler[Cur(c)].diff = {} /\ \A k \in Conn : handler[k].op = 0
    BY <2>1, <2>2 DEF BaseInv, HandledOnce
  <2>6. log[i] # 0
    <3>1. log \in Seq(OpId) /\ asked[c] \in Nat
      BY <2>1 DEF TypeOK
    <3>2. i \in DOMAIN log
      BY <3>1
    <3>3. log[i] \in OpId
      BY <3>1, <3>2
    <3> QED
      BY <3>3, SyncAssumption DEF OpId
  <2>7. ~Outstanding(Cur(c), log[i])
    BY <2>5, <2>6 DEF Outstanding
  <2> QED
    BY <2>1, <2>3, <2>4, <2>5, <2>7 DEF Coming
<1> QED
  BY <1>1, <1>2, <1>3, PTL DEF Spec
=============================================================================
