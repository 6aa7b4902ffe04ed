---------------------------- MODULE FlourishSync ----------------------------
(***************************************************************************)
(* How the browsers that edit one entry of flourish stay in step with the  *)
(* server (cockpit/src/sync: sync-manager.ts, ws-client.ts; cockpit/src/   *)
(* hooks/use-document.ts; server: handler/ws.go,                           *)
(* application/sync_service.go, auth/ticket.go).                           *)
(*                                                                         *)
(* Each connection is a pair of FIFO channels and a handler goroutine on   *)
(* the server.  A connection that breaks loses what the server has written *)
(* and the client has not read; the handler may still read what the client *)
(* had sent.  Operations are numbers; what the projector makes of one is a *)
(* choice here (module EntryProjector): one that is refused stays in the   *)
(* log and acknowledged, but is not broadcast.  auth_status only decides   *)
(* which deletes a client types, and is left out.                          *)
(*                                                                         *)
(* The list of subscribers is the slice of module Subscribers: Broadcast   *)
(* walks an array that Subscribe and Unsubscribe write to.  Here each of   *)
(* these two is one step, and a cell that the walk has still to read is    *)
(* read before or after the write, so the walk finds either content.       *)
(***************************************************************************)
EXTENDS Integers, Sequences, SequencesExt, FiniteSets

CONSTANTS
    Client,
    LoggedIn,      \* the clients whose users are logged in
    MaxConns,      \* bound: connections of one client
    MaxOps,        \* bound: operations typed by all clients
    MaxFaults      \* bound: connections lost, appends and projections failed,
                   \* documents left and tickets too old

ASSUME SyncAssumption ==
    /\ MaxConns \in Nat \ {0} /\ MaxOps \in Nat /\ MaxFaults \in Nat
    /\ LoggedIn \subseteq Client

VARIABLES
    sock,          \* WSClient.ws: none, connecting or open
    gen,           \* number of the client's last connection
    timer,         \* reconnectTimer is set
    closing,       \* disconnect closed the socket, its onclose has not run
    mounted,       \* the document is shown; SyncManager's handler is installed
    lastServerSeq, pendingAcks, confirmedReqIds,
    doc,           \* the operations applied to the client's RGA
    ops,           \* for each operation typed, its client
    up, down,      \* the channels of each connection
    handler,       \* the server's goroutine of each connection
    list,          \* SyncService.subscribers[entry]
    cap,           \* the capacity of the list's array
    cells,         \* Broadcast: what the array cells hold that it has still to read
    live,          \* Broadcasts that walk the list's present array
    log,           \* the event store's events of the entry; server_seq is the index
    withheld,      \* operations logged and not broadcast
    disturbed,     \* operations during whose broadcast someone unsubscribed
    tickets,       \* clients whose ticket is in the TicketStore
    faults,        \* how many faults there were
    left,          \* history: disconnect was called
    asked,         \* history: last_server_seq in the client's last sync_request
    reapplied      \* history: the client's own operations that it applied again

wsClient == <<sock, gen, timer, closing, mounted, left>>
manager == <<lastServerSeq, pendingAcks, confirmedReqIds, doc, asked, reapplied>>
syncService == <<list, cap, cells, live>>
server == <<handler, syncService, log, withheld, disturbed, tickets>>
vars == <<wsClient, manager, ops, up, down, server, faults>>

Conn == Client \X (1 .. MaxConns)
OpId == 1 .. MaxOps
Seqs == 0 .. MaxOps

\* The client's present connection.
Cur(c) == <<c, gen[c]>>

\* The socket of connection k is still the client's.
Up(k) == sock[k[1]] # "none" /\ gen[k[1]] = k[2]

Message ==
    [type : {"op"}, op : OpId] \union [type : {"sync_request"}, seq : Seqs]
    \union [type : {"ack"}, op : OpId, seq : Seqs]
    \union [type : {"sync"}, ops : SUBSET OpId, seq : Seqs]

TypeOK ==
    /\ sock \in [Client -> {"none", "connecting", "open"}]
    /\ gen \in [Client -> 0 .. MaxConns]
    /\ {timer, closing, mounted, left} \subseteq [Client -> BOOLEAN]
    /\ {lastServerSeq, asked} \subseteq [Client -> 0 .. Len(log)]
    /\ {pendingAcks, confirmedReqIds, doc, reapplied} \subseteq [Client -> SUBSET DOMAIN ops]
    /\ ops \in Seq(Client) /\ Len(ops) <= MaxOps
    /\ {up, down} \subseteq [Conn -> Seq(Message)]
    /\ handler \in [Conn -> [pc : {"none", "read", "diff", "appended", "acked", "broadcast", "ended"},
                             subscribed : BOOLEAN, authenticated : BOOLEAN,
                             op : 0 .. MaxOps, diff : SUBSET OpId]]
    /\ list \in Seq(Conn) /\ IsInjective(list) /\ cap \in Nat
    /\ DOMAIN cells = Conn
    /\ \A k \in Conn : DOMAIN cells[k] \subseteq Nat /\ Range(cells[k]) \subseteq Conn
    /\ live \subseteq Conn
    /\ log \in Seq(OpId) /\ IsInjective(log)
    /\ withheld \subseteq OpId /\ disturbed \subseteq OpId
    /\ tickets \subseteq Client
    /\ faults \in 0 .. MaxFaults

\* useDocument has fetched tickets, for users who are logged in, and called connect.
Init ==
    /\ sock = [c \in Client |-> "connecting"]
    /\ gen = [c \in Client |-> 1]
    /\ timer = [c \in Client |-> FALSE]
    /\ closing = [c \in Client |-> FALSE]
    /\ mounted = [c \in Client |-> TRUE]
    /\ lastServerSeq = [c \in Client |-> 0]
    /\ pendingAcks = [c \in Client |-> {}]
    /\ confirmedReqIds = [c \in Client |-> {}]
    /\ doc = [c \in Client |-> {}]
    /\ ops = <<>>
    /\ up = [k \in Conn |-> <<>>] /\ down = [k \in Conn |-> <<>>]
    /\ handler = [k \in Conn |-> [pc |-> "none", subscribed |-> FALSE, authenticated |-> FALSE,
                                  op |-> 0, diff |-> {}]]
    /\ list = <<>> /\ cap = 0
    /\ cells = [k \in Conn |-> <<>>] /\ live = {}
    /\ log = <<>> /\ withheld = {} /\ disturbed = {}
    /\ tickets = LoggedIn
    /\ faults = 0
    /\ left = [c \in Client |-> FALSE]
    /\ asked = [c \in Client |-> 0]
    /\ reapplied = [c \in Client |-> {}]

-----------------------------------------------------------------------------
\* WSClient.send: dropped unless the socket is open.
Send(c, msg) == up' = IF sock[c] = "open" THEN [up EXCEPT ![Cur(c)] = Append(@, msg)] ELSE up

\* The connection breaks; onclose runs and sets the timer.
Lose(c) ==
    /\ sock[c] # "none" /\ faults < MaxFaults
    /\ sock' = [sock EXCEPT ![c] = "none"]
    /\ timer' = [timer EXCEPT ![c] = TRUE]
    /\ down' = [down EXCEPT ![Cur(c)] = <<>>]
    /\ faults' = faults + 1
    /\ UNCHANGED <<gen, closing, mounted, left, manager, ops, up, server>>

\* The timer fires: connect makes a new socket.
Reconnect(c) ==
    /\ timer[c] /\ sock[c] = "none" /\ gen[c] < MaxConns
    /\ timer' = [timer EXCEPT ![c] = FALSE]
    /\ sock' = [sock EXCEPT ![c] = "connecting"]
    /\ gen' = [gen EXCEPT ![c] = @ + 1]
    /\ UNCHANGED <<closing, mounted, left, manager, ops, up, down, server, faults>>

Disconnect_KeepsHandler(c) ==                                      \* mutant
    /\ mounted[c] /\ faults < MaxFaults
    /\ faults' = faults + 1
    /\ timer' = [timer EXCEPT ![c] = FALSE]
    /\ closing' = [closing EXCEPT ![c] = sock[c] # "none"]
    /\ sock' = [sock EXCEPT ![c] = "none"]
    /\ down' = [down EXCEPT ![Cur(c)] = <<>>]
    /\ left' = [left EXCEPT ![c] = TRUE]
    /\ UNCHANGED <<gen, mounted, manager, ops, up, server>>

(***************************************************************************)
(* disconnect, when the document is left: the handler goes and the timer   *)
(* is cleared.  The socket's onclose is still to come, and sets the timer  *)
(* again.                                                                  *)
(***************************************************************************)
Disconnect(c) ==
    /\ mounted[c] /\ faults < MaxFaults
    /\ faults' = faults + 1
    /\ mounted' = [mounted EXCEPT ![c] = FALSE]
    /\ timer' = [timer EXCEPT ![c] = FALSE]
    /\ closing' = [closing EXCEPT ![c] = sock[c] # "none"]
    /\ sock' = [sock EXCEPT ![c] = "none"]
    /\ down' = [down EXCEPT ![Cur(c)] = <<>>]
    /\ left' = [left EXCEPT ![c] = TRUE]
    /\ UNCHANGED <<gen, manager, ops, up, server>>

Closed(c) ==
    /\ closing[c]
    /\ closing' = [closing EXCEPT ![c] = FALSE]
    /\ timer' = [timer EXCEPT ![c] = TRUE]
    /\ UNCHANGED <<sock, gen, mounted, left, manager, ops, up, down, server, faults>>

\* insert and delete: applied at once, remembered, and sent if the socket is open.
Type(c) ==
    LET op == Len(ops) + 1
    IN  /\ mounted[c] /\ Len(ops) < MaxOps
        /\ ops' = Append(ops, c)
        /\ doc' = [doc EXCEPT ![c] = @ \union {op}]
        /\ pendingAcks' = [pendingAcks EXCEPT ![c] = @ \union {op}]
        /\ Send(c, [type |-> "op", op |-> op])
        /\ UNCHANGED <<wsClient, lastServerSeq, confirmedReqIds, asked, reapplied, down, server,
                       faults>>

Seen_Next(c, seq) == lastServerSeq' = [lastServerSeq EXCEPT ![c] = seq + 1]     \* mutant

\* The mark follows the highest sequence number that the server mentions.
Seen(c, seq) == lastServerSeq' = [lastServerSeq EXCEPT ![c] = IF seq > @ THEN seq ELSE @]

HandleAck(c) ==
    /\ mounted[c] /\ sock[c] = "open"
    /\ down[Cur(c)] # <<>> /\ Head(down[Cur(c)]).type = "ack"
    /\ LET msg == Head(down[Cur(c)])
       IN  /\ confirmedReqIds' = [confirmedReqIds EXCEPT ![c] = @ \union {msg.op}]
           /\ pendingAcks' = [pendingAcks EXCEPT ![c] = @ \ {msg.op}]
           /\ Seen(c, msg.seq)
    /\ down' = [down EXCEPT ![Cur(c)] = Tail(@)]
    /\ UNCHANGED <<wsClient, doc, asked, reapplied, ops, up, server, faults>>

Own_PendingOnly(c) == pendingAcks[c]                               \* mutant

\* The operations of a sync message that are the client's own, as far as it knows.
Own(c) == pendingAcks[c] \union confirmedReqIds[c]

\* Its own are skipped (a confirmed one only once), the others applied.
HandleSync(c) ==
    /\ mounted[c] /\ sock[c] = "open"
    /\ down[Cur(c)] # <<>> /\ Head(down[Cur(c)]).type = "sync"
    /\ LET msg == Head(down[Cur(c)])
           fresh == msg.ops \ Own(c)
       IN  /\ confirmedReqIds' = [confirmedReqIds EXCEPT ![c] =
                                     @ \ (msg.ops \ pendingAcks[c])]
           /\ doc' = [doc EXCEPT ![c] = @ \union fresh]
           /\ reapplied' = [reapplied EXCEPT ![c] = @ \union {op \in fresh : ops[op] = c}]
           /\ Seen(c, msg.seq)
    /\ down' = [down EXCEPT ![Cur(c)] = Tail(@)]
    /\ UNCHANGED <<wsClient, pendingAcks, asked, ops, up, server, faults>>

-----------------------------------------------------------------------------
Redeem_KeepsTicket(c) == UNCHANGED tickets                         \* mutant

\* Redeem takes the ticket out of the store.
Redeem(c) == tickets' = tickets \ {c}

\* onopen: SyncManager's handler, if there is one, sends a sync_request.
SendSyncRequest(c) ==
    IF mounted[c]
    THEN /\ asked' = [asked EXCEPT ![c] = lastServerSeq[c]]
         /\ up' = [up EXCEPT ![Cur(c)] =
                       <<[type |-> "sync_request", seq |-> lastServerSeq[c]]>>]
    ELSE UNCHANGED <<asked, up>>

(***************************************************************************)
(* ServeHTTP accepts the client's connection; a reconnect comes with the   *)
(* same URL and so the same ticket, and a ticket that is there may be too  *)
(* old.  The client's onopen runs.                                         *)
(***************************************************************************)
Accept(c, expired) ==
    LET k == Cur(c)
    IN  /\ sock[c] = "connecting"
        /\ expired => c \in tickets /\ faults < MaxFaults
        /\ faults' = IF expired THEN faults + 1 ELSE faults
        /\ handler' = [handler EXCEPT ![k].pc = "read",
                                      ![k].authenticated = c \in tickets /\ ~expired]
        /\ Redeem(c)
        /\ sock' = [sock EXCEPT ![c] = "open"]
        /\ SendSyncRequest(c)
        /\ UNCHANGED <<gen, timer, closing, mounted, left, lastServerSeq, pendingAcks,
                       confirmedReqIds, doc, reapplied, ops, down, syncService, log, withheld,
                       disturbed>>

\* A write to connection k, lost when the client is gone.
Write(k, msg) == down' = IF Up(k) THEN [down EXCEPT ![k] = Append(@, msg)] ELSE down

Receives(k, type) == handler[k].pc = "read" /\ up[k] # <<>> /\ Head(up[k]).type = type

(***************************************************************************)
(* The list becomes subs, by writes to some cells of its array; the cells  *)
(* of late are those that a walk of the array reads after they are written.*)
(***************************************************************************)
Store(subs, written) ==
    /\ list' = subs
    /\ \E late \in SUBSET {w \in live \X written : w[2] \in DOMAIN cells[w[1]]} :
           cells' = [l \in Conn |->
                        [p \in DOMAIN cells[l] |->
                            IF <<l, p>> \in late THEN subs[p] ELSE cells[l][p]]]

\* append: in place while there is room, else into a new array of twice the capacity.
Subscribe(k) ==
    \/ /\ Len(list) < cap
       /\ Store(Append(list, k), {Len(list) + 1})
       /\ UNCHANGED <<cap, live>>
    \/ /\ Len(list) = cap
       /\ list' = Append(list, k)
       /\ cap' = IF cap = 0 THEN 1 ELSE 2 * cap
       /\ live' = {}
       /\ UNCHANGED cells

ensureSubscribed(k) == IF handler[k].subscribed THEN UNCHANGED syncService ELSE Subscribe(k)

\* The tail of the list moves down in place; the array's last cell keeps what it held.
Unsubscribe(k) ==
    /\ \E i \in DOMAIN list :
           /\ list[i] = k
           /\ Store(RemoveAt(list, i), i .. Len(list) - 1)
    /\ disturbed' = disturbed \union {handler[l].op : l \in live}
    /\ UNCHANGED <<cap, live>>

\* handleOp: ensureSubscribed, and HandleOp appends to the event store.
HandleOp(k) ==
    /\ Receives(k, "op")
    /\ handler' = [handler EXCEPT ![k].pc = "appended", ![k].subscribed = TRUE,
                                  ![k].op = Head(up[k]).op]
    /\ ensureSubscribed(k)
    /\ log' = Append(log, Head(up[k]).op)
    /\ up' = [up EXCEPT ![k] = Tail(@)]
    /\ UNCHANGED <<wsClient, manager, ops, down, withheld, disturbed, tickets, faults>>

(***************************************************************************)
(* Append fails to write the file: the event stays in the store's memory,  *)
(* where ListAfter finds it (module EventStore), and the client, which is  *)
(* told, only logs the error.                                              *)
(***************************************************************************)
HandleOpFails(k) ==
    /\ Receives(k, "op") /\ faults < MaxFaults
    /\ handler' = [handler EXCEPT ![k].subscribed = TRUE]
    /\ ensureSubscribed(k)
    /\ log' = Append(log, Head(up[k]).op)
    /\ withheld' = withheld \union {Head(up[k]).op}
    /\ up' = [up EXCEPT ![k] = Tail(@)]
    /\ faults' = faults + 1
    /\ UNCHANGED <<wsClient, manager, ops, down, disturbed, tickets>>

ServerSeq(op) == CHOOSE i \in DOMAIN log : log[i] = op

\* The ack is written before anything else is done with the operation.
AckOp(k) ==
    LET op == handler[k].op
    IN  /\ handler[k].pc = "appended"
        /\ Write(k, [type |-> "ack", op |-> op, seq |-> ServerSeq(op)])
        /\ handler' = [handler EXCEPT ![k].pc = "acked"]
        /\ UNCHANGED <<wsClient, manager, ops, up, syncService, log, withheld, disturbed, tickets,
                       faults>>

(***************************************************************************)
(* The projector returns false and nothing is broadcast: it refuses a      *)
(* guest's operation, or the entry is deleted or its write fails.          *)
(***************************************************************************)
RefuseOp(k) ==
    /\ handler[k].pc = "acked"
    /\ \/ ~handler[k].authenticated /\ UNCHANGED faults
       \/ faults < MaxFaults /\ faults' = faults + 1
    /\ handler' = [handler EXCEPT ![k].pc = "read", ![k].op = 0]
    /\ withheld' = withheld \union {handler[k].op}
    /\ UNCHANGED <<wsClient, manager, ops, up, down, syncService, log, disturbed, tickets>>

\* The projector has applied it; Broadcast reads the list's header under the lock.
Broadcast(k) ==
    /\ handler[k].pc = "acked"
    /\ handler' = [handler EXCEPT ![k].pc = "broadcast"]
    /\ cells' = [cells EXCEPT ![k] = list]
    /\ live' = live \union {k}
    /\ UNCHANGED <<wsClient, manager, ops, up, down, list, cap, log, withheld, disturbed, tickets,
                   faults>>

(***************************************************************************)
(* Broadcast reads one cell after the other and sends to the subscriber it *)
(* finds there, its own connection's included.  An Unsubscribe meanwhile   *)
(* may make it skip a subscriber, or send to one twice.                    *)
(***************************************************************************)
BroadcastTo(k, p) ==
    LET op == handler[k].op
        rest == DOMAIN cells[k] \ {p}
    IN  /\ handler[k].pc = "broadcast"
        /\ p \in DOMAIN cells[k] /\ \A q \in rest : p < q
        /\ Write(cells[k][p], [type |-> "sync", ops |-> {op}, seq |-> ServerSeq(op)])
        /\ cells' = [cells EXCEPT ![k] = [q \in rest |-> cells[k][q]]]
        /\ IF rest = {}
           THEN /\ handler' = [handler EXCEPT ![k].pc = "read", ![k].op = 0]
                /\ live' = live \ {k}
           ELSE UNCHANGED <<handler, live>>
        /\ UNCHANGED <<wsClient, manager, ops, up, list, cap, log, withheld, disturbed, tickets,
                       faults>>

ListAfter_NotSubscribed(k) ==                                      \* mutant
    /\ Receives(k, "sync_request")
    /\ handler' = [handler EXCEPT ![k].pc = "diff",
                       ![k].diff = Range(SubSeq(log, Head(up[k]).seq + 1, Len(log)))]
    /\ up' = [up EXCEPT ![k] = Tail(@)]
    /\ UNCHANGED <<wsClient, manager, ops, down, syncService, log, withheld, disturbed, tickets,
                   faults>>

\* handleSyncRequest: ensureSubscribed, then the first half of GetDiff.
ListAfter(k) ==
    /\ Receives(k, "sync_request")
    /\ handler' = [handler EXCEPT ![k].pc = "diff", ![k].subscribed = TRUE,
                       ![k].diff = Range(SubSeq(log, Head(up[k]).seq + 1, Len(log)))]
    /\ ensureSubscribed(k)
    /\ up' = [up EXCEPT ![k] = Tail(@)]
    /\ UNCHANGED <<wsClient, manager, ops, down, log, withheld, disturbed, tickets, faults>>

\* The second half: MaxServerSeq is read now, and the answer written.
SendDiff(k) ==
    /\ handler[k].pc = "diff"
    /\ Write(k, [type |-> "sync", ops |-> handler[k].diff, seq |-> Len(log)])
    /\ handler' = [handler EXCEPT ![k].pc = "read", ![k].diff = {}]
    /\ UNCHANGED <<wsClient, manager, ops, up, syncService, log, withheld, disturbed, tickets,
                   faults>>

\* The read fails and the deferred function unsubscribes; unread messages are lost.
HandlerEnds(k) ==
    /\ handler[k].pc = "read" /\ ~Up(k)
    /\ handler' = [handler EXCEPT ![k].pc = "ended", ![k].subscribed = FALSE]
    /\ up' = [up EXCEPT ![k] = <<>>]
    /\ IF handler[k].subscribed THEN Unsubscribe(k) ELSE UNCHANGED <<syncService, disturbed>>
    /\ UNCHANGED <<wsClient, manager, ops, down, log, withheld, tickets, faults>>

Browser(c) ==
    \/ \E expired \in BOOLEAN : Accept(c, expired)
    \/ Lose(c) \/ Reconnect(c) \/ Disconnect(c) \/ Closed(c)
    \/ Type(c) \/ HandleAck(c) \/ HandleSync(c)

Handler(k) ==
    \/ HandleOp(k) \/ HandleOpFails(k) \/ AckOp(k) \/ RefuseOp(k)
    \/ Broadcast(k) \/ (\E p \in DOMAIN cells[k] : BroadcastTo(k, p))
    \/ ListAfter(k) \/ SendDiff(k) \/ HandlerEnds(k)

Next == (\E c \in Client : Browser(c)) \/ (\E k \in Conn : Handler(k))

Spec == Init /\ [][Next]_vars

-----------------------------------------------------------------------------
\* Nothing is on the way to client c and nobody is in the middle of a broadcast.
Quiet(c) ==
    /\ mounted[c] /\ sock[c] = "open"
    /\ up[Cur(c)] = <<>> /\ down[Cur(c)] = <<>>
    /\ \A k \in Conn : handler[k].pc \in {"none", "read", "ended"}

(***************************************************************************)
(* No operation falls between the diff and the broadcasts: a client that   *)
(* is connected and has read all there is has every operation in the log   *)
(* above the mark it last asked with, in whatever order its diff was       *)
(* listed, its subscription made, others appended and the connection lost  *)
(* and made again.  Excepted are operations that were never broadcast      *)
(* (refused, or their write failed) and those whose broadcast an           *)
(* Unsubscribe disturbed.                                                  *)
(***************************************************************************)
QuietClientComplete ==
    \A c \in Client : Quiet(c) =>
        \A i \in asked[c] + 1 .. Len(log) : log[i] \in doc[c] \union withheld \union disturbed

(***************************************************************************)
(* The client's own operations come back to it in broadcasts and diffs, on *)
(* this connection or a later one, before or after their ack: none is ever *)
(* applied to its document a second time, except one whose broadcast an    *)
(* Unsubscribe disturbed.                                                  *)
(***************************************************************************)
OwnNotReapplied == \A c \in Client : reapplied[c] \subseteq disturbed

\* A ticket logs in one connection at most, however often the client reconnects.
TicketOnce ==
    \A k, l \in Conn :
        k[1] = l[1] /\ handler[k].authenticated /\ handler[l].authenticated => k = l

(***************************************************************************)
(* disconnect leaves a socket that reconnects again and again; without a   *)
(* handler it never asks for anything, so that a document that was left    *)
(* has no subscription once its last connection's handler has ended.       *)
(***************************************************************************)
LeftNotSubscribed ==
    \A c \in Client : left[c] /\ sock[c] = "open" =>
        ~handler[Cur(c)].subscribed

=============================================================================
