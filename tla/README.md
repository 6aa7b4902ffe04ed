# A TLA+ model of tanzlaurel

The repository holds two programs. *flourish* is a collaborative blog: browsers edit an entry
as a CRDT, a Go server orders, stores and relays the operations. *withered* is a small
multiplayer shooter with a Go game server. This project models the core of both: for flourish
the way of an operation from the browser through the event store, the projector and the
broadcast to the other browsers, with crashes, failed writes and broken connections; for
withered the goroutines of a session, the room and its publish/subscribe service, the game
world and the scheduler of its systems.

## The system

### flourish

    browser --ws--> WS.handleOp --> EventStore.Append --> ACK
                        |
                        +--> EntryProjector.Apply --> RGA, EntryStore, RGAStateStore, markdown
                        |
                        +--> SyncService.Broadcast --> every subscribed browser

| Part | State | Operations | What makes it correct |
| --- | --- | --- | --- |
| Event store (`adapter/jsonfile/event_store.go`) | a JSON-lines file per entry; in memory the events, the counter per entry, the request ids seen | `NewEventStore`/`loadAll`, `Append`, `ListAfter`, `MaxServerSeq` | numbers increase, request ids are unique, acknowledged events survive |
| RGA (`domain/crdt/crdt.go`, twin `cockpit/src/crdt/rga.ts`) | node list with tombstones, index, Lamport clock, seen set, pending buffer | `Apply`, `Insert`, `Delete`, `Export`, `ImportRGA` | replicas that saw the same operations show the same text; what was typed stays where it was typed |
| Entry projector (`application/entry_projector.go`) | one RGA per entry behind a mutex | `Apply`, `Restore` | entry and markdown show the RGA; nothing logged is forgotten; guests cannot delete an author's text |
| Entry store (`entry_store.go`), RGA state store (`rga_state_store.go`) | `entries.json` mirrored in memory; one snapshot file per entry | `Save`, `FindByID`, `List`, `Delete`; `SaveRGA`, `LoadRGA` | deleted stays deleted; a broken snapshot is survivable |
| Sync service (`application/sync_service.go`) | subscriber slice per entry | `Subscribe`, `Unsubscribe`, `HandleOp`, `Broadcast`, `GetDiff` | every subscriber gets every operation, by broadcast or by diff |
| WebSocket handler (`handler/ws.go`) | one goroutine per connection, its authentication, its subscriptions | `handleOp`, `handleSyncRequest`, `ensureSubscribed` | the order append, ACK, project, broadcast; subscribe before diff |
| Tickets (`auth/ticket.go`) | open tickets with expiry | `Issue`, `Redeem` | each ticket is used at most once |
| Browser (`sync-manager.ts`, `ws-client.ts`, `use-document.ts`) | RGA, high-water mark, unacknowledged and confirmed requests, socket, reconnect timer | `insert`, `delete`, `handleMessage`, `connect`, `disconnect`, reconnect | nothing falls between diff and broadcasts; its own operations are not applied twice |

What is hard: one goroutine per connection and three locks (event store, projector, entry
store) that are taken one after the other; a broadcast that walks a slice after giving back its
lock; files written in several steps with crashes and errors between; operations that arrive
twice, late, or before the node they refer to; a client whose mark, timers and sockets live
on while connections come and go.

### withered

| Part | State | Operations | What makes it correct |
| --- | --- | --- | --- |
| Session endpoint, session, heartbeat (`domain/session_endpoint.go`, `session.go`, `heartbeat_service.go`) | control queue (16), write queue (1024), current room, closed flag, three activity stamps | owner, read, write, subscribe and heartbeat loops, `close` | closed once; all loops end; the room hears of the leave |
| Pub/sub (`domain/simple_pubsub.go`) | channels per topic (buffer 1024) | `Subscribe`, `Unsubscribe`, `Publish` | best effort, but no send on a closed channel |
| Room (`domain/room.go`, `session_registry.go`, `broadcaster.go`) | member set, send queue | tick: receive, send, `Tick`, broadcast | members are the sessions that joined and have not left; nobody's frame depends on another's channel |
| World (`application/world.go`, `phase.go`) | entities and component maps, session to entity | respawn, move, shoot, collide, clean up, `OnJoin`, `OnLeave` | one entity per session, component maps agree |
| Scheduler (`application/schedular.go`) | systems per phase | `NewScheduler`, `RunTick` | an order that respects phases and dependencies, or an error |
| Wire formats (`domain/protocol`, `application/protocol`) | none | varint, headers | decode inverts encode |

    peer --ws--> read goroutine --Publish--> room topic --> Room.HandleMessage --> World
    peer <--ws-- write goroutine <-- writeCh <-- session topic <--Publish-- Room.Tick

What is hard: five goroutines per session that share a field without a lock and channels that
may be full or closed; a publication whose lookup and send are two steps; a room that hears of
sessions only by messages that may be dropped; tables that must agree over every order of
joins, leaves, shots and hits.

`PROJECT.json` lists the hazards of both programs at their lines.

## Modules

| Module | Models |
| --- | --- |
| `EventStore` | the JSON-lines store: `Append` with its three endings (stored, duplicate, failed write), `loadAll` line by line, crashes outside and inside a write |
| `EventLog` | what `domain.EventStore` promises: an append-only log with rising numbers and unique requests; `EventStore` is shown to implement it |
| `RGA` | the CRDT as operators on a replica's state |
| `RGAReplication` | replicas exchanging operations over a network that delays, reorders and repeats, with snapshots and restarts of the server; the reference definition of the document |
| `EntryProjector` | `handleOp` from the append to the broadcast, one step per lock or file write, with concurrent connections, entry deletion, failed and torn writes, crashes and `Restore`; uses `RGA` |
| `Subscribers` | the subscriber slice with Go's slice semantics: header, shared array, growth, in-place removal, unlocked walk |
| `FlourishSync` | browsers and handlers: sockets, reconnect timer, tickets, typing, append, ACK, projection, sync request, the two halves of `GetDiff`, broadcast one cell of the subscriber array at a time; composes what `EventStore`, `EntryProjector` and `Subscribers` look like from outside |
| `SessionEndpoint` | one session: `Run`, owner, read, write, subscribe and heartbeat goroutines, `close`; the room is what its publications leave there |
| `Room` | the room, the registry, the broadcaster and the pub/sub between the room and its sessions |
| `World` | entity component tables, joins, leaves, inputs and the systems of a tick |
| `Scheduler` | `NewScheduler`: validation and Kahn's algorithm, against the definition of a valid order |
| `EventStoreProofs`, `EntryProjectorProofs`, `SubscribersProofs`, `FlourishSyncProofs`, `RGAReplicationProofs`, `SchedulerProofs` | the theorems about the module of that name, the inductive invariants they need and their proofs |
| `RGAProofs` | lemmas about the operators of `RGA` on one replica, used by `RGAReplicationProofs` and `EntryProjectorProofs` |
| `WitheredProofs` | the theorems about `World`, `SessionEndpoint` and `Room`; it extends all three, so their names are distinct (`RoomSpec`, `SessionSpec`, ...) |
| `MC...` | instances for TLC |

Operators named after another with a suffix and marked *mutant* are deliberate mistakes
(`skipSubtree_NodeOnly`). No specification uses them. Substituted for the original, each must make
TLC report the property it was written for, which shows that the property depends on that code.

### How state and actions correspond to the code

*EventStore.* `events`, `seqs`, `seen` are the three maps of the struct. A file is a sequence of
lines; a line is an event or `Garbage`, because `json.Unmarshal` accepts exactly the complete
ones. `open` says that the file does not end in a newline; O_APPEND then continues the last line.
`Append` holds the mutex throughout, so a call is one action; `AppendError` and `CrashInAppend` are
the calls that the file system or the end of the process cut, and `Torn` says what they may leave.
`acked` is a history variable: what `Append` returned without an error.

*RGA.* The list, the index, the seen set and the pending buffer are those of the Go struct; the
index is kept separately from the list because the code has to keep both in step. Characters are
left out: a node id determines its character. `flushPending`'s loop-until-nothing-applied is a recursive
function over as many passes as there are buffered operations, which is enough because each pass that
continues the loop applies at least one (proved, see below). `Apply` takes from the flush what the flush
may change (list, index and buffer): the clock and the seen set are written before it and only there.

*RGAReplication.* The network holds every operation for ever and delivers any of them to any
replica at any time: delay, reordering and repetition in one. `Restart` replaces the server's
replica by what `LoadRGA` gives: the snapshot of its present state, or nothing when the file is
missing or does not parse. The snapshot is always of the present state because `Apply` saves it
under the same mutex; snapshots that lag behind are in `EntryProjector`, which keeps the file.

*EntryProjector.* `pc` is the position of each connection's `handleOp`. The append and the ACK are one
step (store lock), then each step under the projector's mutex is an action of its own, because
crashes and `DELETE` may fall between. `entry` is the store in memory and `entryFile` on disk: a
failed `saveToFile` leaves them different. `os.WriteFile` truncates first, so a write of `entries.json`
that returns an error may leave it as it was, complete, empty (`Missing`) or cut short (`Cut`), and one
that a crash interrupts (`CrashInSaveEntry`) empty or cut short. `NewEntryStore` reads an empty file as no
entries, after which `FindByID` fails and `Restore` skips the entry; a cut one stops every start
(`StartFails`). `HandleOpFails`, `SaveEntryFails`, `SaveRGAFails`, `SaveMarkdownFails`,
`DeleteEntryFails` and `RestoreEntryFails` are the error paths: the first answers with an error and
leaves the request id in the store's memory (`unwritten`), the second returns early, the next two are
only logged, the last ends the process. `HandleOp` takes any operation: the code does not look whether the
nodes it refers to are known, and a browser can refer to a character that it typed with the socket
closed (`ws-client.ts:59`). `watcher` is the RGA of a subscriber that gets all broadcasts; delivery
itself is the subject of `Subscribers`. Inputs are the operations of `MCEntryProjector`: an author and
a guest who insert and delete each other's characters, in any order, so also after characters that
never arrive. The entry exists from the start.

*Subscribers.* Arrays are named by capacity, since append only ever moves to a larger one.
Reading a cell and moving a cell are separate steps: the walk is not synchronised with the move,
so the read may see either value. `due`, `calm` and `got` are history variables of a broadcast.

*FlourishSync.* A connection is a pair `<<client, number>>` with a FIFO channel each way and a
handler; the client's socket belongs to its latest connection. `Lose` is a break that both sides
notice at their own time: the client at once, the handler when it has read what was still on the
way (`HandlerEnds`). `Type` covers `insert`, `delete` and the operations that `applyTextChange`
makes of an edit. A handler appends (`HandleOp`), writes the ACK (`AckOp`), and then the projector either
returns false (`RefuseOp`: a guest's delete, a deleted entry, a failed write) or lets it read the list
(`Broadcast`) and send cell by cell (`BroadcastTo`); others may take steps between any two of these.
`ListAfter` and `SendDiff` are the two halves of `GetDiff`: the store's lock is
given back between them. `withheld` are operations in the log that nobody broadcasts: refused by
the projector, or their event's write failed after the store's memory had them.

The list of subscribers is `list` with the capacity `cap` of its array. `cells[k]` are the cells that the
broadcast of handler `k` has still to read, and `live` the broadcasts that walk the present array:
`Subscribe` writes behind the list, or into a new array of twice the capacity, and `Unsubscribe` moves the
tail down in place and leaves the last cell as it was, exactly as `append(subs[:i], subs[i+1:]...)`
does. Here each of the two is one step in which a pending read of a written cell may fall before or after
the write (`late` in `Store`); `Subscribers` has the moves one by one. A broadcast whose array is shifted
may therefore skip somebody or send to somebody twice. `disturbed` are the operations whose broadcast met
an `Unsubscribe`. `asked`, `left` and `reapplied` are history variables.

*SessionEndpoint.* `goroutine` has the place of each goroutine: in its loop's select, holding a message,
about to publish, waiting in `sendCtrlEvent`, or returned. `stale` holds the stamps older than the
idle timeout; time is the action `Expire`, and it only matters while the owner looks. `roomID` is
written by the read goroutine and read by the owner between any two of their steps, as the code
does without a lock. `member` is what the room will believe once it has read its inbox (`Room`
shows that it does: `RegistryFollowsInbox`). A publication may always be dropped. A session that
fails to start (`RunFails`) leaves its goroutines to the request's context, which net/http
cancels when the handler returns. The room id of a message is the peer's choice: `served` is the one room
of `main`, `other` stands for every other id. A Join sets `roomID` to the id it names, whatever it was; a
Leave is published to the topic of the id it names and clears `roomID` whichever that was; what is published
to the other topic reaches nobody. `spoiled` is a history variable for the four ways in which a session may
end without leaving its room: `Run` failed, the Join was published after `close` had begun, a Leave
to the room met a full inbox, or a Join or Leave of another id came while the session was in the room.

*Room.* `hand` and `found` are publications between the lookup of the subscriber and the send. A
send on a closed channel is `PublishPanics` or `RoomPanics`, after which nothing runs. The
application's side of a message is `World`; here a tick has a frame or has none. The channel
`sendCh` is left out: nothing in the repository sends to it.

*World.* Each component table is a function whose domain is the set of keys of the Go map.
Positions, velocities and the map are left out, so `BulletHits` may choose any target that the
checks before the distance allow, and loops over a Go map go through `todo` in any order. HP wraps at
2^8 and TTL at 2^16 as in the code; ids wrap at `IdSpace`. A cooldown below zero is kept at zero: the
code compares it with `> 0` after a decrement and sets it to `ShootCooldown` otherwise.

*Scheduler.* `inDegree`, `queue` and `sorted` are the variables of `topologicalSort`. The error for a
dependency of another phase cannot occur (the lookup is within the phase and fails first), so the
model has the four others. A loop that appends those elements of a list that pass a test is `Sublist`:
the elements at these positions, in their order.

## What is checked

| Run | Bounds | Distinct states | Result |
| --- | --- | --- | --- |
| `EventStoreLog` | 2 entries, 2 requests, 3 crashes, 1 failed write, lines cut in the middle | 357 000 | holds; implements `EventLog` |
| `EventStoreAckTorn` | 1 entry, 2 requests, 1 crash, 1 failed write | | `AckedSurvives` violated |
| `RGAReplicas` | 2 clients and the server, 4 operations, any deliveries and restarts | 260 000 | holds |
| `ProjectorFaults` | 2 connections, 4 operations, 2 crashes, 1 failed write, 1 deletion | 346 000 | holds, with liveness |
| `ProjectorGuestRestore` | 4 operations, 1 crash | | `GuestCannotDelete` violated |
| `SubscribersList` | 4 connections, 2 broadcasts | 127 000 | holds |
| `FlourishSync` | 2 clients with 2 connections each, 2 operations, 1 fault | 1 451 000 | holds |
| `SessionEnds` | all channels with one place, two room ids | 547 000 | holds, with liveness |
| `SessionGhost` | the same | | `ClosedLeavesRoom` violated |
| `RoomPubSub` | 2 sessions, inbox of 2, subscriptions of 1 | 415 000 | holds, with liveness |
| `WorldTicks` | 2 sessions, 5 allocations, 8 ids, two hits kill, respawn after 2 ticks | 404 000 | holds |
| `SchedulerSort` | all lists of 3 systems in 2 phases with After lists of up to 2 entries; the game's systems | 33 000 | holds |

What each shows, beyond types:

* `EventStoreLog`: `ServerSeqOrdered`, `NoDuplicateRequest`, `AckedUntilTorn` (as long as no write
  was torn, what `Append` acknowledged is on disk) and the refinement `ImplementsEventLog`.
* `RGAReplicas`: `DocumentIsTreeOrder` compares every replica with a definition of the document
  that knows no lists, indexes or buffers; `Convergence`, `InsertsLandAfterCursor`,
  `SnapshotRoundTrip`.
* `ProjectorFaults`: `ViewsMatchRGA`, `NoEventForgotten`, `GuestCannotDeleteLive`, `WatcherAgrees`,
  and `InsertReachesEntry`: an acknowledged insert shows in the end, if the characters it was typed after
  were acknowledged too (`Rooted`), unless it or the entry is deleted or a write of `entries.json` lost
  the entry.
* `SubscribersList`: `SliceIsSubscribers`, `CalmBroadcastReachesAll`.
* `FlourishSync`: `QuietClientComplete` (a client that has read all there is has everything above the
  mark it asked with), `OwnNotReapplied`, `TicketOnce`, `LeftNotSubscribed`.
* `SessionEnds`: `CleanLeave`, `AssignBeforePing`, `EndpointEnds`.
* `RoomPubSub`: `RegistryFollowsInbox`, `FrameForEveryMember`, `SessionPanicsOnlyAtShutdown`,
  `LeaveTakesEffect`.
* `WorldTicks`: `EntitiesWhole`, `SessionsMatchEntities`, `AliveWithHP`, `NoStrayBullet`,
  `RespawnNotDelayed`.
* `SchedulerSort`: `SchedulerCorrect` and the algorithm's invariant `DegreeIsWaiting`. The systems of the
  game are among the inputs; they form a chain in each phase, so their only valid order is the one that
  `World` has.

The three violated properties restate comments, tests or decisions of the repository;
`PROJECT.json` quotes them and describes what happens.

**Known limits of the code that the properties except by name.** A broadcast that an Unsubscribe
disturbs may skip a subscriber (`QuietClientComplete` excepts it) or send to one twice (`OwnNotReapplied`
excepts it). With the list `[c2, c1]`, when c2's handler ends while c1's acknowledged operation is being
broadcast, c1 moves to the first cell and still stands in the last; it gets its operation twice, the first
copy takes the request out of `confirmedReqIds`, and the second is applied to its RGA. An insert typed after a
character that the browser dropped is acknowledged and waits in the RGA's buffer for ever (`Rooted`). An
entry whose file a write left empty is gone, and `Restore` skips it although the log has all its
operations; one left cut stops every later start (`InsertReachesEntry` excepts both by `~Findable`). A
session leaves its room for certain only if it names no other room and the other three faults stay
away (`CleanLeave`). A guest's delete that overtakes its insert is refused for good, and a DELETE between `FindByID` and `Save` is undone; no property asks for more. The gap
below a client's mark, opened by the ACK of its own operation, is filled by broadcasts while the
connection lasts, and by nothing after it broke (`QuietClientComplete` speaks of the mark last
asked with). The room's own broadcast may send on a channel closed since the lookup
(`RoomPanics`). A session that joined twice leaves a player behind (`again`).

**Why the bounds are enough.** A line is lost by at most two writes (the torn one and the one
glued to it) and a sequence number or request id is repeated by two appends around a restart:
three crashes leave room for faults during and after recovery. Placing a node needs a sibling, a
child of that sibling and a newcomer (three inserts); the fourth operation adds a delete or a
deeper tree. Two connections suffice for each race in `EntryProjector`, which are between one handler
and another, `DELETE` or a crash. `MCEntryProjector` fixes the operations, so their content is finite;
the order is not fixed. Four connections make the subscriber array grow twice and leave room for removal in front
of, at and behind the walk. In `FlourishSync` a gap needs one operation of each of two clients, and
everything about reconnects a second connection. Channels of one place are full after one message,
and with one place also meet every race between a full channel and the goroutine that empties it. In
`World` an actor that is hit twice in a tick and its killer need two actors and two bullets; five
allocations add a leave and a new join, and 8 ids wrap within them. Three systems make every shape of
dependency: chain, fork, join, cycle, self-dependency and repeated entries.

**Fairness.** `EntryProjector`: handlers are weakly fair, they wait for a mutex that is held over
finitely many file writes and for socket writes that return when the peer reads or the connection
breaks; `Restore` is weakly fair because `docker-compose.yml` says `restart: unless-stopped`. New
operations, deletions and faults are not fair. `SessionEndpoint`: the Go scheduler runs every goroutine
that can go on, and the pong stamp of a peer that is gone grows old; nothing is assumed of the
peer, nor that the transport notices its absence. `Room`: the room's goroutine is scheduled and its
ticker ticks; nothing is assumed of the sessions, nor that the receive loop ever ends.

**Conditions in the properties.** `GuestCannotDeleteLive` and `WatcherAgrees` are stated for
behaviours without crashes or failed writes (and, for the second, without a deletion), because
the code does not keep them otherwise: `Restore` replays refused deletes, and `Apply` returns false,
so nothing is broadcast, when the entry is deleted or its file cannot be written although the
RGA has changed. `InsertReachesEntry` speaks of inserts whose predecessors are all in the log (`Rooted`):
the server accepts an insert after a node it never saw, and `RGA.Apply` buffers it; and of entries that
the store still has. `OwnNotReapplied` and `QuietClientComplete` except operations whose broadcast an
`Unsubscribe` disturbed, and `CleanLeave` the four faults above; the last is the subject of `SessionGhost`.

Deadlock is checked for the event store, the RGA, the projector and the world, which never
stop. It is not checked where the system may stop: all connections closed (`SubscribersList`,
`FlourishSync`), the session ended (`SessionEnds`), the server shut down (`RoomPubSub`), the sort
returned (`SchedulerSort`).

## What is proved

Every theorem holds for all values of the constants that satisfy the named assumptions below; the
sets of connections, clients and sessions may have any size, and the bounds on faults and operations
may be any number. Each rests on an inductive invariant, which is stated in the proof module in named
parts; what follows says what it adds to the property and why the property needs it.

**EventStoreProofs** (`TornAssumption`, `GarbageAssumption`, `BoundAssumption`: a torn write leaves
one of the two kinds of tear, and what cannot be read is no event).

* `TypeCorrect`, `SequenceOrder`, `Deduplication`: `TypeOK`, `ServerSeqOrdered` and
  `NoDuplicateRequest`, with torn lines, failed writes and crashes.
* `Durability`: `AckedUntilTorn`, for every `Torn`: as long as no write was torn, acknowledged events are
  on disk, whatever writes fail and whenever the process stops.
* `Refinement`, for `Torn = {}`: the files implement `EventLog`. That tears lose acknowledged
  events is `EventStoreAckTorn`.

The properties are not inductive: a crash empties memory, and what `loadAll` then rebuilds depends on
what is on disk. `IInv` adds that (1) the readable lines of each file have increasing numbers and
no request twice, over all files; (2) while serving, every readable line's request is seen and
its number is at most the entry's counter; (3) every event in memory is seen; (4) while loading,
memory of an entry comes from the lines already read and later lines have higher numbers; (5) a
file without a final newline has a line to continue. A write, however it ends, either adds the new
event as the last line, spoils the last line or changes nothing (`NewLinesShape`), so (1) survives it;
fresh numbers are above the counter, hence above all lines (2); a crash keeps (1) and makes the rest
trivial; loading preserves (4) and ends in (2). `Durability` adds that every file ends in a newline until
a write is torn (`TornLeavesOpen`, `UntornStep`), so a write can only add a line; without tears every
step of the store is a step of `EventLog` or leaves its log alone.

**RGAProofs** and **RGAReplicationProofs** (`ReplicaAssumption`: replica ids are ordered like numbers
and the server is no client; `BoundAssumption`; `NilAssumption`: the nil pointer is no node id).

* `ReplicasConverge`: `Convergence`.
* `ListsAreTreeOrders`: `DocumentIsTreeOrder`.
* `TypedCharactersLand`: the action property `InsertsLandAfterCursor`.
* `SnapshotsRoundTrip`: `SnapshotRoundTrip`.
* `TypeCorrect`: `TypeOK`.

The argument has three layers.

1. *One insert.* A list is described by the position `par[i]` of each node's After. `Preorder` says that
   parents come before children, that nothing foreign lies inside a subtree, and that siblings are in the
   order of `nodeIDPriority`. `Passed` is the invariant of the loop in `applyInsert`; `skipSubtree` keeps it,
   because in a preorder the descendants of a node are exactly what follows it up to the first
   non-descendant. Where the loop stops, inserting the node keeps the preorder.
2. *The buffer.* `Covers` says that list and buffer together hold a set of operations: each insert in one of
   the two, each delete done or buffered. `Settled` adds that nothing in the buffer can be applied.
   `Apply` turns a replica settled on a set S into one settled on S and the operation. For `flushPending` this
   means that a pass either applies something, so that the buffer shrinks, or leaves a buffer in which
   nothing can be applied; hence as many passes as buffered operations are enough.
3. *The system.* The invariant `Inv` is: operations issued have ids and requests of their own and refer to
   older nodes (`IssuedInv`); each replica is settled on what it has seen, and its clock is not behind any
   of it (`ReplicaInv`); a client's clock is not behind its own nodes (`OwnClock`).

Replicas settled on the same operations hold the same ids with the same After, and two preorders of the same
tree are equal: at the first difference both nodes would have priority over each other. That is convergence.
For the reference definition, the order of two paths from the root is the order of the positions. A typed
character lands at its cursor because its timestamp, by `OwnClock` and `ReplicaInv`, is above all siblings'.
A settled replica's index is the one that `ImportRGA` computes from the list, which gives the round trip.

The recursive functions (`isDescendantOf`, the loop of `applyInsert`, the passes) are shown to exist and to
satisfy their equations by a least counterexample among the positions (lemmas `Least`, `Greatest`), since
the library's induction theorems cannot be instantiated here.

**EntryProjectorProofs** (`ConnAssumption`; `OpsAssumption`: operations insert or delete, have Lamport ids or
none, and one request at most inserts a given node, which is what a client's `Tick` gives;
`BoundAssumption`; `NilAssumption`).

* `TypeCorrect`: `TypeOK`, which includes that the RGA knows no request that the log does not.
* `NothingForgotten`: `NoEventForgotten`. Added: while `Restore` replays, the events read so far are in the
  RGA, and all of them when the replay is over (`Replaying`); a handler under way has an operation of the
  log in hand (`InHand`), and there is none while the server is not up (`NotServing`). It turns on one fact
  about the CRDT, `ApplySeen`: applying an operation adds its request to the seen set and removes none,
  whatever became of the operation.
* `ViewsAgree`: `ViewsMatchRGA`, for an entry that the store has. Added: between `Save` and the end of `Apply` or `Restore` the entry
  already shows the RGA (`Saved`), the mutex belongs to whoever is in between (`Exclusive`), and before the
  first event everything is blank (`Blank`), which is why `Restore` may skip an entry without events.
* `ListOfTheLog`: the RGA is settled on the events of the log that it has seen, at every moment and across
  crashes. `ListInv` adds that a request is appended once and that the snapshot file, however far it lags
  behind, is the export of a replica that is settled in the same sense.
* `GuestsDeleteGuests`: `GuestCannotDeleteLive`. Added: as long as there was no crash and no failed write, a
  guest's delete that the RGA has seen refers to a guest's node that it has seen (`GuestDeletes`). The check
  in `Apply` and the application are under one lock, and a node's authentication never changes.
* `SubscribersAgree`: `WatcherAgrees`. `WatchInv`: without faults, what the RGA has seen and the subscriber has
  not is in the hands of a handler that will broadcast it. When all are idle both have seen the same, and
  lemma `Converges` of `RGAProofs` does the rest: the order in which broadcasts leave does not matter.

**SubscribersProofs** (`CapAssumption`: capacities double as far as needed; `ConnAssumption`: finitely
many connections; `BoundAssumption`).

* `ListExact`: `SliceIsSubscribers`. While `Unsubscribe` moves cells down the list is *not* exact: one
  cell is a hole, and the others hold the other subscribers once each (`Exact`). The length is the number of
  subscribers, so a new one always finds room or a larger array (`Growth`).
* `CalmWalk`: `CalmBroadcastReachesAll`. The cells under a header that a broadcast copied do not change
  until somebody unsubscribes, because append writes behind them or into another array; those in front of
  the walk have been sent to once and the others not yet (`Frozen`).

**FlourishSyncProofs** (`SyncAssumption`).

* `TypeCorrect`: `TypeOK`.
* `TicketUsedOnce`: `TicketOnce`, from `TicketSpent`: the ticket of an authenticated connection is gone.
* `LeftUnsubscribed`: `LeftNotSubscribed`, from `LeftSilent`: a client that has left sends nothing on the
  sockets it still opens.
* `OwnOnlyOnce`: `OwnNotReapplied`. `OwnInv` follows an operation on its way back to its author. Once its
  ACK is received, or can still come on the present connection, it is in no diff, and in one broadcast at
  most; in none any more when the client has forgotten it. It needs that the author's mark covers its
  acknowledged operations (`AckedBelowMark`), that an operation is in one place on its way up (`UpOnce`,
  `HandledOnce`), that the author still remembers it when its broadcast begins (`Remembered`: ACK,
  projection and broadcast are steps apart), and that a broadcast which nobody disturbed has cells of
  different connections before it (`ListTrue`): an append writes behind the cells it walks or into another
  array, and whatever shifts them makes its operation disturbed.
* `NothingFallsBetween`: `QuietClientComplete`, from `Complete`: a connection has either its request still
  unread, or is subscribed, and then each operation above the mark it asked with is in the document, in
  the diff, on the wire, still to be broadcast to it, withheld or disturbed. A broadcast that has not read
  the list yet will reach it because the list holds every subscribed connection (`ListTrue`). The order of `handleSyncRequest`
  (subscribe, then read the log) is what makes this hold between any two steps.

**WitheredProofs, the session** (`QueueAssumption`: channels have at least one place).

* `SessionTypes`: `SessionTypeOK`; no goroutine fills a channel past its capacity.
* `LeavesCleanly`: `CleanLeave`. The property speaks of the end, the invariant of the way there: until
  `close` begins `roomID` covers what the room believes and what it will believe of a join in hand
  (`RoomKnown`); from then on a member is one whose Leave the owner is about to publish, while `roomID` is
  still the room (`LeaveToCome`, `LeaveNamesRoom`: messages for other rooms change neither without being the
  named fault); the context ends after that (`CancelledByClose`, `OwnerRuns`).
* `AssignFirst`: `AssignBeforePing`, from `NoEarlyPing`: no heartbeat before `Run` has queued Assign.

**WitheredProofs, the room** (`BufferAssumption`: channels have at least one place;
`NameAssumption`: the room and "nobody" are no sessions).

* `RoomTypes`: `RoomTypeOK`.
* `NoSessionPanic` and `EveryMemberServed`: `SessionPanicsOnlyAtShutdown` and `FrameForEveryMember`. Added: the
  room's topic is closed only by stopping (`HubOpenUntilStop`), and whoever is registered, in the inbox or in
  the hand of a publication has subscribed before (`MembersSubscribed`).
* `RegistryAgrees`: `RegistryFollowsInbox`, which is inductive: a message that gets in becomes its
  session's last word, a message that is read is the first one.

**WitheredProofs, the world** (`WorldAssumption`, `WidthAssumption`: hit points fit a byte, times to live 16 bits).

* `WorldTypes`, `AlwaysWhole`, `LinksAgree`, `AliveAgrees`: `TypeOK`, `EntitiesWhole`,
  `SessionsMatchEntities`, `AliveWithHP`. The invariant says which entities each table has a row for
  (`Tables`) and what is in it (`Rows`), in the middle of a tick as well.
* `BulletsExpire`: `NoStrayBullet`. Between ticks says little; `BulletAge` bounds the time to live at
  every place of the tick.
* `RespawnOnTime`: the action property `RespawnNotDelayed`.

`WorldAssumption` bounds the allocations by the number of ids, and the proofs need that: ids wrap, and
`AllocEntity` does not look whether the next one is in use. Every entity is one of the latest allocations
(`IdsRecent`), so until the ids have gone round once the next is free. A player that stays while 2^16
others are allocated (players and bullets) is outside the theorems.

**SchedulerProofs** (`ListAssumption`: the arguments are lists).

* `Correct`: `SchedulerCorrect`, for every list of systems and of phases.
* `Degrees`: `DegreeIsWaiting`.

`Sorting` is the invariant of Kahn's algorithm: a degree is the number of entries of the After list that
are not sorted; sorted and queued systems are those of degree 0, each once; and each sorted one comes
after its dependencies. `TakeNextStep` is the step that a repeated entry could break. When the queue is
empty, as many systems sorted as given means all of them (`SortedAll`); fewer means that no valid
order exists: the first system in it that is not sorted would wait for an unsorted one, which the
order has earlier (`StuckNotSortable`).

**Model-checked only.** Liveness, which is out of the prover's reach: `InsertReachesEntry`, `EndpointEnds` and
`LeaveTakesEffect`. Every safety invariant and action property of a passing run is also a theorem.

## Not modelled

Logging, telemetry, HTTP formatting, titles and excerpts (`deriveFields`), Cloudflare Access tokens,
the user interface, deployment, dashboards, the in-memory test stores, the byte layouts of
withered's messages, its browser client and bot. Reads (`List`, `Get`, `ListAfter`) have no actions of
their own: they return the state the invariants are about. Positions in the game world. Several rooms
(the repository has one; a session may name others, which lead nowhere). A socket write that
never returns (hazard at `ws.go:55`): the documents promise nothing for it.

## Possible extensions

The safety properties of the runs are proved; what would add to the project is more of the code. First the
hazard that no property covers, a socket write that never returns. Then the moves of an `Unsubscribe` one
by one in `FlourishSync` as they are in `Subscribers`, and a refinement between the two. Then the byte
layouts of withered's messages, as encoders and decoders checked against each other over bounded inputs.
