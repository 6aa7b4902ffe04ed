---------------------------- MODULE EntryProjector ----------------------------
(***************************************************************************)
(* The server's path of an operation, from the WebSocket to the files, for *)
(* one entry:                                                              *)
(*                                                                         *)
(*   WS.handleOp (one goroutine per connection)                            *)
(*     -> EventStore.Append under the store's lock, then the ACK           *)
(*     -> EntryProjector.Apply under the projector's mutex:                *)
(*          RGA, EntryStore.FindByID, EntryStore.Save, SaveRGA, markdown   *)
(*     -> SyncService.Broadcast                                            *)
(*                                                                         *)
(* Two locks guard two halves, so connections may pass the second in       *)
(* another order than the first; EntryStore.Delete takes only the entry    *)
(* store's lock, so it may fall between FindByID and Save; and a crash may *)
(* fall between any two writes.  At the next start Restore rebuilds        *)
(* everything from the snapshot and the event log.                         *)
(*                                                                         *)
(* An event that was written to the log is taken as durable here:          *)
(* EventStore models how the log is kept.  A write of entries.json or of   *)
(* the snapshot truncates the file first, so an error or a crash may leave *)
(* it as it was, empty or cut short; Restore survives that of a snapshot.  *)
(*                                                                         *)
(* The server does not check which nodes an operation refers to, and       *)
(* neither does the model: a browser may refer to a character that it      *)
(* typed with the socket closed, and that therefore never left it.         *)
(***************************************************************************)
EXTENDS RGA

CONSTANTS
    Conn,         \* connections
    AuthConn,     \* those that redeemed a ticket
    Ops,          \* what clients may send: [req, from, type, id, after]
    MaxCrashes,   \* bound: crashes of the server process
    MaxDeletes,   \* bound: DELETE /api/entries/{id} requests
    MaxErrors,    \* bound: file writes that return an error
    NoConn,       \* nobody holds the projector's mutex
    NoSnapshot    \* no snapshot file, or one that does not parse

ASSUME ConnAssumption == AuthConn \subseteq Conn /\ NoConn \notin Conn
ASSUME OpsAssumption ==
    /\ \A op \in Ops : /\ op.type \in {"insert", "delete"}
                       /\ {op.id, op.after} \subseteq LamportID \cup {Nil}
    /\ \A a, b \in Ops :          \* one request inserts a node: Tick gives every node an id
           a.type = "insert" /\ b.type = "insert" /\ a.id = b.id /\ a.id # Nil
               => a.req = b.req
ASSUME BoundAssumption == {MaxCrashes, MaxDeletes, MaxErrors} \subseteq Nat

VARIABLES
    mode,       \* "down", "replaying" and "restoring" inside Restore, "up"
    replayed,   \* Restore: events replayed so far
    unwritten,  \* requests the store in memory has and the log on disk has not
    pc,         \* per connection: where its handleOp is
    cur,        \* per connection: the operation being handled
    events,     \* event log: the operations appended, with their auth flag
    mutex,      \* EntryProjector.mu: the connection that holds it
    rga,        \* EntryProjector.rgas[entry]
    entry,      \* entry store, in memory: [state, text]
    entryFile,  \* entry store, on disk: entries.json, the same or cut short
    snapshot,   \* rga_states/{entry}.json
    markdown,   \* markdown/{entry}.md
    watcher,    \* what this process has broadcast, as a subscriber's RGA
    crashes,
    deletes,
    errors

process == <<mode, replayed, unwritten>>
stored == <<events, entry, entryFile, snapshot, markdown>>
bounds == <<crashes, deletes, errors>>
vars == <<process, pc, cur, mutex, rga, stored, watcher, bounds>>

Locked == {"applied", "found", "saved", "snapped"}
Steps == {"idle", "acked", "broadcast"} \cup Locked

\* handleOp overwrites whatever the client says about its authentication.
Stamped(op) ==
    [req |-> op.req, type |-> op.type, id |-> op.id, after |-> op.after,
     auth |-> op.from \in AuthConn]

Logged == {events[i].req : i \in DOMAIN events}

\* entries.json is empty, or is a prefix that does not parse.
Missing == [state |-> "missing", text |-> <<>>]
Cut == [state |-> "cut", text |-> <<>>]

Init ==
    /\ mode = "up"
    /\ replayed = 0
    /\ unwritten = {}
    /\ pc = [c \in Conn |-> "idle"]
    /\ cur = [c \in Conn |-> Nil]
    /\ events = <<>>
    /\ mutex = NoConn
    /\ rga = NewRGA
    /\ entry = [state |-> "kept", text |-> Text(NewRGA)]
    /\ entryFile = entry
    /\ snapshot = NoSnapshot
    /\ markdown = entry.text
    /\ watcher = NewRGA
    /\ crashes = 0
    /\ deletes = 0
    /\ errors = 0

TypeOK ==
    /\ mode \in {"down", "replaying", "restoring", "up"}
    /\ replayed \in 0 .. Len(events)
    /\ unwritten \subseteq {op.req : op \in Ops}
    /\ entry.state \in {"kept", "deleted", "missing"}
    /\ entryFile.state \in {"kept", "deleted", "missing", "cut"}
    /\ pc \in [Conn -> Steps]
    /\ cur \in [Conn -> {Stamped(op) : op \in Ops} \cup {Nil}]
    /\ Range(events) \subseteq {Stamped(op) : op \in Ops}
    /\ mutex \in {c \in Conn : pc[c] \in Locked} \cup {NoConn}
    /\ rga.seen \subseteq Logged
    /\ crashes \in 0 .. MaxCrashes
    /\ deletes \in 0 .. MaxDeletes
    /\ errors \in 0 .. MaxErrors

Goto(c, step) == pc' = [pc EXCEPT ![c] = step]

\* handleOp returns.
Return(c) ==
    /\ Goto(c, "idle")
    /\ cur' = [cur EXCEPT ![c] = Nil]

Fail ==
    /\ errors < MaxErrors
    /\ errors' = errors + 1
    /\ UNCHANGED <<crashes, deletes>>

-----------------------------------------------------------------------------
\* The store has the entry, and it is not deleted.
Findable == entry.state = "kept"

\* handleOp up to the ACK: HandleOp appends the event.
HandleOp(c, op) ==
    /\ mode = "up" /\ pc[c] = "idle"
    /\ op.from = c
    /\ op.req \notin Logged \cup unwritten
    /\ events' = Append(events, Stamped(op))
    /\ cur' = [cur EXCEPT ![c] = Stamped(op)]
    /\ Goto(c, "acked")
    /\ UNCHANGED <<process, mutex, rga, entry, entryFile, snapshot, markdown, watcher,
                   bounds>>

(***************************************************************************)
(* The write of the event fails: handleOp answers with an error and        *)
(* returns, and the store remembers the request until the process ends.    *)
(***************************************************************************)
HandleOpFails(c, op) ==
    /\ mode = "up" /\ pc[c] = "idle"
    /\ op.from = c
    /\ op.req \notin Logged \cup unwritten
    /\ Fail
    /\ unwritten' = unwritten \cup {op.req}
    /\ UNCHANGED <<mode, replayed, pc, cur, mutex, rga, stored, watcher>>

\* A request id that the store has: acknowledged with 0, nothing else.
HandleDuplicate(c, op) ==
    /\ mode = "up" /\ pc[c] = "idle"
    /\ op.from = c
    /\ op.req \in Logged \cup unwritten
    /\ UNCHANGED vars

Refused_NoAuthCheck(r, op) == op.id = Nil                          \* mutant

(***************************************************************************)
(* EntryProjector.Apply refuses a payload without a node id, and a delete  *)
(* by a guest of a node that is authenticated or unknown.                  *)
(***************************************************************************)
Refused(r, op) ==
    \/ op.id = Nil
    \/ op.type = "delete" /\ ~op.auth /\ IsNodeAuthenticated(r, op.id)

\* Apply returns false: nothing is broadcast.
ApplyRefused(c) ==
    /\ pc[c] = "acked" /\ mutex = NoConn
    /\ Refused(rga, cur[c])
    /\ Return(c)
    /\ UNCHANGED <<process, mutex, rga, stored, watcher, bounds>>

\* Apply takes the mutex and changes the RGA.
ApplyRGA(c) ==
    /\ pc[c] = "acked" /\ mutex = NoConn
    /\ ~Refused(rga, cur[c])
    /\ mutex' = c
    /\ rga' = Apply(rga, cur[c])
    /\ Goto(c, "applied")
    /\ UNCHANGED <<process, cur, stored, watcher, bounds>>

FindByID(c) ==
    /\ pc[c] = "applied" /\ Findable
    /\ Goto(c, "found")
    /\ UNCHANGED <<process, cur, mutex, rga, stored, watcher, bounds>>

FindDeleted_KeepsMutex(c) ==                                       \* mutant
    /\ pc[c] = "applied" /\ ~Findable
    /\ Return(c)
    /\ UNCHANGED <<process, mutex, rga, stored, watcher, bounds>>

\* FindByID returns ErrEntryDeleted or ErrEntryNotFound: Apply returns false.
FindDeleted(c) ==
    /\ pc[c] = "applied" /\ ~Findable
    /\ Return(c)
    /\ mutex' = NoConn
    /\ UNCHANGED <<process, rga, stored, watcher, bounds>>

\* Save writes back the entry that FindByID returned, which was not deleted.
Projected == [state |-> "kept", text |-> Text(rga)]

\* What a write of entries.json that returns an error may leave.
Torn(written) == {entryFile, written, Missing, Cut}

SaveEntry(c) ==
    /\ pc[c] = "found"
    /\ entry' = Projected
    /\ entryFile' = Projected
    /\ Goto(c, "saved")
    /\ UNCHANGED <<process, cur, mutex, rga, events, snapshot, markdown, watcher, bounds>>

\* saveToFile fails after the map has changed: Apply returns false.
SaveEntryFails(c) ==
    /\ pc[c] = "found"
    /\ Fail
    /\ entry' = Projected
    /\ entryFile' \in Torn(Projected)
    /\ mutex' = NoConn
    /\ Return(c)
    /\ UNCHANGED <<process, rga, events, snapshot, markdown, watcher>>

SaveRGA(c) ==
    /\ pc[c] = "saved"
    /\ snapshot' = Export(rga)
    /\ Goto(c, "snapped")
    /\ UNCHANGED <<process, cur, mutex, rga, events, entry, entryFile, markdown, watcher,
                   bounds>>

\* An error of SaveRGA is logged; the file is as before, or cut short.
SaveRGAFails(c) ==
    /\ pc[c] = "saved"
    /\ Fail
    /\ snapshot' \in {snapshot, NoSnapshot}
    /\ Goto(c, "snapped")
    /\ UNCHANGED <<process, cur, mutex, rga, events, entry, entryFile, markdown, watcher>>

SaveMarkdown_ReportsRefused(c) ==                                  \* mutant
    /\ pc[c] = "snapped"
    /\ markdown' = Text(rga)
    /\ mutex' = NoConn
    /\ Return(c)
    /\ UNCHANGED <<process, rga, events, entry, entryFile, snapshot, watcher, bounds>>

SaveMarkdown(c) ==
    /\ pc[c] = "snapped"
    /\ markdown' = Text(rga)
    /\ mutex' = NoConn
    /\ Goto(c, "broadcast")
    /\ UNCHANGED <<process, cur, rga, events, entry, entryFile, snapshot, watcher, bounds>>

\* An error of saveMarkdown is logged.
SaveMarkdownFails(c) ==
    /\ pc[c] = "snapped"
    /\ Fail
    /\ mutex' = NoConn
    /\ Goto(c, "broadcast")
    /\ UNCHANGED <<process, cur, rga, stored, watcher>>

Broadcast(c) ==
    /\ pc[c] = "broadcast"
    /\ watcher' = Apply(watcher, cur[c])
    /\ Return(c)
    /\ UNCHANGED <<process, mutex, rga, stored, bounds>>

\* DELETE /api/entries/{id}: EntryStore.Delete, a soft delete of an entry that is there.
DeleteRequest ==
    /\ mode = "up" /\ deletes < MaxDeletes
    /\ entry.state # "missing"
    /\ deletes' = deletes + 1
    /\ entry' = [entry EXCEPT !.state = "deleted"]
    /\ UNCHANGED <<process, pc, cur, mutex, rga, events, snapshot, markdown, watcher,
                   crashes>>

DeleteEntry ==
    /\ DeleteRequest
    /\ entryFile' = entry'
    /\ UNCHANGED errors

\* saveToFile fails after the map has changed; the client gets a 500.
DeleteEntryFails ==
    /\ DeleteRequest
    /\ errors < MaxErrors
    /\ errors' = errors + 1
    /\ entryFile' \in Torn(entry')

-----------------------------------------------------------------------------
Replayed_TrustsSnapshot ==                                         \* mutant
    mode = "replaying" /\ (replayed = Len(events) \/ snapshot # NoSnapshot)

\* EntryIDs lists only entries with events: with none there is no view to save.
Replayed == mode = "replaying" /\ replayed = Len(events)

(***************************************************************************)
(* The process ends: goroutines, locks and the RGA in memory are gone; the *)
(* next one starts with the entries that are then on disk.                 *)
(***************************************************************************)
ProcessGone ==
    /\ mode' = "down"
    /\ replayed' = 0
    /\ unwritten' = {}
    /\ pc' = [c \in Conn |-> "idle"]
    /\ cur' = [c \in Conn |-> Nil]
    /\ mutex' = NoConn
    /\ rga' = NewRGA
    /\ entry' = IF entryFile' = Cut THEN Missing ELSE entryFile'
    /\ watcher' = NewRGA
    /\ UNCHANGED <<events, markdown>>

Crashed ==
    /\ crashes < MaxCrashes
    /\ crashes' = crashes + 1
    /\ UNCHANGED <<deletes, errors>>

Crash ==
    /\ mode # "down"
    /\ UNCHANGED <<snapshot, entryFile>>
    /\ ProcessGone
    /\ Crashed

\* os.WriteFile truncates first: a crash inside SaveRGA leaves no snapshot.
CrashInSaveRGA ==
    /\ mode = "restoring" \/ \E c \in Conn : pc[c] = "saved"
    /\ snapshot' = NoSnapshot
    /\ UNCHANGED entryFile
    /\ ProcessGone
    /\ Crashed

(***************************************************************************)
(* The same inside saveToFile: of Apply, of Restore or of a DELETE.        *)
(***************************************************************************)
CrashInSaveEntry ==
    /\ \/ \E c \in Conn : pc[c] = "found"
       \/ Replayed /\ events # <<>> /\ Findable
       \/ mode = "up" /\ deletes < MaxDeletes /\ entry.state # "missing"
    /\ entryFile' \in {Missing, Cut}
    /\ UNCHANGED snapshot
    /\ ProcessGone
    /\ Crashed

\* NewEntryStore returns the parse error: main exits, at this start and every later one.
StartFails ==
    /\ mode = "down" /\ entryFile = Cut
    /\ UNCHANGED vars

(***************************************************************************)
(* Restore: the snapshot if there is one, then every event of the log      *)
(* through RGA.Apply, skipping payloads that do not convert; then the      *)
(* views.  It runs before the server listens.                              *)
(***************************************************************************)
RestoreSnapshot ==
    /\ mode = "down" /\ entryFile # Cut
    /\ mode' = "replaying"
    /\ replayed' = 0
    /\ rga' = IF snapshot = NoSnapshot THEN NewRGA ELSE ImportRGA(snapshot)
    /\ UNCHANGED <<unwritten, pc, cur, mutex, stored, watcher, bounds>>

RestoreEvent ==
    /\ mode = "replaying" /\ replayed < Len(events)
    /\ replayed' = replayed + 1
    /\ LET op == events[replayed + 1]
       IN  rga' = IF op.id = Nil THEN rga ELSE Apply(rga, op)
    /\ UNCHANGED <<mode, unwritten, pc, cur, mutex, stored, watcher, bounds>>

RestoreEntry ==
    /\ Replayed /\ events # <<>> /\ Findable
    /\ mode' = "restoring"
    /\ entry' = Projected
    /\ entryFile' = Projected
    /\ UNCHANGED <<replayed, unwritten, pc, cur, mutex, rga, events, snapshot, markdown, watcher,
                   bounds>>

\* Save fails: Restore returns the error and main exits.
RestoreEntryFails ==
    /\ Replayed /\ events # <<>> /\ Findable
    /\ Fail
    /\ entryFile' \in Torn(Projected)
    /\ ProcessGone
    /\ UNCHANGED snapshot

RestoreFiles_NoMarkdown ==                                         \* mutant
    /\ mode = "restoring"
    /\ mode' = "up"
    /\ snapshot' = Export(rga)
    /\ UNCHANGED <<replayed, unwritten, pc, cur, mutex, rga, events, entry, entryFile, markdown,
                   watcher, bounds>>

RestoreFiles ==
    /\ mode = "restoring"
    /\ mode' = "up"
    /\ snapshot' = Export(rga)
    /\ markdown' = Text(rga)
    /\ UNCHANGED <<replayed, unwritten, pc, cur, mutex, rga, events, entry, entryFile, watcher,
                   bounds>>

\* FindByID fails for an entry deleted or missing: only the RGA in memory is restored.
RestoreSkips ==
    /\ Replayed /\ (events = <<>> \/ ~Findable)
    /\ mode' = "up"
    /\ UNCHANGED <<replayed, unwritten, pc, cur, mutex, rga, stored, watcher, bounds>>

Restore ==
    \/ RestoreSnapshot \/ RestoreEvent \/ RestoreEntry \/ RestoreFiles \/ RestoreSkips
    \/ RestoreEntryFails

Handle(c) ==
    \/ ApplyRefused(c) \/ ApplyRGA(c)
    \/ FindByID(c) \/ FindDeleted(c)
    \/ SaveEntry(c) \/ SaveRGA(c) \/ SaveMarkdown(c)
    \/ SaveEntryFails(c) \/ SaveRGAFails(c) \/ SaveMarkdownFails(c)
    \/ Broadcast(c)

Next ==
    \/ \E c \in Conn, op \in Ops : HandleOp(c, op) \/ HandleOpFails(c, op) \/ HandleDuplicate(c, op)
    \/ \E c \in Conn : Handle(c)
    \/ DeleteEntry
    \/ DeleteEntryFails
    \/ Crash
    \/ CrashInSaveRGA
    \/ CrashInSaveEntry
    \/ Restore
    \/ StartFails

(***************************************************************************)
(* A handler that has started runs on: it waits for the mutex, which is    *)
(* held over finitely many file writes, and for socket writes, which       *)
(* return when the peer reads or the connection breaks.  A process that    *)
(* has ended is started again (restart: unless-stopped in                  *)
(* docker-compose.yml).                                                    *)
(***************************************************************************)
Fairness ==
    /\ \A c \in Conn : WF_vars(Handle(c))
    /\ WF_vars(Restore)

Spec == Init /\ [][Next]_vars /\ Fairness

-----------------------------------------------------------------------------
Quiet == mode = "up" /\ \A c \in Conn : pc[c] = "idle"

Deletes(id) == {op \in Range(events) : op.type = "delete" /\ op.id = id}

(***************************************************************************)
(* Whenever no projection is running, the stored entry shows the text of   *)
(* the RGA, and the markdown file too unless a write has failed: Apply and *)
(* Restore leave no half-written view behind, wherever a crash, an error   *)
(* or an early return fell.                                                *)
(***************************************************************************)
ViewsMatchRGA ==
    mode = "up" /\ mutex = NoConn /\ Findable =>
        /\ entry.text = Text(rga)
        /\ errors = 0 => markdown = Text(rga)

(***************************************************************************)
(* Every event in the log has reached the RGA, is in the hands of a        *)
(* handler, or is one Apply refuses: no acknowledged operation falls       *)
(* between the log and the projection, crashes included.                   *)
(***************************************************************************)
NoEventForgotten ==
    mode = "up" =>
        \A op \in Range(events) :
            \/ op.req \in rga.seen
            \/ \E c \in Conn : pc[c] = "acked" /\ cur[c] = op
            \/ op.id = Nil
            \/ op.type = "delete" /\ ~op.auth

(***************************************************************************)
(* A character typed by an authenticated user disappears only by a delete  *)
(* of an authenticated user.                                               *)
(***************************************************************************)
GuestCannotDelete ==
    \A i \in DOMAIN rga.nodes :
        LET n == rga.nodes[i]
        IN  n.auth /\ n.deleted => \E op \in Deletes(n.id) : op.auth

(***************************************************************************)
(* The same while the process that refused the guest's delete lives.       *)
(***************************************************************************)
GuestCannotDeleteLive ==
    crashes = 0 /\ errors = 0 => GuestCannotDelete

(***************************************************************************)
(* A subscriber connected since the first start shows what the server has, *)
(* once everything in flight is delivered: refused operations are not      *)
(* broadcast, all others are.  (After a failed write or for a deleted      *)
(* entry Apply changes the RGA and still returns false.)                   *)
(***************************************************************************)
WatcherAgrees ==
    Quiet /\ crashes = 0 /\ deletes = 0 /\ errors = 0 => watcher.nodes = rga.nodes

\* The insert and all the characters it was typed after are in the log: ids grow along after.
Rooted(op) ==
    \E chain \in SUBSET {o \in Range(events) : o.type = "insert" /\ o.id # Nil} :
        /\ op \in chain
        /\ \A o \in chain : o.after # Nil => \E parent \in chain : parent.id = o.after

(***************************************************************************)
(* Every insert that was acknowledged eventually shows in the stored entry *)
(* if what it was typed after was acknowledged too, unless the character   *)
(* or the entry has been deleted, or a write of entries.json was cut       *)
(* short.  An insert after a character that the browser dropped waits in   *)
(* the RGA's buffer for ever.                                              *)
(***************************************************************************)
InsertReachesEntry ==
    \A op \in {Stamped(o) : o \in Ops} :
        op.type = "insert" =>
            (op \in Range(events) /\ Rooted(op)) ~>
                \/ ~Findable
                \/ op.id \in Range(entry.text)
                \/ Deletes(op.id) # {}

=============================================================================
