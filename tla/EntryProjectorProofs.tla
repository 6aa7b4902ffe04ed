------------------------- MODULE EntryProjectorProofs -------------------------
(***************************************************************************)
(* What holds of the projection of an entry for every set of connections   *)
(* and operations and any number of crashes, failed writes and deletions.  *)
(*                                                                         *)
(* The views and the log need of the RGA only which requests it has seen   *)
(* and that its text is a function of its state; what the list holds, and  *)
(* that two RGAs which saw the same have the same list, is in RGAProofs.   *)
(***************************************************************************)
EXTENDS EntryProjector, RGAProofs

StampedOps == {Stamped(op) : op \in Ops}

\* The request is in the RGA, or its payload carries no node id.
Projectable(r, op) == op.req \in r.seen \/ op.id = Nil

-----------------------------------------------------------------------------
(***************************************************************************)
(* The inductive invariants, in parts.                                     *)
(***************************************************************************)

IsEntry(e) == DOMAIN e = {"state", "text"} /\ e.state \in {"kept", "deleted", "missing"}
IsFile(e) == IsEntry(e) \/ e = Cut

Shapes ==
    /\ events \in Seq(StampedOps)
    /\ DOMAIN rga = DOMAIN NewRGA
    /\ IsEntry(entry) /\ IsFile(entryFile)

\* The mutex belongs to the handler between ApplyRGA and the end of Apply.
Exclusive == \A c \in Conn : pc[c] \in Locked => mutex = c

\* Until Restore has returned the server does not listen.
NotServing == mode # "up" => mutex = NoConn /\ \A c \in Conn : pc[c] = "idle"

\* A handler under way handles an operation of the log.
InHand == \A c \in Conn : pc[c] # "idle" => cur[c] \in Range(events)

\* A snapshot knows no request that the log does not know.
SnapshotLogged == snapshot # NoSnapshot => snapshot.seen \subseteq Logged

BaseInv == TypeOK /\ Shapes /\ Exclusive /\ NotServing /\ InHand /\ SnapshotLogged

\* Restore replays the whole log, whatever the snapshot had.
Replaying ==
    /\ mode = "replaying" => \A i \in 1 .. replayed : Projectable(rga, events[i])
    /\ mode = "restoring" => \A op \in Range(events) : Projectable(rga, op)

\* Before the first event there is nothing to restore.
Blank ==
    events = <<>> =>
        /\ mode # "restoring"
        /\ rga = NewRGA /\ snapshot = NoSnapshot
        /\ entry.state # "missing" => entry.text = Text(NewRGA)
        /\ entryFile.state \notin {"missing", "cut"} => entryFile.text = Text(NewRGA)
        /\ markdown = Text(NewRGA)
        /\ \A c \in Conn : pc[c] = "idle"

\* Between Save and the end of Apply, and of Restore, the entry shows the RGA.
Saved ==
    /\ \A c \in Conn : pc[c] \in {"saved", "snapped"} =>
           ~Findable \/ entry.text = Text(rga)
    /\ mode = "restoring" => entry.text = Text(rga)

ViewInv == Blank /\ Saved /\ ViewsMatchRGA

-----------------------------------------------------------------------------
(***************************************************************************)
(* Applying an operation marks its request as seen and forgets none,       *)
(* whether it inserts, deletes, waits in the buffer or was seen before.    *)
(***************************************************************************)
LEMMA ApplySeen ==
    ASSUME NEW r, DOMAIN r = DOMAIN NewRGA, NEW op, op.type \in {"insert", "delete"}
    PROVE  /\ DOMAIN Apply(r, op) = DOMAIN NewRGA
           /\ Apply(r, op).seen = r.seen \cup {op.req}
<1> DEFINE known == Update([r EXCEPT !.seen = @ \cup {op.req}], op.id.ts)
           list(s) == [known EXCEPT !.nodes = s.nodes, !.index = s.index,
                                    !.pending = s.pending]
           flushed == Through(flushPending, applyInsert(known, op))
<1>1. DOMAIN NewRGA = {"counter", "nodes", "index", "seen", "pending"}
  BY DEF NewRGA
<1>2. DOMAIN known = DOMAIN NewRGA /\ known.seen = r.seen \cup {op.req}
  BY <1>1 DEF Update
<1> HIDE DEF known
<1>3. CASE op.req \in r.seen
  <2>1. Apply(r, op) = r
    BY <1>3 DEF Apply
  <2> QED
    BY <1>3, <2>1
<1>4. CASE op.req \notin r.seen /\ ~ready(r, op)
  <2>1. Apply(r, op) = [known EXCEPT !.pending = Append(@, op)]
    BY <1>4 DEF Apply, known
  <2> QED
    BY <1>1, <1>2, <2>1
<1>5. CASE op.req \notin r.seen /\ ready(r, op) /\ op.type = "insert"
  <2> HIDE DEF flushed
  <2>1. Apply(r, op) = CHOOSE y \in {list(x) : x \in {flushed}} : TRUE
    BY <1>5 DEF Apply, known, flushed, Through
  <2>2. Apply(r, op) \in {list(x) : x \in {flushed}}
    BY <2>1
  <2>3. Apply(r, op) = list(flushed)
    BY <2>2
  <2> QED
    BY <1>1, <1>2, <2>3
<1>6. CASE op.req \notin r.seen /\ ready(r, op) /\ op.type = "delete"
  <2>1. Apply(r, op) = applyDelete(known, op)
    BY <1>6 DEF Apply, known
  <2> QED
    BY <1>1, <1>2, <2>1 DEF applyDelete
<1> QED
  BY <1>3, <1>4, <1>5, <1>6

\* A snapshot brings back the requests it was taken with.
LEMMA ImportSeen ==
    ASSUME NEW snap
    PROVE  /\ DOMAIN ImportRGA(snap) = DOMAIN NewRGA
           /\ ImportRGA(snap).seen = snap.seen
  BY DEF ImportRGA, NewRGA

\* The operations of the log are inserts and deletes.
LEMMA LoggedOps ==
    ASSUME Shapes
    PROVE  /\ DOMAIN events = 1 .. Len(events) /\ Len(events) \in Nat
           /\ \A op \in Range(events) : op.type \in {"insert", "delete"} /\ op.req \in Logged
<1>1. DOMAIN events = 1 .. Len(events) /\ Len(events) \in Nat
  BY DEF Shapes
<1>2. \A i \in DOMAIN events : events[i] \in StampedOps
  BY DEF Shapes
<1>3. \A op \in StampedOps : op.type \in {"insert", "delete"}
  BY OpsAssumption DEF StampedOps, Stamped
<1> QED
  BY <1>1, <1>2, <1>3 DEF Range, Logged

\* What is written to entries.json, and what an error or a crash leaves of it.
LEMMA EntryShapes ==
    ASSUME Shapes
    PROVE  /\ IsEntry(Projected) /\ Projected.state = "kept" /\ Projected.text = Text(rga)
           /\ IsEntry(Missing) /\ Missing.state = "missing"
           /\ IsFile(Cut) /\ Cut.state = "cut" /\ ~IsEntry(Cut)
           /\ IsFile(entryFile) /\ entryFile.state \in {"kept", "deleted", "missing", "cut"}
           /\ \A f : f \in Torn(Projected) => IsFile(f)
  BY DEF Shapes, IsEntry, IsFile, Projected, Missing, Cut, Torn

\* What a restarted process finds in entries.json.
LEMMA Reopened ==
    ASSUME Shapes, ProcessGone, IsFile(entryFile')
    PROVE  IsEntry(entry')
  BY EntryShapes DEF ProcessGone, IsFile

-----------------------------------------------------------------------------
(***************************************************************************)
(* The base invariant, action by action.                                   *)
(***************************************************************************)
LEMMA BaseHandleOp ==
    ASSUME BaseInv, NEW c \in Conn, NEW op \in Ops, HandleOp(c, op)
    PROVE  BaseInv'
<1> USE DEF BaseInv
<1>1. /\ mode = "up" /\ pc[c] = "idle"
      /\ events' = Append(events, Stamped(op))
      /\ cur' = [cur EXCEPT ![c] = Stamped(op)]
      /\ pc' = [pc EXCEPT ![c] = "acked"]
      /\ UNCHANGED <<process, mutex, rga, entry, entryFile, snapshot, markdown, watcher,
                     bounds>>
  BY DEF HandleOp, Goto
<1>2. Stamped(op) \in StampedOps
  BY DEF StampedOps
<1>3. /\ events \in Seq(StampedOps) /\ events' \in Seq(StampedOps)
      /\ Len(events') = Len(events) + 1
  BY <1>1, <1>2 DEF Shapes
<1>4. /\ \A i \in DOMAIN events : i \in DOMAIN events' /\ events'[i] = events[i]
      /\ Len(events') \in DOMAIN events' /\ events'[Len(events')] = Stamped(op)
  BY <1>1, <1>2, <1>3
<1>5. Range(events) \subseteq Range(events)' /\ Stamped(op) \in Range(events)'
  BY <1>4 DEF Range
<1>6. Logged \subseteq Logged'
  BY <1>4 DEF Logged
<1>7. TypeOK'
  <2>1. replayed' \in 0 .. Len(events')
    BY <1>1, <1>3 DEF TypeOK, process
  <2>2. Range(events)' \subseteq {Stamped(o) : o \in Ops}
    BY <1>3 DEF Range, StampedOps
  <2>3. pc' \in [Conn -> Steps] /\ cur' \in [Conn -> {Stamped(o) : o \in Ops} \cup {Nil}]
    BY <1>1 DEF TypeOK, Steps
  <2>4. mutex' \in {d \in Conn : pc'[d] \in Locked} \cup {NoConn}
    BY <1>1 DEF TypeOK, Locked
  <2>5. rga'.seen \subseteq Logged'
    BY <1>1, <1>6 DEF TypeOK
  <2> QED
    BY <1>1, <2>1, <2>2, <2>3, <2>4, <2>5 DEF TypeOK, process, bounds
<1>8. Shapes'
  BY <1>1, <1>3 DEF Shapes
<1>9. Exclusive' /\ NotServing'
  BY <1>1 DEF Exclusive, NotServing, TypeOK, Locked, process
<1>10. InHand'
  BY <1>1, <1>5 DEF InHand, TypeOK
<1>11. SnapshotLogged'
  BY <1>1, <1>6 DEF SnapshotLogged
<1> QED
  BY <1>7, <1>8, <1>9, <1>10, <1>11

(***************************************************************************)
(* A handler's step that writes neither log nor RGA: it moves on, keeping  *)
(* or giving back the mutex.                                               *)
(***************************************************************************)
LEMMA BaseHandlerMoves ==
    ASSUME BaseInv, NEW c \in Conn, NEW step \in Steps, pc[c] # "idle",
           pc' = [pc EXCEPT ![c] = step],
           \/ cur' = cur
           \/ step = "idle" /\ cur' = [cur EXCEPT ![c] = Nil],
           \/ mutex' = mutex /\ (step \in Locked <=> pc[c] \in Locked)
           \/ mutex' = NoConn /\ pc[c] \in Locked /\ step \notin Locked,
           UNCHANGED <<process, rga, events, crashes, deletes>>,
           errors' \in 0 .. MaxErrors,
           IsEntry(entry'), IsFile(entryFile'),
           snapshot' \in {snapshot, NoSnapshot, Export(rga)}
    PROVE  BaseInv'
<1> USE DEF BaseInv
<1>1. Logged' = Logged /\ Range(events)' = Range(events)
  BY DEF Logged
<1>2. /\ \A d \in Conn : d # c => pc'[d] = pc[d]
      /\ pc'[c] = step
      /\ \A d \in Conn : pc'[d] # "idle" => pc[d] # "idle" /\ cur'[d] = cur[d]
  BY DEF TypeOK
<1>3. Exclusive'
  BY <1>2 DEF Exclusive
<1>4. TypeOK'
  <2>1. pc' \in [Conn -> Steps] /\ cur' \in [Conn -> {Stamped(o) : o \in Ops} \cup {Nil}]
    BY DEF TypeOK
  <2>2. mutex' \in {d \in Conn : pc'[d] \in Locked} \cup {NoConn}
    BY <1>2 DEF TypeOK
  <2>3. entry'.state \in {"kept", "deleted", "missing"} /\ entryFile'.state \in {"kept", "deleted", "missing", "cut"}
    BY DEF IsEntry, IsFile, Cut
  <2> QED
    BY <1>1, <2>1, <2>2, <2>3 DEF TypeOK, process
<1>5. Shapes'
  BY DEF Shapes, IsEntry, IsFile
<1>6. NotServing'
  BY <1>2 DEF NotServing, process
<1>7. InHand'
  BY <1>1, <1>2 DEF InHand
<1>8. SnapshotLogged'
  BY <1>1 DEF SnapshotLogged, TypeOK, Export
<1> QED
  BY <1>3, <1>4, <1>5, <1>6, <1>7, <1>8

\* Apply takes the mutex and adds the request to what the RGA has seen.
LEMMA BaseApplyRGA ==
    ASSUME BaseInv, NEW c \in Conn, ApplyRGA(c)
    PROVE  /\ BaseInv'
           /\ cur[c] \in Range(events)
           /\ rga'.seen = rga.seen \cup {cur[c].req}
<1> USE DEF BaseInv
<1>1. /\ pc[c] = "acked" /\ mutex = NoConn /\ mutex' = c /\ rga' = Apply(rga, cur[c])
      /\ pc' = [pc EXCEPT ![c] = "applied"]
      /\ UNCHANGED <<process, cur, stored, watcher, bounds>>
  BY DEF ApplyRGA, Goto
<1>2. cur[c] \in Range(events)
  BY <1>1 DEF InHand
<1>3. cur[c].type \in {"insert", "delete"} /\ cur[c].req \in Logged
  BY <1>2, LoggedOps
<1>4. DOMAIN rga' = DOMAIN NewRGA /\ rga'.seen = rga.seen \cup {cur[c].req}
  BY <1>1, <1>3, ApplySeen DEF Shapes
<1>5. Logged' = Logged /\ Range(events)' = Range(events)
  BY <1>1 DEF Logged, stored
<1>6. TypeOK'
  <2>1. pc' \in [Conn -> Steps] /\ mutex' \in {d \in Conn : pc'[d] \in Locked} \cup {NoConn}
    BY <1>1 DEF TypeOK, Steps, Locked
  <2>2. rga'.seen \subseteq Logged'
    BY <1>3, <1>4, <1>5 DEF TypeOK
  <2> QED
    BY <1>1, <1>5, <2>1, <2>2 DEF TypeOK, process, stored, bounds
<1>7. Shapes'
  BY <1>1, <1>4 DEF Shapes, stored
<1>8. Exclusive' /\ NotServing'
  BY <1>1, ConnAssumption DEF Exclusive, NotServing, TypeOK, process
<1>9. InHand' /\ SnapshotLogged'
  BY <1>1, <1>2, <1>5 DEF InHand, SnapshotLogged, TypeOK, stored
<1> QED
  BY <1>2, <1>4, <1>6, <1>7, <1>8, <1>9

\* The process ends, with or without the snapshot file: only the log matters.
LEMMA BaseProcessGone ==
    ASSUME BaseInv, ProcessGone, snapshot' \in {snapshot, NoSnapshot}, IsFile(entryFile'),
           crashes' \in 0 .. MaxCrashes, errors' \in 0 .. MaxErrors, UNCHANGED deletes
    PROVE  BaseInv'
<1> USE DEF BaseInv
<1>1. Logged' = Logged /\ Range(events)' = Range(events)
  BY DEF Logged, ProcessGone
<1>2. TypeOK'
  <2>1. pc' \in [Conn -> Steps] /\ cur' \in [Conn -> {Stamped(o) : o \in Ops} \cup {Nil}]
    BY DEF ProcessGone, Steps
  <2>2. replayed' \in 0 .. Len(events')
    BY DEF ProcessGone, TypeOK, Shapes
  <2>3. rga'.seen = {}
    BY DEF ProcessGone, NewRGA
  <2>4. /\ entry'.state \in {"kept", "deleted", "missing"}
        /\ entryFile'.state \in {"kept", "deleted", "missing", "cut"}
    BY Reopened DEF IsEntry, IsFile, Cut
  <2> QED
    BY <1>1, <2>1, <2>2, <2>3, <2>4 DEF TypeOK, ProcessGone
<1>3. Shapes'
  BY Reopened DEF Shapes, ProcessGone, IsEntry, IsFile
<1>4. Exclusive' /\ NotServing' /\ InHand'
  BY DEF Exclusive, NotServing, InHand, ProcessGone, Locked
<1>5. SnapshotLogged'
  BY <1>1 DEF SnapshotLogged
<1> QED
  BY <1>2, <1>3, <1>4, <1>5

(***************************************************************************)
(* Restore's steps run before any handler: the RGA knows only requests of  *)
(* the log, from the snapshot or from the events replayed.                 *)
(***************************************************************************)
LEMMA BaseRestoring ==
    ASSUME BaseInv, mode # "up",
           mode' \in {"replaying", "restoring", "up"}, replayed' \in 0 .. Len(events),
           DOMAIN rga' = DOMAIN NewRGA, rga'.seen \subseteq Logged,
           IsEntry(entry'), IsFile(entryFile'),
           snapshot' = snapshot \/ snapshot' = Export(rga),
           UNCHANGED <<unwritten, pc, cur, mutex, events, bounds>>
    PROVE  BaseInv'
<1> USE DEF BaseInv
<1>1. Logged' = Logged /\ Range(events)' = Range(events)
  BY DEF Logged
<1>2. TypeOK'
  <2>1. /\ entry'.state \in {"kept", "deleted", "missing"}
        /\ entryFile'.state \in {"kept", "deleted", "missing", "cut"}
    BY DEF IsEntry, IsFile, Cut
  <2> QED
    BY <1>1, <2>1 DEF TypeOK, bounds
<1>3. Shapes'
  BY DEF Shapes, IsEntry, IsFile
<1>4. Exclusive' /\ NotServing' /\ InHand'
  BY <1>1 DEF Exclusive, NotServing, InHand
<1>5. SnapshotLogged'
  BY <1>1 DEF SnapshotLogged, Export, TypeOK
<1> QED
  BY <1>2, <1>3, <1>4, <1>5

\* An event replayed is seen afterwards, unless it carries no node id.
LEMMA ReplayOne ==
    ASSUME BaseInv, RestoreEvent
    PROVE  /\ DOMAIN rga' = DOMAIN NewRGA
           /\ rga.seen \subseteq rga'.seen /\ rga'.seen \subseteq Logged
           /\ replayed + 1 \in DOMAIN events /\ replayed' = replayed + 1
           /\ Projectable(rga', events[replayed + 1])
<1> DEFINE op == events[replayed + 1]
<1>1. /\ mode = "replaying" /\ replayed < Len(events) /\ replayed' = replayed + 1
      /\ rga' = IF op.id = Nil THEN rga ELSE Apply(rga, op)
  BY DEF RestoreEvent
<1>2. /\ replayed \in 0 .. Len(events) /\ rga.seen \subseteq Logged
      /\ DOMAIN rga = DOMAIN NewRGA
  BY DEF BaseInv, TypeOK, Shapes
<1>3. DOMAIN events = 1 .. Len(events) /\ Len(events) \in Nat
  BY LoggedOps DEF BaseInv
<1>4. replayed + 1 \in DOMAIN events
  BY <1>1, <1>2, <1>3
<1>5. op.type \in {"insert", "delete"} /\ op.req \in Logged
  BY <1>4, LoggedOps DEF BaseInv, Range
<1> HIDE DEF op
<1>6. CASE op.id = Nil
  BY <1>1, <1>2, <1>4, <1>6 DEF Projectable, op
<1>7. CASE op.id # Nil
  <2>1. DOMAIN rga' = DOMAIN NewRGA /\ rga'.seen = rga.seen \cup {op.req}
    BY <1>1, <1>2, <1>5, <1>7, ApplySeen
  <2> QED
    BY <1>1, <1>2, <1>4, <1>5, <2>1 DEF Projectable, op
<1> QED
  BY <1>6, <1>7

\* The error counter stays within its bound.
LEMMA Failing ==
    ASSUME TypeOK, Fail
    PROVE  errors' \in 0 .. MaxErrors /\ errors' # 0 /\ UNCHANGED <<crashes, deletes>>
  BY BoundAssumption DEF TypeOK, Fail

\* Every step keeps the base invariant.
LEMMA BaseStep == BaseInv /\ [Next]_vars => BaseInv'
<1> SUFFICES ASSUME BaseInv, [Next]_vars PROVE BaseInv'
  OBVIOUS
<1> USE DEF Goto, Return
<1>0. TypeOK /\ errors \in 0 .. MaxErrors
  BY DEF BaseInv, TypeOK
<1>1. /\ Shapes /\ IsEntry(entry) /\ IsFile(entryFile)
      /\ IsEntry(Projected) /\ IsFile(Projected) /\ IsFile(Missing) /\ IsFile(Cut)
      /\ \A f : f \in Torn(Projected) => IsFile(f)
  BY EntryShapes DEF BaseInv, Shapes, IsFile
<1>2. ASSUME NEW c \in Conn, NEW op \in Ops, HandleOp(c, op) PROVE BaseInv'
  BY <1>2, BaseHandleOp
<1>3. ASSUME NEW c \in Conn, ApplyRefused(c) PROVE BaseInv'
  BY <1>0, <1>1, <1>3, BaseHandlerMoves DEF ApplyRefused, Steps, Locked, stored, bounds
<1>4. ASSUME NEW c \in Conn, ApplyRGA(c) PROVE BaseInv'
  BY <1>4, BaseApplyRGA
<1>5. ASSUME NEW c \in Conn, FindByID(c) PROVE BaseInv'
  BY <1>0, <1>1, <1>5, BaseHandlerMoves DEF FindByID, Steps, Locked, stored, bounds
<1>6. ASSUME NEW c \in Conn, FindDeleted(c) PROVE BaseInv'
  BY <1>0, <1>1, <1>6, BaseHandlerMoves DEF FindDeleted, Steps, Locked, stored, bounds
<1>7. ASSUME NEW c \in Conn, SaveEntry(c) PROVE BaseInv'
  BY <1>0, <1>1, <1>7, BaseHandlerMoves DEF SaveEntry, Steps, Locked, bounds
<1>8. ASSUME NEW c \in Conn, SaveEntryFails(c) PROVE BaseInv'
  BY <1>0, <1>1, <1>8, BaseHandlerMoves, Failing DEF SaveEntryFails, Steps, Locked
<1>9. ASSUME NEW c \in Conn, SaveRGA(c) PROVE BaseInv'
  BY <1>0, <1>1, <1>9, BaseHandlerMoves DEF SaveRGA, Steps, Locked, bounds
<1>10. ASSUME NEW c \in Conn, SaveRGAFails(c) PROVE BaseInv'
  BY <1>0, <1>1, <1>10, BaseHandlerMoves, Failing DEF SaveRGAFails, Steps, Locked
<1>11. ASSUME NEW c \in Conn, SaveMarkdown(c) PROVE BaseInv'
  BY <1>0, <1>1, <1>11, BaseHandlerMoves DEF SaveMarkdown, Steps, Locked, bounds
<1>12. ASSUME NEW c \in Conn, SaveMarkdownFails(c) PROVE BaseInv'
  BY <1>0, <1>1, <1>12, BaseHandlerMoves, Failing DEF SaveMarkdownFails, Steps, Locked, stored
<1>13. ASSUME NEW c \in Conn, Broadcast(c) PROVE BaseInv'
  BY <1>0, <1>1, <1>13, BaseHandlerMoves DEF Broadcast, Steps, Locked, stored, bounds
<1>14. ASSUME DeleteEntry \/ DeleteEntryFails PROVE BaseInv'
  <2>1. /\ entry' = [entry EXCEPT !.state = "deleted"]
        /\ entryFile' \in {entry', entryFile, Missing, Cut}
        /\ UNCHANGED <<process, pc, cur, mutex, rga, events, snapshot, crashes>>
    BY <1>14 DEF DeleteEntry, DeleteEntryFails, DeleteRequest, Torn
  <2>2. deletes' \in 0 .. MaxDeletes /\ errors' \in 0 .. MaxErrors
    BY <1>0, <1>14, BoundAssumption DEF DeleteEntry, DeleteEntryFails, DeleteRequest, TypeOK
  <2>3. Logged' = Logged /\ Range(events)' = Range(events)
    BY <2>1 DEF Logged
  <2>4. IsEntry(entry') /\ IsFile(entryFile')
    BY <1>1, <2>1 DEF IsEntry, IsFile
  <2>5. Shapes'
    BY <1>1, <2>1, <2>4 DEF Shapes, IsEntry, IsFile
  <2>6. /\ entry'.state \in {"kept", "deleted", "missing"}
        /\ entryFile'.state \in {"kept", "deleted", "missing", "cut"}
    BY <2>4 DEF IsEntry, IsFile, Cut
  <2>7. TypeOK'
    BY <2>1, <2>2, <2>3, <2>6 DEF BaseInv, TypeOK, process
  <2> QED
    BY <2>1, <2>3, <2>5, <2>7
    DEF BaseInv, Exclusive, NotServing, InHand, SnapshotLogged, process
<1>15. ASSUME Crash \/ CrashInSaveRGA \/ CrashInSaveEntry PROVE BaseInv'
  <2>1. crashes' \in 0 .. MaxCrashes /\ UNCHANGED <<deletes, errors>>
    BY <1>0, <1>15, BoundAssumption DEF Crash, CrashInSaveRGA, CrashInSaveEntry, Crashed, TypeOK
  <2>2. IsFile(entryFile')
    BY <1>1, <1>15 DEF Crash, CrashInSaveRGA, CrashInSaveEntry, IsFile, IsEntry
  <2> QED
    BY <1>0, <1>15, <2>1, <2>2, BaseProcessGone DEF Crash, CrashInSaveRGA, CrashInSaveEntry
<1>16. ASSUME RestoreEntryFails PROVE BaseInv'
  <2>1. crashes' \in 0 .. MaxCrashes
    BY <1>0, <1>16, Failing DEF RestoreEntryFails, TypeOK
  <2> QED
    BY <1>0, <1>1, <1>16, <2>1, BaseProcessGone, Failing DEF RestoreEntryFails
<1>17. ASSUME RestoreSnapshot PROVE BaseInv'
  <2>1. rga' = IF snapshot = NoSnapshot THEN NewRGA ELSE ImportRGA(snapshot)
    BY <1>17 DEF RestoreSnapshot
  <2>2. CASE snapshot = NoSnapshot
    <3>1. DOMAIN rga' = DOMAIN NewRGA /\ rga'.seen \subseteq Logged
      BY <2>1, <2>2 DEF NewRGA
    <3> QED
      BY <1>0, <1>1, <1>17, <3>1, BaseRestoring DEF RestoreSnapshot, stored, TypeOK
  <2>3. CASE snapshot # NoSnapshot
    <3>1. DOMAIN rga' = DOMAIN NewRGA /\ rga'.seen \subseteq Logged
      BY <2>1, <2>3, ImportSeen DEF BaseInv, SnapshotLogged
    <3> QED
      BY <1>0, <1>1, <1>17, <3>1, BaseRestoring DEF RestoreSnapshot, stored, TypeOK
  <2> QED
    BY <2>2, <2>3
<1>18. ASSUME RestoreEvent PROVE BaseInv'
  <2>1. /\ DOMAIN rga' = DOMAIN NewRGA /\ rga'.seen \subseteq Logged
        /\ replayed' \in 0 .. Len(events)
    BY <1>18, ReplayOne, LoggedOps DEF BaseInv
  <2> QED
    BY <1>1, <1>18, <2>1, BaseRestoring DEF RestoreEvent, stored
<1>19. ASSUME RestoreEntry \/ RestoreFiles \/ RestoreSkips PROVE BaseInv'
  <2>1. /\ mode # "up" /\ mode' \in {"restoring", "up"}
        /\ UNCHANGED <<replayed, unwritten, pc, cur, mutex, rga, events, bounds>>
    BY <1>19 DEF RestoreEntry, RestoreFiles, RestoreSkips, Replayed, stored
  <2>2. /\ IsEntry(entry') /\ IsFile(entryFile')
        /\ snapshot' = snapshot \/ snapshot' = Export(rga)
    BY <1>1, <1>19 DEF RestoreEntry, RestoreFiles, RestoreSkips, stored
  <2>3. /\ replayed' \in 0 .. Len(events)
        /\ DOMAIN rga' = DOMAIN NewRGA /\ rga'.seen \subseteq Logged
    BY <2>1 DEF BaseInv, TypeOK, Shapes
  <2> QED
    BY <2>1, <2>2, <2>3, BaseRestoring
<1>20. ASSUME UNCHANGED vars PROVE BaseInv'
  <2>1. Logged' = Logged /\ Range(events)' = Range(events)
    BY <1>20 DEF Logged, vars, stored
  <2>2. TypeOK' /\ Shapes'
    BY <1>20, <2>1 DEF BaseInv, TypeOK, Shapes, IsEntry, IsFile, vars, process, stored, bounds
  <2> QED
    BY <1>20, <2>1, <2>2 DEF BaseInv, Exclusive, NotServing, InHand, SnapshotLogged, vars,
                             process, stored, bounds
<1>21. ASSUME NEW c \in Conn, NEW op \in Ops, HandleOpFails(c, op) PROVE BaseInv'
  <2>1. /\ unwritten' = unwritten \cup {op.req}
        /\ UNCHANGED <<mode, replayed, pc, cur, mutex, rga, stored>>
        /\ errors' \in 0 .. MaxErrors /\ UNCHANGED <<crashes, deletes>>
    BY <1>0, <1>21, Failing DEF HandleOpFails
  <2>2. Logged' = Logged /\ Range(events)' = Range(events)
    BY <2>1 DEF Logged, stored
  <2>3. TypeOK' /\ Shapes'
    BY <2>1, <2>2 DEF BaseInv, TypeOK, Shapes, IsEntry, IsFile, stored
  <2> QED
    BY <2>1, <2>2, <2>3 DEF BaseInv, Exclusive, NotServing, InHand, SnapshotLogged, stored
<1> QED
  BY <1>2, <1>3, <1>4, <1>5, <1>6, <1>7, <1>8, <1>9, <1>10, <1>11, <1>12, <1>13, <1>14, <1>15,
     <1>16, <1>17, <1>18, <1>19, <1>20, <1>21
  DEF Next, Handle, Restore, HandleDuplicate, StartFails

\* The base invariant holds of the projector.
LEMMA Base == Spec => []BaseInv
<1>1. Init => BaseInv
  <2> SUFFICES ASSUME Init PROVE BaseInv
    OBVIOUS
  <2>1. /\ events = <<>> /\ Len(events) = 0 /\ DOMAIN events = {}
        /\ events \in Seq(StampedOps)
    BY DEF Init
  <2>2. rga.seen = {} /\ DOMAIN rga = DOMAIN NewRGA
    BY DEF Init, NewRGA
  <2>3. TypeOK
    BY <2>1, <2>2, BoundAssumption DEF Init, TypeOK, Steps, Range
  <2>4. Shapes
    BY <2>1, <2>2 DEF Init, Shapes, IsEntry, IsFile
  <2>5. Exclusive /\ NotServing /\ InHand /\ SnapshotLogged
    BY DEF Init, Exclusive, NotServing, InHand, SnapshotLogged, Locked
  <2> QED
    BY <2>3, <2>4, <2>5 DEF BaseInv
<1> QED
  BY <1>1, BaseStep, PTL DEF Spec

(***************************************************************************)
(* The projector's state is well typed and no RGA, in memory or in a       *)
(* snapshot, knows a request that the event log does not, for any          *)
(* connections, operations and faults.                                     *)
(***************************************************************************)
THEOREM TypeCorrect == Spec => []TypeOK
<1>1. BaseInv => TypeOK
  BY DEF BaseInv
<1> QED
  BY <1>1, Base, PTL

-----------------------------------------------------------------------------
(***************************************************************************)
(* A step that changes neither mode, log nor RGA, and takes an operation   *)
(* out of the hands of a handler only if Apply refuses it, forgets none.   *)
(***************************************************************************)
LEMMA NothingLost ==
    ASSUME NoEventForgotten, Replaying, UNCHANGED <<mode, replayed, events, rga>>,
           \A c \in Conn : pc[c] = "acked" =>
               \/ pc'[c] = "acked" /\ cur'[c] = cur[c]
               \/ cur[c].id = Nil
               \/ cur[c].type = "delete" /\ ~cur[c].auth
    PROVE  NoEventForgotten' /\ Replaying'
<1>1. Range(events)' = Range(events)
  OBVIOUS
<1>2. NoEventForgotten'
  BY <1>1 DEF NoEventForgotten
<1>3. Replaying'
  BY <1>1 DEF Replaying, Projectable
<1> QED
  BY <1>2, <1>3

\* Every step keeps the log projected, in hand, or refused.
LEMMA ForgetStep ==
    BaseInv /\ NoEventForgotten /\ Replaying /\ [Next]_vars => NoEventForgotten' /\ Replaying'
<1> SUFFICES ASSUME BaseInv, NoEventForgotten, Replaying, [Next]_vars
             PROVE  NoEventForgotten' /\ Replaying'
  OBVIOUS
<1>1. pc \in [Conn -> Steps] /\ cur \in [Conn -> {Stamped(op) : op \in Ops} \cup {Nil}]
  BY DEF BaseInv, TypeOK
<1>2. DOMAIN events = 1 .. Len(events) /\ Len(events) \in Nat
  BY LoggedOps DEF BaseInv
<1>3. ASSUME NEW c \in Conn, NEW op \in Ops, HandleOp(c, op)
      PROVE  NoEventForgotten' /\ Replaying'
  <2>1. /\ mode = "up" /\ pc[c] = "idle"
        /\ events' = Append(events, Stamped(op))
        /\ cur' = [cur EXCEPT ![c] = Stamped(op)]
        /\ pc' = [pc EXCEPT ![c] = "acked"]
        /\ UNCHANGED <<mode, rga>>
    BY <1>3 DEF HandleOp, Goto, process
  <2>2. \A o \in Range(events)' : o \in Range(events) \/ o = Stamped(op)
    <3>1. events \in Seq(StampedOps) /\ Stamped(op) \in StampedOps
      BY DEF BaseInv, Shapes, StampedOps
    <3>2. \A i \in DOMAIN events' :
             (i \in DOMAIN events /\ events'[i] = events[i]) \/ events'[i] = Stamped(op)
      BY <2>1, <3>1
    <3> QED
      BY <3>2 DEF Range
  <2>3. pc'[c] = "acked" /\ cur'[c] = Stamped(op)
    BY <1>1, <2>1
  <2>4. \A d \in Conn : pc[d] = "acked" => pc'[d] = "acked" /\ cur'[d] = cur[d]
    BY <1>1, <2>1
  <2>5. NoEventForgotten'
    BY <2>1, <2>2, <2>3, <2>4 DEF NoEventForgotten
  <2>6. Replaying'
    BY <2>1 DEF Replaying
  <2> QED
    BY <2>5, <2>6
<1>4. ASSUME NEW c \in Conn, ApplyRefused(c) PROVE NoEventForgotten' /\ Replaying'
  <2>1. /\ Refused(rga, cur[c]) /\ pc' = [pc EXCEPT ![c] = "idle"]
        /\ cur' = [cur EXCEPT ![c] = Nil] /\ UNCHANGED <<process, events, rga>>
    BY <1>4 DEF ApplyRefused, Return, Goto, stored
  <2>2. \A d \in Conn : d # c => pc'[d] = pc[d] /\ cur'[d] = cur[d]
    BY <1>1, <2>1
  <2> QED
    BY <2>1, <2>2, NothingLost DEF Refused, process
<1>5. ASSUME NEW c \in Conn, ApplyRGA(c) PROVE NoEventForgotten' /\ Replaying'
  <2>1. /\ pc[c] = "acked" /\ pc' = [pc EXCEPT ![c] = "applied"]
        /\ UNCHANGED <<mode, cur, events>>
    BY <1>5 DEF ApplyRGA, Goto, process, stored
  <2>2. rga'.seen = rga.seen \cup {cur[c].req}
    BY <1>5, BaseApplyRGA
  <2>3. mode = "up"
    BY <2>1 DEF BaseInv, NotServing
  <2>4. \A d \in Conn : pc[d] = "acked" => d = c \/ pc'[d] = "acked"
    BY <1>1, <2>1
  <2>5. NoEventForgotten'
    BY <2>1, <2>2, <2>3, <2>4 DEF NoEventForgotten
  <2>6. Replaying'
    BY <2>1, <2>3 DEF Replaying
  <2> QED
    BY <2>5, <2>6
<1>6. ASSUME NEW c \in Conn,
             \/ FindByID(c) \/ FindDeleted(c) \/ SaveEntry(c) \/ SaveEntryFails(c)
             \/ SaveRGA(c) \/ SaveRGAFails(c) \/ SaveMarkdown(c) \/ SaveMarkdownFails(c)
             \/ Broadcast(c)
      PROVE  NoEventForgotten' /\ Replaying'
  <2>1. UNCHANGED <<process, events, rga>> /\ pc[c] # "acked"
    BY <1>6 DEF FindByID, FindDeleted, SaveEntry, SaveEntryFails, SaveRGA, SaveRGAFails,
                SaveMarkdown, SaveMarkdownFails, Broadcast, stored
  <2>2. \A d \in Conn : d # c => pc'[d] = pc[d] /\ cur'[d] = cur[d]
    BY <1>1, <1>6 DEF FindByID, FindDeleted, SaveEntry, SaveEntryFails, SaveRGA,
                SaveRGAFails, SaveMarkdown, SaveMarkdownFails, Broadcast, Return, Goto
  <2> QED
    BY <2>1, <2>2, NothingLost DEF process
<1>7. ASSUME DeleteEntry \/ DeleteEntryFails PROVE NoEventForgotten' /\ Replaying'
  <2>1. UNCHANGED <<process, events, rga, pc, cur>>
    BY <1>7 DEF DeleteEntry, DeleteEntryFails, DeleteRequest
  <2> QED
    BY <2>1, NothingLost DEF process
<1>8. ASSUME Crash \/ CrashInSaveRGA \/ CrashInSaveEntry \/ RestoreEntryFails
      PROVE  NoEventForgotten' /\ Replaying'
  <2>1. mode' = "down"
    BY <1>8 DEF Crash, CrashInSaveRGA, CrashInSaveEntry, RestoreEntryFails, ProcessGone
  <2> QED
    BY <2>1 DEF NoEventForgotten, Replaying
<1>9. ASSUME RestoreSnapshot PROVE NoEventForgotten' /\ Replaying'
  <2>1. mode' = "replaying" /\ replayed' = 0
    BY <1>9 DEF RestoreSnapshot
  <2> QED
    BY <2>1 DEF NoEventForgotten, Replaying
<1>10. ASSUME RestoreEvent PROVE NoEventForgotten' /\ Replaying'
  <2>1. mode = "replaying" /\ mode' = mode /\ events' = events
    BY <1>10 DEF RestoreEvent, stored
  <2>2. /\ rga.seen \subseteq rga'.seen /\ replayed' = replayed + 1
        /\ Projectable(rga', events[replayed + 1])
    BY <1>10, ReplayOne
  <2>3. \A i \in 1 .. replayed' : i \in 1 .. replayed \/ i = replayed + 1
    BY <2>2 DEF BaseInv, TypeOK
  <2>4. \A i \in 1 .. replayed' : Projectable(rga', events[i])
    BY <2>1, <2>2, <2>3 DEF Replaying, Projectable
  <2> QED
    BY <2>1, <2>4 DEF NoEventForgotten, Replaying
<1>11. ASSUME RestoreEntry \/ RestoreSkips PROVE NoEventForgotten' /\ Replaying'
  <2>1. /\ mode = "replaying" /\ replayed = Len(events) /\ mode' \in {"restoring", "up"}
        /\ UNCHANGED <<events, rga>>
    BY <1>11 DEF RestoreEntry, RestoreSkips, Replayed, stored
  <2>2. \A op \in Range(events) : Projectable(rga, op)
    BY <1>2, <2>1 DEF Replaying, Range
  <2> QED
    BY <2>1, <2>2 DEF NoEventForgotten, Replaying, Projectable
<1>12. ASSUME RestoreFiles PROVE NoEventForgotten' /\ Replaying'
  <2>1. mode = "restoring" /\ mode' = "up" /\ UNCHANGED <<events, rga>>
    BY <1>12 DEF RestoreFiles
  <2> QED
    BY <2>1 DEF NoEventForgotten, Replaying, Projectable
<1>13. ASSUME UNCHANGED vars PROVE NoEventForgotten' /\ Replaying'
  BY <1>13, NothingLost DEF vars, stored, process
<1>14. ASSUME NEW c \in Conn, NEW op \in Ops, HandleOpFails(c, op)
       PROVE  NoEventForgotten' /\ Replaying'
  BY <1>14, NothingLost DEF HandleOpFails, stored
<1> QED
  BY <1>3, <1>4, <1>5, <1>6, <1>7, <1>8, <1>9, <1>10, <1>11, <1>12, <1>13, <1>14
  DEF Next, Handle, Restore, HandleDuplicate, StartFails

(***************************************************************************)
(* No acknowledged operation falls between the event log and the           *)
(* projection: whatever crashes and failed writes came between append,     *)
(* Apply and Restore, once the server is up each event is in the RGA, in   *)
(* the hands of its handler, or one that Apply refuses.                    *)
(***************************************************************************)
THEOREM NothingForgotten == Spec => []NoEventForgotten
<1>1. Init => NoEventForgotten /\ Replaying
  BY DEF Init, NoEventForgotten, Replaying, Range
<1> QED
  BY <1>1, ForgetStep, Base, PTL DEF Spec

-----------------------------------------------------------------------------
(***************************************************************************)
(* Every step keeps the views in step with the RGA, or leaves a handler or *)
(* Restore that will bring them up to date.                                *)
(***************************************************************************)
LEMMA ViewStep == BaseInv /\ ViewInv /\ [Next]_vars => ViewInv'
<1> SUFFICES ASSUME BaseInv, ViewInv, [Next]_vars PROVE ViewInv'
  OBVIOUS
<1> USE DEF ViewInv
<1>1. /\ pc \in [Conn -> Steps] /\ errors \in Nat
      /\ Shapes /\ DOMAIN entry = {"state", "text"}
  BY BoundAssumption DEF BaseInv, TypeOK, Shapes, IsEntry
<1>2. /\ \A c \in Conn : pc[c] \in Locked => mutex = c
      /\ mode # "up" => mutex = NoConn /\ \A c \in Conn : pc[c] = "idle"
  BY DEF BaseInv, Exclusive, NotServing
<1>3. ASSUME NEW c \in Conn, NEW op \in Ops, HandleOp(c, op) PROVE ViewInv'
  <2>1. /\ pc' = [pc EXCEPT ![c] = "acked"] /\ events' = Append(events, Stamped(op))
        /\ UNCHANGED <<process, mutex, rga, entry, entryFile, snapshot, markdown, errors>>
    BY <1>3 DEF HandleOp, Goto, bounds
  <2>2. events' # <<>>
    BY <2>1 DEF BaseInv, Shapes, StampedOps
  <2>3. \A d \in Conn : pc'[d] \in {"saved", "snapped"} => pc[d] = pc'[d]
    BY <1>1, <2>1
  <2> QED
    BY <2>1, <2>2, <2>3 DEF Blank, Saved, ViewsMatchRGA, Findable, process
<1>4. ASSUME NEW c \in Conn, ApplyRefused(c) \/ Broadcast(c) \/ FindByID(c) PROVE ViewInv'
  <2>1. /\ UNCHANGED <<process, mutex, rga, events, entry, entryFile, snapshot, markdown,
                       errors>>
        /\ pc[c] # "idle"
    BY <1>4 DEF ApplyRefused, Broadcast, FindByID, stored, bounds
  <2>2. \A d \in Conn : pc'[d] = pc[d] \/ (d = c /\ pc'[d] \in {"idle", "found"})
    <3>1. PICK step \in {"idle", "found"} : pc' = [pc EXCEPT ![c] = step]
      BY <1>4 DEF ApplyRefused, Broadcast, FindByID, Return, Goto
    <3>2. pc'[c] = step /\ \A d \in Conn : d # c => pc'[d] = pc[d]
      BY <1>1, <3>1
    <3> QED
      BY <3>2
  <2> QED
    BY <2>1, <2>2 DEF Blank, Saved, ViewsMatchRGA, Findable, process
<1>5. ASSUME NEW c \in Conn, ApplyRGA(c) PROVE ViewInv'
  <2>1. /\ pc[c] = "acked" /\ mutex = NoConn /\ mutex' = c
        /\ pc' = [pc EXCEPT ![c] = "applied"] /\ UNCHANGED <<process, events>>
    BY <1>5 DEF ApplyRGA, Goto, stored
  <2>2. events # <<>> /\ mode = "up"
    BY <1>2, <2>1 DEF Blank
  <2>3. \A d \in Conn : pc'[d] \notin {"saved", "snapped"}
    BY <1>1, <1>2, <2>1, ConnAssumption DEF Locked
  <2> QED
    BY <2>1, <2>2, <2>3, ConnAssumption DEF Blank, Saved, ViewsMatchRGA, Findable, process
<1>6. ASSUME NEW c \in Conn, FindDeleted(c) PROVE ViewInv'
  <2>1. /\ pc[c] = "applied" /\ ~Findable /\ mutex' = NoConn
        /\ pc' = [pc EXCEPT ![c] = "idle"]
        /\ UNCHANGED <<process, rga, events, entry, entryFile, snapshot, markdown, errors>>
    BY <1>6 DEF FindDeleted, Return, Goto, stored, bounds
  <2>2. \A d \in Conn : pc'[d] \in {"saved", "snapped"} => pc[d] = pc'[d]
    BY <1>1, <2>1
  <2>3. \A d \in Conn : pc[d] = "idle" => pc'[d] = "idle"
    BY <1>1, <2>1
  <2> QED
    BY <2>1, <2>2, <2>3 DEF Blank, Saved, ViewsMatchRGA, Findable, process
<1>7. ASSUME NEW c \in Conn, SaveEntry(c) PROVE ViewInv'
  <2>1. /\ pc[c] = "found" /\ entry' = Projected /\ pc' = [pc EXCEPT ![c] = "saved"]
        /\ UNCHANGED <<process, mutex, rga, events>>
    BY <1>7 DEF SaveEntry, Goto
  <2>2. events # <<>> /\ mode = "up" /\ mutex = c
    BY <1>2, <2>1 DEF Blank, Locked
  <2>3. entry'.text = Text(rga')
    BY <2>1 DEF Projected
  <2> QED
    BY <2>1, <2>2, <2>3, ConnAssumption DEF Blank, Saved, ViewsMatchRGA, Findable, process
<1>8. ASSUME NEW c \in Conn, SaveEntryFails(c) PROVE ViewInv'
  <2>1. /\ pc[c] = "found" /\ entry' = Projected /\ mutex' = NoConn
        /\ UNCHANGED <<process, rga, events>>
    BY <1>8 DEF SaveEntryFails
  <2>2. errors' # 0
    BY <1>8, Failing DEF SaveEntryFails, BaseInv
  <2>3. events # <<>> /\ mode = "up"
    BY <1>2, <2>1 DEF Blank
  <2>4. entry'.text = Text(rga')
    BY <2>1 DEF Projected
  <2> QED
    BY <2>1, <2>2, <2>3, <2>4 DEF Blank, Saved, ViewsMatchRGA, Findable, process
<1>9. ASSUME NEW c \in Conn, SaveRGA(c) \/ SaveRGAFails(c) PROVE ViewInv'
  <2>1. /\ pc[c] = "saved" /\ pc' = [pc EXCEPT ![c] = "snapped"]
        /\ UNCHANGED <<process, mutex, rga, events, entry, entryFile, markdown>>
    BY <1>9 DEF SaveRGA, SaveRGAFails, Goto
  <2>2. events # <<>> /\ mode = "up" /\ mutex = c
    BY <1>2, <2>1 DEF Blank, Locked
  <2>3. \A d \in Conn : pc'[d] \in {"saved", "snapped"} => pc[d] \in {"saved", "snapped"}
    BY <1>1, <2>1
  <2> QED
    BY <2>1, <2>2, <2>3, ConnAssumption DEF Blank, Saved, ViewsMatchRGA, Findable, process
<1>10. ASSUME NEW c \in Conn, SaveMarkdown(c) \/ SaveMarkdownFails(c) PROVE ViewInv'
  <2>1. /\ pc[c] = "snapped" /\ pc' = [pc EXCEPT ![c] = "broadcast"]
        /\ UNCHANGED <<process, rga, events, entry>>
    BY <1>10 DEF SaveMarkdown, SaveMarkdownFails, Goto, stored
  <2>2. markdown' = Text(rga) \/ errors' # 0
    BY <1>10, Failing DEF SaveMarkdown, SaveMarkdownFails, BaseInv
  <2>3. events # <<>> /\ mode = "up" /\ (~Findable \/ entry.text = Text(rga))
    BY <1>2, <2>1 DEF Blank, Saved, Findable
  <2>4. \A d \in Conn : pc'[d] \in {"saved", "snapped"} => pc[d] \in {"saved", "snapped"}
    BY <1>1, <2>1
  <2> QED
    BY <2>1, <2>2, <2>3, <2>4 DEF Blank, Saved, ViewsMatchRGA, Findable, process
<1>11. ASSUME DeleteEntry \/ DeleteEntryFails PROVE ViewInv'
  <2>1. /\ entry' = [entry EXCEPT !.state = "deleted"] /\ entry.state # "missing"
        /\ entryFile' \in {entry', entryFile, Missing, Cut}
        /\ UNCHANGED <<process, pc, rga, events, snapshot, markdown>>
    BY <1>11 DEF DeleteEntry, DeleteEntryFails, DeleteRequest, Torn
  <2>2. /\ ~Findable' /\ entry'.text = entry.text
        /\ entryFile' \in {Missing, Cut} \/ entryFile' = entryFile \/ entryFile'.text = entry.text
    BY <1>1, <2>1 DEF Findable
  <2>3. Blank'
    BY <1>1, <2>1, <2>2, EntryShapes DEF Blank, process
  <2> QED
    BY <2>1, <2>2, <2>3 DEF Saved, ViewsMatchRGA, Blank, process
<1>12. ASSUME Crash \/ CrashInSaveRGA \/ CrashInSaveEntry \/ RestoreEntryFails PROVE ViewInv'
  <2>1. /\ mode' = "down" /\ rga' = NewRGA
        /\ entry' = IF entryFile' = Cut THEN Missing ELSE entryFile'
        /\ pc' = [c \in Conn |-> "idle"] /\ UNCHANGED <<events, markdown>>
        /\ snapshot' \in {snapshot, NoSnapshot}
    BY <1>12 DEF Crash, CrashInSaveRGA, CrashInSaveEntry, RestoreEntryFails, ProcessGone
  <2>2. events = <<>> => entryFile' \in {entryFile, Missing, Cut}
    BY <1>12 DEF Crash, CrashInSaveRGA, CrashInSaveEntry, RestoreEntryFails
  <2>3. ASSUME events = <<>>
        PROVE  /\ entry'.state # "missing" => entry'.text = Text(NewRGA)
               /\ entryFile'.state \notin {"missing", "cut"} => entryFile'.text = Text(NewRGA)
    <3>1. CASE entryFile' \in {Missing, Cut}
      BY <1>1, <2>1, <3>1, EntryShapes
    <3>2. CASE entryFile' = entryFile /\ entryFile # Cut
      <4>1. IsEntry(entryFile) /\ entry' = entryFile
        BY <1>1, <2>1, <3>2 DEF Shapes, IsFile
      <4> QED
        BY <2>3, <3>2, <4>1 DEF Blank, IsEntry
    <3> QED
      BY <2>2, <2>3, <3>1, <3>2
  <2>4. Blank'
    BY <2>1, <2>3 DEF Blank
  <2> QED
    BY <2>1, <2>4 DEF Saved, ViewsMatchRGA
<1>13. ASSUME RestoreSnapshot PROVE ViewInv'
  <2>1. /\ mode = "down" /\ mode' = "replaying"
        /\ rga' = IF snapshot = NoSnapshot THEN NewRGA ELSE ImportRGA(snapshot)
        /\ UNCHANGED <<pc, events, entry, entryFile, snapshot, markdown>>
    BY <1>13 DEF RestoreSnapshot, stored
  <2> QED
    BY <1>2, <2>1 DEF Blank, Saved, ViewsMatchRGA, Findable
<1>14. ASSUME RestoreEvent PROVE ViewInv'
  <2>1. /\ mode = "replaying"
        /\ UNCHANGED <<mode, pc, events, entry, entryFile, snapshot, markdown>>
    BY <1>14 DEF RestoreEvent, stored
  <2>2. replayed + 1 \in DOMAIN events
    BY <1>14, ReplayOne
  <2>3. events # <<>>
    BY <2>2
  <2> QED
    BY <1>2, <2>1, <2>3 DEF Blank, Saved, ViewsMatchRGA, Findable
<1>15. ASSUME RestoreEntry PROVE ViewInv'
  <2>1. /\ mode = "replaying" /\ mode' = "restoring" /\ events # <<>> /\ entry' = Projected
        /\ UNCHANGED <<pc, rga, events>>
    BY <1>15 DEF RestoreEntry, Replayed
  <2>2. entry'.text = Text(rga')
    BY <2>1 DEF Projected
  <2> QED
    BY <1>2, <2>1, <2>2 DEF Blank, Saved, ViewsMatchRGA, Findable
<1>16. ASSUME RestoreFiles PROVE ViewInv'
  <2>1. /\ mode = "restoring" /\ mode' = "up" /\ markdown' = Text(rga)
        /\ UNCHANGED <<pc, rga, events, entry>>
    BY <1>16 DEF RestoreFiles
  <2> QED
    BY <1>2, <2>1 DEF Blank, Saved, ViewsMatchRGA, Findable
<1>17. ASSUME RestoreSkips PROVE ViewInv'
  <2>1. /\ mode = "replaying" /\ mode' = "up" /\ (events = <<>> \/ ~Findable)
        /\ UNCHANGED <<pc, rga, events, entry, entryFile, snapshot, markdown>>
    BY <1>17 DEF RestoreSkips, Replayed, stored
  <2> QED
    BY <1>2, <2>1 DEF Blank, Saved, ViewsMatchRGA, Findable
<1>18. ASSUME UNCHANGED vars PROVE ViewInv'
  BY <1>18 DEF Blank, Saved, ViewsMatchRGA, Findable, vars, process, stored, bounds
<1>19. ASSUME NEW c \in Conn, NEW op \in Ops, HandleOpFails(c, op) PROVE ViewInv'
  <2>1. /\ UNCHANGED <<mode, pc, mutex, rga, events, entry, entryFile, snapshot, markdown>>
        /\ errors' # 0
    BY <1>19, Failing DEF HandleOpFails, stored, BaseInv
  <2> QED
    BY <2>1 DEF Blank, Saved, ViewsMatchRGA, Findable
<1> QED
  BY <1>3, <1>4, <1>5, <1>6, <1>7, <1>8, <1>9, <1>10, <1>11, <1>12, <1>13, <1>14, <1>15, <1>16,
     <1>17, <1>18, <1>19 DEF Next, Handle, Restore, HandleDuplicate, StartFails

(***************************************************************************)
(* Apply and Restore leave no half-written view behind: whenever the       *)
(* mutex is free and the server is up, the stored entry shows the text of  *)
(* the RGA, and so does the markdown file unless a write has failed,       *)
(* wherever crashes, errors, deletions and early returns fell.             *)
(***************************************************************************)
THEOREM ViewsAgree == Spec => []ViewsMatchRGA
<1>1. Init => ViewInv
  BY DEF Init, ViewInv, Blank, Saved, ViewsMatchRGA, Findable
<1>2. ViewInv => ViewsMatchRGA
  BY DEF ViewInv
<1> QED
  BY <1>1, <1>2, ViewStep, Base, PTL DEF Spec

-----------------------------------------------------------------------------
(***************************************************************************)
(* What the RGA's list holds.  Whichever of Apply, the snapshot and the    *)
(* replay brought them, the operations that the RGA has seen determine it. *)
(***************************************************************************)

\* Of the operations of E, those that x has seen.
SeenIn(x, E) == {op \in E : op.req \in x.seen}

\* x has applied what it has seen, as far as it can be applied.
InStep(x) == Settled(x, SeenIn(x, Range(events)))

\* A request id is appended once.
OneEvent == \A a, b \in Range(events) : a.req = b.req => a = b

\* A guest's delete was applied to a node that no authenticated user typed.
GuestDeletes(T) ==
    \A op \in T : op.type = "delete" /\ ~op.auth =>
        \E o \in T : o.type = "insert" /\ o.id = op.id /\ ~o.auth

ListInv ==
    /\ OneEvent
    /\ InStep(rga)
    /\ snapshot # NoSnapshot => \E x : snapshot = Export(x) /\ InStep(x)
    /\ crashes = 0 /\ errors = 0 => mode = "up" /\ GuestDeletes(SeenIn(rga, Range(events)))

\* The operations of the log that have a node id are operations of an RGA.
LEMMA LogOperations ==
    ASSUME Shapes, OneEvent, NEW S, S \subseteq Range(events), \A op \in S : op.id # Nil
    PROVE  OperationSet(S)
<1>1. \A op \in Range(events) : op \in StampedOps
  BY LoggedOps DEF Shapes, Range
<1>2. ASSUME NEW op \in S PROVE IsOperation(op)
  <2>1. PICK o \in Ops : op = Stamped(o)
    BY <1>1 DEF StampedOps
  <2>2. op.type = o.type /\ op.id = o.id /\ op.after = o.after /\ op.auth \in BOOLEAN
    BY <2>1 DEF Stamped
  <2> QED
    BY <2>2, OpsAssumption DEF IsOperation
<1>3. ASSUME NEW a \in S, NEW b \in S, a.type = "insert", b.type = "insert", a.id = b.id
      PROVE  a = b
  <2>1. PICK o \in Ops, q \in Ops : a = Stamped(o) /\ b = Stamped(q)
    BY <1>1 DEF StampedOps
  <2>2. /\ a.type = o.type /\ a.id = o.id /\ a.req = o.req
        /\ b.type = q.type /\ b.id = q.id /\ b.req = q.req
    BY <2>1 DEF Stamped
  <2>3. a.req = b.req
    BY <1>3, <2>2, OpsAssumption
  <2> QED
    BY <2>3 DEF OneEvent
<1> QED
  BY <1>2, <1>3 DEF OperationSet

\* An event applied to an RGA is one more that it has seen.
LEMMA TakesEvent ==
    ASSUME Shapes, OneEvent, NEW x, InStep(x), NEW op \in Range(events), op.id # Nil
    PROVE  /\ InStep(Apply(x, op))
           /\ Apply(x, op).seen = x.seen \cup {op.req}
           /\ SeenIn(Apply(x, op), Range(events)) = SeenIn(x, Range(events)) \cup {op}
<1> DEFINE E == Range(events)
           S == SeenIn(x, E)
           y == Apply(x, op)
<1>1. Settled(x, S)
  BY DEF InStep
<1>2. CASE op.req \in x.seen
  <2>1. y = x
    BY <1>2, AppliesOnce
  <2>2. op \in S
    BY <1>2 DEF SeenIn
  <2> HIDE DEF y
  <2> QED
    BY <1>2, <2>1, <2>2 DEF y
<1>3. CASE op.req \notin x.seen
  <2>1. op \notin S
    BY <1>3 DEF SeenIn
  <2>2. OperationSet(S \cup {op})
    <3>1. S \cup {op} \subseteq E /\ S \subseteq E
      BY DEF SeenIn
    <3>2. \A o \in S : o.id # Nil
      <4>1. OperationSet(S)
        BY <1>1 DEF Settled, Covers
      <4> HIDE DEF S
      <4> QED
        BY <4>1, NilAssumption DEF OperationSet, IsOperation
    <3> HIDE DEF S, E
    <3>3. \A o \in S \cup {op} : o.id # Nil
      BY <3>2
    <3> QED
      BY <3>1, <3>3, LogOperations DEF E
  <2> HIDE DEF S
  <2>3. Done(x) /\ MayTake(x, S, op)
    BY <1>1, <2>1, <2>2 DEF MayTake, Settled
  <2>4. Took(x, S, op, y)
    BY <1>3, <2>3, Applies, Zenon
  <2> HIDE DEF y
  <2>5. Settled(y, S \cup {op}) /\ y.seen = x.seen \cup {op.req}
    BY <2>4 DEF Took
  <2>6. SeenIn(y, E) = S \cup {op}
    <3>1. \A o \in E : o.req = op.req => o = op
      BY DEF OneEvent
    <3> QED
      BY <2>5, <3>1 DEF SeenIn, S
  <2>7. InStep(y)
    BY <2>5, <2>6 DEF InStep
  <2> QED
    BY <2>5, <2>6, <2>7 DEF y, S
<1> QED
  BY <1>2, <1>3

(***************************************************************************)
(* A guest's delete passes Apply only when the node is there and was not   *)
(* typed by an authenticated user.                                         *)
(***************************************************************************)
LEMMA GuestDeleteAllowed ==
    ASSUME NEW x, NEW T, Settled(x, T), GuestDeletes(T), NEW op, ~Refused(x, op)
    PROVE  GuestDeletes(T \cup {op})
<1>1. ASSUME op.type = "delete", ~op.auth
      PROVE  \E o \in T : o.type = "insert" /\ o.id = op.id /\ ~o.auth
  <2>1. op.id \in DOMAIN x.index /\ ~x.nodes[x.index[op.id]].auth
    BY <1>1 DEF Refused, IsNodeAuthenticated
  <2>2. Listed(x)
    BY SettledFacts
  <2>3. x.index[op.id] \in DOMAIN x.nodes /\ x.nodes[x.index[op.id]].id = op.id
    <3>1. DOMAIN x.nodes = 1 .. Len(x.nodes)
      BY <2>2, ListFacts, Zenon
    <3>2. \A id \in DOMAIN x.index : /\ x.index[id] \in 1 .. Len(x.nodes)
                                    /\ x.nodes[x.index[id]].id = id
      BY <2>2, ListFacts
    <3> QED
      BY <2>1, <3>1, <3>2, Zenon
  <2>4. PICK o \in T : /\ o.type = "insert" /\ o.id = x.nodes[x.index[op.id]].id
                       /\ o.auth = x.nodes[x.index[op.id]].auth
    BY <2>3, SettledFacts
  <2> QED
    BY <2>1, <2>3, <2>4
<1> QED
  BY <1>1 DEF GuestDeletes

\* A step that writes neither log nor RGA, and a snapshot only of the RGA.
LEMMA ListKept ==
    ASSUME ListInv, UNCHANGED <<events, rga>>,
           snapshot' \in {snapshot, NoSnapshot, Export(rga)},
           crashes' = 0 /\ errors' = 0 => crashes = 0 /\ errors = 0 /\ mode' = mode
    PROVE  ListInv'
<1>1. Range(events)' = Range(events)
  OBVIOUS
<1>2. OneEvent' /\ InStep(rga)'
  BY <1>1 DEF ListInv, OneEvent, InStep, SeenIn
<1>3. ASSUME snapshot' # NoSnapshot PROVE \E x : snapshot' = Export(x) /\ InStep(x)'
  <2>1. PICK x : snapshot' = Export(x) /\ InStep(x)
    BY <1>3 DEF ListInv
  <2>2. InStep(x)'
    BY <1>1, <2>1 DEF InStep, SeenIn
  <2> QED
    BY <2>1, <2>2
<1>4. SeenIn(rga, Range(events))' = SeenIn(rga, Range(events))
  BY <1>1 DEF SeenIn
<1>5. crashes' = 0 /\ errors' = 0 => mode' = "up" /\ GuestDeletes(SeenIn(rga, Range(events))')
  BY <1>4 DEF ListInv
<1>6. GuestDeletes(SeenIn(rga, Range(events)))' <=> GuestDeletes(SeenIn(rga, Range(events))')
  BY DEF GuestDeletes
<1> QED
  BY <1>2, <1>3, <1>5, <1>6 DEF ListInv

\* Every step keeps the lists in step with the log.
LEMMA ListStep == BaseInv /\ ListInv /\ [Next]_vars => ListInv'
<1> SUFFICES ASSUME BaseInv, ListInv, [Next]_vars PROVE ListInv'
  OBVIOUS
<1> USE DEF Goto, Return
<1>1. /\ TypeOK /\ Shapes /\ rga.seen \subseteq Logged
      /\ snapshot # NoSnapshot => snapshot.seen \subseteq Logged
  BY DEF BaseInv, TypeOK, SnapshotLogged
<1>2. /\ OneEvent /\ InStep(rga)
      /\ snapshot # NoSnapshot => \E x : snapshot = Export(x) /\ InStep(x)
      /\ crashes = 0 /\ errors = 0 => mode = "up" /\ GuestDeletes(SeenIn(rga, Range(events)))
  BY DEF ListInv
<1>3. ASSUME NEW c \in Conn, NEW op \in Ops, HandleOp(c, op) PROVE ListInv'
  <2> DEFINE E == Range(events)
             s == Stamped(op)
  <2>1. /\ events' = Append(events, s) /\ op.req \notin Logged
        /\ UNCHANGED <<mode, rga, snapshot, crashes, errors>>
    BY <1>3 DEF HandleOp, process, bounds
  <2>2. s.req \notin Logged /\ s \in StampedOps
    BY <2>1 DEF Stamped, StampedOps
  <2> HIDE DEF s
  <2>3. Range(events)' = E \cup {s}
    <3>1. /\ events \in Seq(StampedOps) /\ DOMAIN events = 1 .. Len(events) /\ Len(events) \in Nat
      BY <1>1, LoggedOps DEF Shapes
    <3>2. /\ DOMAIN events' = 1 .. Len(events) + 1 /\ events'[Len(events) + 1] = s
          /\ \A i \in 1 .. Len(events) : events'[i] = events[i]
      BY <2>1, <2>2, <3>1
    <3> QED
      BY <3>1, <3>2 DEF Range
  <2>4. \A o \in E : o.req \in Logged
    BY DEF Range, Logged
  <2>5. OneEvent'
    BY <1>2, <2>2, <2>3, <2>4 DEF OneEvent
  <2>6. ASSUME NEW x, x.seen \subseteq Logged
        PROVE  SeenIn(x, E \cup {s}) = SeenIn(x, E)
    BY <2>2, <2>6 DEF SeenIn
  <2>7. InStep(rga)' /\ SeenIn(rga, Range(events))' = SeenIn(rga, E)
    <3>1. SeenIn(rga, Range(events))' = SeenIn(rga, E \cup {s})
      BY <2>1, <2>3 DEF SeenIn
    <3> QED
      BY <1>1, <1>2, <2>1, <2>6, <3>1 DEF InStep
  <2>8. ASSUME snapshot' # NoSnapshot PROVE \E x : snapshot' = Export(x) /\ InStep(x)'
    <3>1. PICK x : snapshot = Export(x) /\ InStep(x)
      BY <1>2, <2>1, <2>8
    <3>2. x.seen \subseteq Logged
      BY <1>1, <2>1, <2>8, <3>1 DEF Export
    <3>3. InStep(x)'
      BY <2>3, <2>6, <3>1, <3>2 DEF InStep
    <3> QED
      BY <2>1, <3>1, <3>3
  <2>9. GuestDeletes(SeenIn(rga, Range(events)))' <=> GuestDeletes(SeenIn(rga, E))
    BY <2>7 DEF GuestDeletes
  <2> QED
    BY <1>2, <2>1, <2>5, <2>7, <2>8, <2>9 DEF ListInv
<1>4. ASSUME NEW c \in Conn, ApplyRGA(c) PROVE ListInv'
  <2> DEFINE E == Range(events)
             op == cur[c]
  <2>1. /\ ~Refused(rga, op) /\ rga' = Apply(rga, op) /\ op \in E
        /\ UNCHANGED <<mode, events, snapshot, crashes, errors>>
    BY <1>4, BaseApplyRGA DEF ApplyRGA, process, stored, bounds
  <2>2. op.id # Nil
    BY <2>1 DEF Refused
  <2> HIDE DEF op
  <2>3. InStep(rga') /\ SeenIn(rga', E) = SeenIn(rga, E) \cup {op}
    BY <1>1, <1>2, <2>1, <2>2, TakesEvent
  <2>4. Range(events)' = E
    BY <2>1
  <2>5. OneEvent' /\ InStep(rga)'
    BY <1>2, <2>3, <2>4 DEF OneEvent, InStep
  <2>6. ASSUME snapshot' # NoSnapshot PROVE \E x : snapshot' = Export(x) /\ InStep(x)'
    <3>1. PICK x : snapshot' = Export(x) /\ InStep(x)
      BY <1>2, <2>1, <2>6
    <3>2. InStep(x)'
      BY <2>4, <3>1 DEF InStep
    <3> QED
      BY <3>1, <3>2
  <2>7. GuestDeletes(SeenIn(rga, E)) => GuestDeletes(SeenIn(rga, E) \cup {op})
    BY <1>2, <2>1, GuestDeleteAllowed, Zenon DEF InStep
  <2>8. GuestDeletes(SeenIn(rga, Range(events)))' <=> GuestDeletes(SeenIn(rga, E) \cup {op})
    BY <2>3, <2>4 DEF GuestDeletes
  <2> QED
    BY <1>2, <2>1, <2>5, <2>6, <2>7, <2>8 DEF ListInv
<1>5. ASSUME NEW c \in Conn, \/ ApplyRefused(c) \/ FindByID(c) \/ FindDeleted(c) \/ SaveEntry(c)
                             \/ SaveRGA(c) \/ SaveMarkdown(c) \/ Broadcast(c)
      PROVE  ListInv'
  <2>1. UNCHANGED <<mode, events, rga, crashes, errors>>
    BY <1>5 DEF ApplyRefused, FindByID, FindDeleted, SaveEntry, SaveRGA, SaveMarkdown, Broadcast,
                process, stored, bounds
  <2>2. snapshot' \in {snapshot, Export(rga)}
    BY <1>5 DEF ApplyRefused, FindByID, FindDeleted, SaveEntry, SaveRGA, SaveMarkdown, Broadcast,
                stored
  <2> QED
    BY <2>1, <2>2, ListKept
<1>6. ASSUME NEW c \in Conn, SaveEntryFails(c) \/ SaveRGAFails(c) \/ SaveMarkdownFails(c)
      PROVE  ListInv'
  <2>1. UNCHANGED <<events, rga>> /\ snapshot' \in {snapshot, NoSnapshot} /\ Fail
    BY <1>6 DEF SaveEntryFails, SaveRGAFails, SaveMarkdownFails, stored
  <2> QED
    BY <1>1, <2>1, Failing, ListKept
<1>7. ASSUME DeleteEntry \/ DeleteEntryFails PROVE ListInv'
  <2>1. /\ UNCHANGED <<mode, events, rga, snapshot, crashes>>
        /\ errors' = errors \/ (errors' = errors + 1 /\ errors \in Nat)
    BY <1>1, <1>7, BoundAssumption
    DEF DeleteEntry, DeleteEntryFails, DeleteRequest, process, TypeOK
  <2> QED
    BY <2>1, ListKept
<1>8. ASSUME Crash \/ CrashInSaveRGA \/ CrashInSaveEntry \/ RestoreEntryFails PROVE ListInv'
  <2>1. /\ rga' = NewRGA /\ UNCHANGED events /\ snapshot' \in {snapshot, NoSnapshot}
    BY <1>8 DEF Crash, CrashInSaveRGA, CrashInSaveEntry, RestoreEntryFails, ProcessGone
  <2>2. ~(crashes' = 0 /\ errors' = 0)
    <3>1. CASE Crash \/ CrashInSaveRGA \/ CrashInSaveEntry
      BY <1>1, <3>1, BoundAssumption DEF Crash, CrashInSaveRGA, CrashInSaveEntry, Crashed, TypeOK
    <3>2. CASE RestoreEntryFails
      BY <1>1, <3>2, Failing DEF RestoreEntryFails
    <3> QED
      BY <1>8, <3>1, <3>2
  <2>3. Range(events)' = Range(events)
    BY <2>1
  <2>4. InStep(NewRGA)
    <3>1. SeenIn(NewRGA, Range(events)) = {}
      BY Starts DEF SeenIn
    <3> QED
      BY <3>1, Starts DEF InStep
  <2>5. OneEvent' /\ InStep(rga)'
    BY <1>2, <2>1, <2>3, <2>4 DEF OneEvent, InStep
  <2>6. ASSUME snapshot' # NoSnapshot PROVE \E x : snapshot' = Export(x) /\ InStep(x)'
    <3>1. PICK x : snapshot' = Export(x) /\ InStep(x)
      BY <1>2, <2>1, <2>6
    <3>2. InStep(x)'
      BY <2>3, <3>1 DEF InStep
    <3> QED
      BY <3>1, <3>2
  <2> QED
    BY <2>2, <2>5, <2>6 DEF ListInv
<1>9. ASSUME RestoreSnapshot \/ RestoreEvent PROVE ListInv'
  <2>1. /\ mode # "up" /\ UNCHANGED <<events, snapshot, crashes, errors>>
    BY <1>9 DEF RestoreSnapshot, RestoreEvent, stored, bounds
  <2>2. InStep(rga')
    <3>1. CASE RestoreSnapshot /\ snapshot = NoSnapshot
      <4>1. SeenIn(NewRGA, Range(events)) = {}
        BY Starts DEF SeenIn
      <4> QED
        BY <3>1, <4>1, Starts DEF RestoreSnapshot, InStep
    <3>2. CASE RestoreSnapshot /\ snapshot # NoSnapshot
      <4>1. PICK x : snapshot = Export(x) /\ InStep(x)
        BY <1>2, <3>2
      <4>2. Listed(x) /\ IsReplica(x)
        BY <4>1, SettledFacts DEF InStep
      <4>3. ImportRGA(snapshot) = x
        BY <4>1, <4>2, Reimported
      <4> QED
        BY <3>2, <4>1, <4>3 DEF RestoreSnapshot
    <3>3. CASE RestoreEvent
      <4> DEFINE op == events[replayed + 1]
      <4>1. rga' = IF op.id = Nil THEN rga ELSE Apply(rga, op)
        BY <3>3 DEF RestoreEvent
      <4>2. op \in Range(events)
        BY <3>3, ReplayOne DEF Range
      <4> HIDE DEF op
      <4> QED
        BY <1>1, <1>2, <4>1, <4>2, TakesEvent
    <3> QED
      BY <1>9, <3>1, <3>2, <3>3
  <2>3. Range(events)' = Range(events)
    BY <2>1
  <2>4. OneEvent' /\ InStep(rga)'
    BY <1>2, <2>2, <2>3 DEF OneEvent, InStep
  <2>5. ASSUME snapshot' # NoSnapshot PROVE \E x : snapshot' = Export(x) /\ InStep(x)'
    <3>1. PICK x : snapshot' = Export(x) /\ InStep(x)
      BY <1>2, <2>1, <2>5
    <3>2. InStep(x)'
      BY <2>3, <3>1 DEF InStep
    <3> QED
      BY <3>1, <3>2
  <2> QED
    BY <1>2, <2>1, <2>4, <2>5 DEF ListInv
<1>10. ASSUME RestoreEntry \/ RestoreFiles \/ RestoreSkips PROVE ListInv'
  <2>1. /\ mode # "up" /\ UNCHANGED <<events, rga, crashes, errors>>
        /\ snapshot' \in {snapshot, Export(rga)}
    BY <1>10 DEF RestoreEntry, RestoreFiles, RestoreSkips, Replayed, stored, bounds
  <2> QED
    BY <1>2, <2>1, ListKept
<1>11. ASSUME UNCHANGED vars PROVE ListInv'
  BY <1>11, ListKept DEF vars, process, stored, bounds
<1>12. ASSUME NEW c \in Conn, NEW op \in Ops, HandleOpFails(c, op) PROVE ListInv'
  <2>1. /\ UNCHANGED <<mode, events, rga, snapshot, crashes>>
        /\ errors' = errors + 1 /\ errors \in Nat
    BY <1>1, <1>12, BoundAssumption DEF HandleOpFails, Fail, stored, TypeOK
  <2> QED
    BY <2>1, ListKept
<1> QED
  BY <1>3, <1>4, <1>5, <1>6, <1>7, <1>8, <1>9, <1>10, <1>11, <1>12
  DEF Next, Handle, Restore, HandleDuplicate, StartFails

\* The list invariant holds of the projector.
LEMMA Lists == Spec => []ListInv
<1>1. Init => ListInv
  <2> SUFFICES ASSUME Init PROVE ListInv
    OBVIOUS
  <2>1. Range(events) = {} /\ rga = NewRGA /\ snapshot = NoSnapshot /\ mode = "up"
    BY DEF Init, Range
  <2>2. SeenIn(NewRGA, {}) = {}
    BY DEF SeenIn
  <2>3. InStep(rga)
    BY <2>1, <2>2, Starts DEF InStep
  <2> QED
    BY <2>1, <2>2, <2>3 DEF ListInv, OneEvent, GuestDeletes
<1> QED
  BY <1>1, ListStep, Base, PTL DEF Spec

(***************************************************************************)
(* The RGA in memory is always the list of the events it has seen: all of  *)
(* them applied that can be, the rest buffered, whether they came through  *)
(* Apply, from a snapshot or from the replay of the log, in any order and  *)
(* across any crashes.                                                     *)
(***************************************************************************)
THEOREM ListOfTheLog == Spec => []InStep(rga)
<1>1. ListInv => InStep(rga)
  BY DEF ListInv
<1> QED
  BY <1>1, Lists, PTL

(***************************************************************************)
(* While the process that checked the guests' deletes lives, a character   *)
(* of an authenticated user disappears only by an authenticated delete,    *)
(* for all connections, operations and interleavings of their handlers.    *)
(***************************************************************************)
THEOREM GuestsDeleteGuests == Spec => []GuestCannotDeleteLive
<1>1. ListInv => GuestCannotDeleteLive
  <2> SUFFICES ASSUME ListInv, crashes = 0, errors = 0, NEW i \in DOMAIN rga.nodes,
                      rga.nodes[i].auth, rga.nodes[i].deleted
               PROVE  \E op \in Deletes(rga.nodes[i].id) : op.auth
    BY DEF GuestCannotDeleteLive, GuestCannotDelete
  <2> DEFINE T == SeenIn(rga, Range(events))
             n == rga.nodes[i]
  <2>1. Settled(rga, T) /\ GuestDeletes(T) /\ T \subseteq Range(events)
    BY DEF ListInv, InStep, SeenIn
  <2> HIDE DEF T
  <2>2. OperationSet(T)
    BY <2>1 DEF Settled, Covers
  <2>3. PICK ins \in T : ins.type = "insert" /\ ins.id = n.id /\ ins.auth = n.auth
    <3>1. \E op \in T : /\ op.type = "insert" /\ op.id = n.id
                        /\ op.after = n.after /\ op.auth = n.auth
      BY <2>1, SettledFacts, Zenon
    <3> QED
      BY <3>1, Zenon
  <2>4. PICK op \in T : op.type = "delete" /\ op.id = n.id
    <3>1. n.deleted <=> \E op \in T : op.type = "delete" /\ op.id = n.id
      BY <2>1, SettledFacts, Zenon
    <3> QED
      BY <3>1, Zenon
  <2>5. op.auth
    BY <2>1, <2>2, <2>3, <2>4 DEF GuestDeletes, OperationSet
  <2>6. op \in Deletes(n.id)
    BY <2>1, <2>4 DEF Deletes
  <2> QED
    BY <2>5, <2>6
<1> QED
  BY <1>1, Lists, PTL

-----------------------------------------------------------------------------
(***************************************************************************)
(* What a subscriber has been sent.  While nothing has failed, every       *)
(* operation that the RGA has and the subscriber does not is in the hands  *)
(* of a handler that will broadcast it.                                    *)
(***************************************************************************)
ToBroadcast == Locked \cup {"broadcast"}

Faultless == crashes = 0 /\ deletes = 0 /\ errors = 0

WatchInv ==
    Faultless =>
        /\ Findable
        /\ InStep(watcher) /\ watcher.seen \subseteq rga.seen
        /\ \A c \in Conn : pc[c] \in ToBroadcast => cur[c].req \in rga.seen
        /\ \A req \in rga.seen : req \notin watcher.seen =>
               \E c \in Conn : pc[c] \in ToBroadcast /\ cur[c].req = req

\* A handler's step towards its broadcast, or the return of a refused one.
LEMMA WatchKept ==
    ASSUME TypeOK, WatchInv, NEW c \in Conn, NEW step \in Steps,
           pc' = [pc EXCEPT ![c] = step],
           \/ cur' = cur /\ pc[c] \in ToBroadcast /\ step \in ToBroadcast
           \/ cur' = [cur EXCEPT ![c] = Nil] /\ pc[c] \notin ToBroadcast /\ step = "idle",
           UNCHANGED <<events, rga, watcher, bounds>>,
           entry' = entry \/ Findable'
    PROVE  WatchInv'
<1>1. /\ \A d \in Conn : pc'[d] \in ToBroadcast <=> pc[d] \in ToBroadcast
      /\ \A d \in Conn : pc[d] \in ToBroadcast => cur'[d] = cur[d]
  BY DEF TypeOK, ToBroadcast, Locked
<1>2. Range(events)' = Range(events)
  OBVIOUS
<1>3. InStep(watcher) => InStep(watcher)'
  BY <1>2 DEF InStep
<1> QED
  BY <1>1, <1>3 DEF WatchInv, Findable, Faultless, bounds

\* Every step keeps what the subscriber has been sent or will be.
LEMMA WatchStep == BaseInv /\ ListInv /\ WatchInv /\ [Next]_vars => WatchInv'
<1> SUFFICES ASSUME BaseInv, ListInv, WatchInv, [Next]_vars PROVE WatchInv'
  OBVIOUS
<1> USE DEF Goto, Return
<1>1. /\ TypeOK /\ Shapes /\ rga.seen \subseteq Logged
      /\ {crashes, deletes, errors} \subseteq Nat
      /\ pc \in [Conn -> Steps] /\ cur \in [Conn -> {Stamped(op) : op \in Ops} \cup {Nil}]
  BY BoundAssumption DEF BaseInv, TypeOK
<1>2. OneEvent /\ InStep(rga) /\ (crashes = 0 /\ errors = 0 => mode = "up")
  BY DEF ListInv
<1>3. ASSUME NEW c \in Conn, NEW op \in Ops, HandleOp(c, op) PROVE WatchInv'
  <2> DEFINE E == Range(events)
             s == Stamped(op)
  <2>1. /\ pc[c] = "idle" /\ pc' = [pc EXCEPT ![c] = "acked"] /\ cur' = [cur EXCEPT ![c] = s]
        /\ events' = Append(events, s) /\ op.req \notin Logged
        /\ UNCHANGED <<rga, entry, watcher, bounds>>
    BY <1>3 DEF HandleOp
  <2>2. s.req \notin Logged /\ s \in StampedOps
    BY <2>1 DEF Stamped, StampedOps
  <2> HIDE DEF s
  <2>3. Range(events)' = E \cup {s}
    <3>1. /\ events \in Seq(StampedOps) /\ DOMAIN events = 1 .. Len(events) /\ Len(events) \in Nat
      BY <1>1, LoggedOps DEF Shapes
    <3>2. /\ DOMAIN events' = 1 .. Len(events) + 1 /\ events'[Len(events) + 1] = s
          /\ \A i \in 1 .. Len(events) : events'[i] = events[i]
      BY <2>1, <2>2, <3>1
    <3> QED
      BY <3>1, <3>2 DEF Range
  <2>4. ASSUME watcher.seen \subseteq rga.seen, InStep(watcher) PROVE InStep(watcher)'
    <3>1. SeenIn(watcher, E \cup {s}) = SeenIn(watcher, E)
      BY <1>1, <2>2, <2>4 DEF SeenIn
    <3>2. SeenIn(watcher, Range(events))' = SeenIn(watcher, E)
      BY <2>1, <2>3, <3>1 DEF SeenIn
    <3> QED
      BY <2>1, <2>4, <3>2 DEF InStep
  <2>5. /\ \A d \in Conn : pc'[d] \in ToBroadcast <=> pc[d] \in ToBroadcast
        /\ \A d \in Conn : pc[d] \in ToBroadcast => cur'[d] = cur[d]
    BY <1>1, <2>1 DEF ToBroadcast, Locked
  <2> QED
    BY <2>1, <2>4, <2>5 DEF WatchInv, Faultless, Findable, bounds
<1>4. ASSUME NEW c \in Conn, ApplyRGA(c) PROVE WatchInv'
  <2>1. /\ pc[c] = "acked" /\ pc' = [pc EXCEPT ![c] = "applied"]
        /\ rga'.seen = rga.seen \cup {cur[c].req}
        /\ UNCHANGED <<cur, events, entry, watcher, bounds>>
    BY <1>4, BaseApplyRGA DEF ApplyRGA, stored
  <2>2. /\ pc'[c] \in ToBroadcast
        /\ \A d \in Conn : d # c => pc'[d] = pc[d]
        /\ pc[c] \notin ToBroadcast
    BY <1>1, <2>1 DEF ToBroadcast, Locked
  <2>3. Range(events)' = Range(events)
    BY <2>1
  <2>4. InStep(watcher) => InStep(watcher)'
    BY <2>1, <2>3 DEF InStep
  <2> QED
    BY <2>1, <2>2, <2>4 DEF WatchInv, Faultless, Findable, bounds
<1>5. ASSUME NEW c \in Conn, ApplyRefused(c) PROVE WatchInv'
  BY <1>1, <1>5, WatchKept DEF ApplyRefused, stored, Steps, ToBroadcast, Locked
<1>6. ASSUME NEW c \in Conn, FindByID(c) PROVE WatchInv'
  BY <1>1, <1>6, WatchKept DEF FindByID, stored, Steps, ToBroadcast, Locked
<1>7. ASSUME NEW c \in Conn, FindDeleted(c) PROVE WatchInv'
  <2>1. ~Findable /\ UNCHANGED bounds
    BY <1>7 DEF FindDeleted
  <2> QED
    BY <2>1 DEF WatchInv, Faultless, Findable, bounds
<1>8. ASSUME NEW c \in Conn, SaveEntry(c) PROVE WatchInv'
  <2>1. Findable'
    BY <1>8 DEF SaveEntry, Projected, Findable
  <2> QED
    BY <1>1, <1>8, <2>1, WatchKept DEF SaveEntry, Steps, ToBroadcast, Locked
<1>9. ASSUME NEW c \in Conn, SaveRGA(c) PROVE WatchInv'
  BY <1>1, <1>9, WatchKept DEF SaveRGA, Steps, ToBroadcast, Locked
<1>10. ASSUME NEW c \in Conn, SaveMarkdown(c) PROVE WatchInv'
  BY <1>1, <1>10, WatchKept DEF SaveMarkdown, Steps, ToBroadcast, Locked
<1>11. ASSUME NEW c \in Conn, Broadcast(c), Faultless PROVE WatchInv'
  <2> DEFINE op == cur[c]
  <2>1. /\ pc[c] = "broadcast" /\ watcher' = Apply(watcher, op)
        /\ pc' = [pc EXCEPT ![c] = "idle"] /\ cur' = [cur EXCEPT ![c] = Nil]
        /\ UNCHANGED <<rga, events, entry, bounds>>
    BY <1>11 DEF Broadcast, stored
  <2>2. /\ Findable /\ InStep(watcher) /\ watcher.seen \subseteq rga.seen
        /\ \A d \in Conn : pc[d] \in ToBroadcast => cur[d].req \in rga.seen
        /\ \A req \in rga.seen : req \notin watcher.seen =>
               \E d \in Conn : pc[d] \in ToBroadcast /\ cur[d].req = req
    BY <1>11 DEF WatchInv
  <2>3. op \in Range(events) /\ op.req \in rga.seen
    BY <2>1, <2>2 DEF BaseInv, InHand, ToBroadcast
  <2>4. op.id # Nil
    <3>1. op \in SeenIn(rga, Range(events)) /\ OperationSet(SeenIn(rga, Range(events)))
      BY <1>2, <2>3 DEF SeenIn, InStep, Settled, Covers
    <3> QED
      BY <3>1, NilAssumption DEF OperationSet, IsOperation
  <2> HIDE DEF op
  <2>5. InStep(watcher') /\ watcher'.seen = watcher.seen \cup {op.req}
    BY <1>1, <1>2, <2>1, <2>2, <2>3, <2>4, TakesEvent
  <2>6. InStep(watcher)'
    <3>1. Range(events)' = Range(events)
      BY <2>1
    <3> QED
      BY <2>5, <3>1 DEF InStep
  <2>7. \A d \in Conn : /\ pc'[d] \in ToBroadcast => pc[d] \in ToBroadcast /\ cur'[d] = cur[d]
                        /\ d # c => pc'[d] = pc[d] /\ cur'[d] = cur[d]
    BY <1>1, <2>1 DEF ToBroadcast, Locked
  <2>8. ASSUME NEW req \in rga'.seen, req \notin watcher'.seen
        PROVE  \E d \in Conn : pc'[d] \in ToBroadcast /\ cur'[d].req = req
    <3>1. PICK d \in Conn : pc[d] \in ToBroadcast /\ cur[d].req = req
      BY <2>1, <2>2, <2>5, <2>8
    <3>2. d # c
      BY <2>5, <2>8, <3>1 DEF op
    <3> QED
      BY <2>7, <3>1, <3>2
  <2>9. /\ Findable' /\ watcher'.seen \subseteq rga'.seen
        /\ \A d \in Conn : pc'[d] \in ToBroadcast => cur'[d].req \in rga'.seen
    BY <2>1, <2>2, <2>3, <2>5, <2>7 DEF Findable
  <2> QED
    BY <2>6, <2>8, <2>9 DEF WatchInv
<1>12. ASSUME NEW c \in Conn, Broadcast(c), ~Faultless PROVE WatchInv'
  BY <1>12 DEF Broadcast, WatchInv, Faultless, bounds
<1>13. ASSUME \/ \E c \in Conn : SaveEntryFails(c) \/ SaveRGAFails(c) \/ SaveMarkdownFails(c)
              \/ \E c \in Conn, op \in Ops : HandleOpFails(c, op)
              \/ RestoreEntryFails
       PROVE  WatchInv'
  <2>1. Fail
    BY <1>13 DEF HandleOpFails, SaveEntryFails, SaveRGAFails, SaveMarkdownFails, RestoreEntryFails
  <2> QED
    BY <1>1, <2>1, Failing DEF WatchInv, Faultless
<1>14. ASSUME DeleteEntry \/ DeleteEntryFails PROVE WatchInv'
  <2>1. deletes' = deletes + 1
    BY <1>14 DEF DeleteEntry, DeleteEntryFails, DeleteRequest
  <2> QED
    BY <1>1, <2>1 DEF WatchInv, Faultless
<1>15. ASSUME Crash \/ CrashInSaveRGA \/ CrashInSaveEntry PROVE WatchInv'
  <2>1. crashes' = crashes + 1
    BY <1>15 DEF Crash, CrashInSaveRGA, CrashInSaveEntry, Crashed
  <2> QED
    BY <1>1, <2>1 DEF WatchInv, Faultless
<1>16. ASSUME \/ RestoreSnapshot \/ RestoreEvent \/ RestoreEntry \/ RestoreFiles \/ RestoreSkips
       PROVE  WatchInv'
  <2>1. mode # "up" /\ UNCHANGED bounds
    BY <1>16 DEF RestoreSnapshot, RestoreEvent, RestoreEntry, RestoreFiles, RestoreSkips, Replayed
  <2> QED
    BY <1>2, <2>1 DEF WatchInv, Faultless, Findable, bounds
<1>17. ASSUME UNCHANGED vars PROVE WatchInv'
  <2>1. UNCHANGED <<pc, cur, events, rga, entry, watcher, bounds>>
    BY <1>17 DEF vars, stored
  <2>2. InStep(watcher) => InStep(watcher)'
    BY <2>1 DEF InStep
  <2> QED
    BY <2>1, <2>2 DEF WatchInv, Faultless, Findable, bounds
<1> QED
  BY <1>3, <1>4, <1>5, <1>6, <1>7, <1>8, <1>9, <1>10, <1>11, <1>12, <1>13, <1>14, <1>15, <1>16,
     <1>17 DEF Next, Handle, Restore, HandleDuplicate, StartFails

(***************************************************************************)
(* While nothing has failed and nothing is in flight, a subscriber that    *)
(* was sent every broadcast shows the server's list, in whichever order    *)
(* the handlers got through the projector's lock and their broadcasts      *)
(* were sent.                                                              *)
(***************************************************************************)
THEOREM SubscribersAgree == Spec => []WatcherAgrees
<1>1. Init => WatchInv
  <2> SUFFICES ASSUME Init PROVE WatchInv
    OBVIOUS
  <2>1. /\ Range(events) = {} /\ rga = NewRGA /\ watcher = NewRGA /\ Findable
        /\ \A c \in Conn : pc[c] = "idle"
    BY DEF Init, Range, Findable
  <2>2. SeenIn(NewRGA, {}) = {}
    BY DEF SeenIn
  <2>3. InStep(watcher)
    BY <2>1, <2>2, Starts DEF InStep
  <2> QED
    BY <2>1, <2>3, Starts DEF WatchInv, ToBroadcast, Locked
<1>2. ListInv /\ WatchInv => WatcherAgrees
  <2> SUFFICES ASSUME ListInv, WatchInv, Quiet, Faultless
               PROVE  watcher.nodes = rga.nodes
    BY DEF WatcherAgrees, Faultless
  <2>1. watcher.seen = rga.seen
    BY DEF WatchInv, Quiet, ToBroadcast, Locked
  <2>2. SeenIn(watcher, Range(events)) = SeenIn(rga, Range(events))
    BY <2>1 DEF SeenIn
  <2>3. InStep(rga) /\ InStep(watcher)
    BY DEF ListInv, WatchInv
  <2> QED
    BY <2>2, <2>3, Converges DEF InStep
<1> QED
  BY <1>1, <1>2, WatchStep, Lists, Base, PTL DEF Spec

===============================================================================
