--------------------------- MODULE SessionEndpoint ---------------------------
(***************************************************************************)
(* One session of withered (server/domain: session_endpoint.go,            *)
(* session.go, heartbeat_service.go; server/handler/accept.go).            *)
(*                                                                         *)
(* SessionEndpoint.Run starts five goroutines: owner (control events, idle *)
(* timeout, close), read, write, subscribe (session topic to writeCh) and  *)
(* heartbeat.  They share bounded channels, a context and the field        *)
(* roomID, which read writes and owner reads without a lock.  A select     *)
(* with several ready cases takes any of them.                             *)
(*                                                                         *)
(* The room is outside (module Room): what it will believe of the session  *)
(* once it has read its inbox is member.  A publication may always meet a  *)
(* full inbox, and is skipped then.  The room a message is for is the      *)
(* peer's choice: the server serves one, and nobody reads another's topic. *)
(***************************************************************************)
EXTENDS Integers, Sequences

CONSTANTS
    CtrlCap,            \* capacity of ctrlCh (16 in the code)
    WriteCap,           \* capacity of writeCh (1024)
    SubscriptionCap     \* capacity of the session's subscription (1024)

ASSUME QueueAssumption == {CtrlCap, WriteCap, SubscriptionCap} \subseteq Nat \ {0}

VARIABLES
    goroutine,     \* where each goroutine is
    data,          \* the message the read goroutine has in hand
    roomID,        \* se.roomID, "none" when the session is in no room
    closed,        \* se.closed
    cancelled,     \* the context is done
    stale,         \* the stamps of Session older than the idle timeout
    ctrlCh,
    writeCh,
    subscription,  \* the session's subscription: "none", "open", "closed"
    unread,        \* messages in it
    gone,          \* the peer is gone: it sends nothing any more
    member,        \* the last of Join and Leave that reached the room was Join
    spoiled        \* history: one of the faults that CleanLeave names has happened

fields == <<roomID, closed, cancelled, stale>>
queues == <<ctrlCh, writeCh, subscription, unread>>
seenOutside == <<gone, member, spoiled>>
sessionVars == <<goroutine, data, fields, queues, seenOutside>>

Goroutine == {"run", "owner", "read", "write", "subscribe", "heartbeat"}
Loop == Goroutine \ {"run"}
Stamp == {"read", "write", "pong"}
RoomId == {"served", "other"}      \* served: the room of main; a peer can name any other

\* Only a Join and a Leave do different things with different rooms; bad fails to parse.
Incoming ==
    [kind : {"join", "leave"}, room : RoomId]
        \union [kind : {"app", "pong", "bad"}, room : {"served"}]

Nothing == [kind |-> "bad", room |-> "served"]

Enqueue_Unbounded(msg) == writeCh' = Append(writeCh, msg)          \* mutant

\* A send to writeCh that does not block: skipped when it is full.
Enqueue(msg) ==
    writeCh' = IF Len(writeCh) < WriteCap THEN Append(writeCh, msg) ELSE writeCh

SessionTypeOK ==
    /\ goroutine \in [Goroutine -> {"off", "starting", "waiting", "failed", "loop", "handle",
                                    "publish", "cancel", "control", "done"}]
    /\ data \in Incoming
    /\ roomID \in RoomId \union {"none"} /\ closed \in BOOLEAN /\ cancelled \in BOOLEAN
    /\ stale \in SUBSET Stamp
    /\ ctrlCh \in Seq({"close", "pong"}) /\ Len(ctrlCh) <= CtrlCap
    /\ writeCh \in Seq({"assign", "ping", "data"}) /\ Len(writeCh) <= WriteCap
    /\ subscription \in {"none", "open", "closed"}
    /\ unread \in 0 .. SubscriptionCap
    /\ gone \in BOOLEAN /\ member \in BOOLEAN /\ spoiled \in BOOLEAN

SessionInit ==
    /\ goroutine = [g \in Goroutine |-> "off"]
    /\ data = Nothing
    /\ roomID = "none" /\ closed = FALSE /\ cancelled = FALSE
    /\ stale = {}
    /\ ctrlCh = <<>> /\ writeCh = <<>>
    /\ subscription = "none" /\ unread = 0
    /\ gone = FALSE /\ member = FALSE /\ spoiled = FALSE

Goto(g, place) == goroutine' = [goroutine EXCEPT ![g] = place]

Touch(stamp) == stale' = stale \ {stamp}

-----------------------------------------------------------------------------
Accept_StartsHeartbeat ==                                          \* mutant
    /\ goroutine["run"] = "off"
    /\ goroutine' = [g \in Goroutine |-> IF g = "run" THEN "starting" ELSE "loop"]
    /\ subscription' = "open"
    /\ UNCHANGED <<data, fields, ctrlCh, writeCh, unread, seenOutside>>

\* ServeHTTP, and Run up to the start of the first four goroutines.
Accept ==
    /\ goroutine["run"] = "off"
    /\ goroutine' = [g \in Goroutine |-> CASE g = "run" -> "starting"
                                           [] g = "heartbeat" -> "off"
                                           [] g \in Loop \ {"heartbeat"} -> "loop"]
    /\ subscription' = "open"
    /\ UNCHANGED <<data, fields, ctrlCh, writeCh, unread, seenOutside>>

\* Run queues the Assign message and starts the heartbeat.
SendAssign ==
    /\ goroutine["run"] = "starting"
    /\ Len(writeCh) < WriteCap
    /\ Enqueue("assign")
    /\ goroutine' = [goroutine EXCEPT !["run"] = "waiting", !["heartbeat"] = "loop"]
    /\ UNCHANGED <<data, fields, ctrlCh, subscription, unread, seenOutside>>

(***************************************************************************)
(* Send returns ErrBackpressure: Run returns, with it the handler, and     *)
(* net/http cancels the request's context.  close is never called.         *)
(***************************************************************************)
RunFails ==
    /\ goroutine["run"] = "starting"
    /\ Len(writeCh) = WriteCap
    /\ subscription' = "closed"
    /\ cancelled' = TRUE
    /\ Goto("run", "failed")
    /\ spoiled' = TRUE
    /\ UNCHANGED <<data, roomID, closed, stale, ctrlCh, writeCh, unread, gone, member>>

\* eg.Wait returns when every loop has; the deferred Unsubscribe closes the topic.
RunReturns ==
    /\ goroutine["run"] = "waiting"
    /\ \A g \in Loop : goroutine[g] = "done"
    /\ subscription' = "closed"
    /\ Goto("run", "done")
    /\ UNCHANGED <<data, fields, ctrlCh, writeCh, unread, seenOutside>>

\* ctx.Done in the select of a loop.
LoopEnds(g) ==
    /\ g \in Loop /\ goroutine[g] = "loop"
    /\ cancelled
    /\ Goto(g, "done")
    /\ UNCHANGED <<data, fields, queues, seenOutside>>

-----------------------------------------------------------------------------
(***************************************************************************)
(* Publish to the topic of room: sent, skipped because the inbox is full,  *)
(* or given up, because ctx is done or the topic has no subscriber.        *)
(***************************************************************************)
Publish(kind, room) ==
    \/ /\ room = "served"
       /\ member' = CASE kind = "join" -> TRUE
                      [] kind = "leave" -> FALSE
                      [] kind \notin {"join", "leave"} -> member
       /\ spoiled' = (spoiled \/ (kind = "join" /\ closed))
    \/ /\ room = "served"
       /\ spoiled' = (spoiled \/ kind = "leave")
       /\ UNCHANGED member
    \/ /\ cancelled \/ room # "served"
       /\ UNCHANGED <<member, spoiled>>

CloseBegins_NoLeave ==                                             \* mutant
    /\ closed' = TRUE
    /\ stale' = {}
    /\ Goto("owner", IF closed THEN "loop" ELSE "cancel")

(***************************************************************************)
(* close: once, by the compare-and-swap; with roomID set it publishes the  *)
(* Leave first.  The stamps matter no more.                                *)
(***************************************************************************)
CloseBegins ==
    /\ closed' = TRUE
    /\ stale' = {}
    /\ Goto("owner", CASE closed -> "loop"
                       [] ~closed /\ roomID # "none" -> "publish"
                       [] ~closed /\ roomID = "none" -> "cancel")

\* ownerLoop takes a control event.
OwnerEvent ==
    /\ goroutine["owner"] = "loop"
    /\ ctrlCh # <<>>
    /\ ctrlCh' = Tail(ctrlCh)
    /\ \/ Head(ctrlCh) = "close" /\ CloseBegins
       \/ Head(ctrlCh) = "pong" /\ Touch("pong") /\ UNCHANGED <<goroutine, closed>>
    /\ UNCHANGED <<data, roomID, cancelled, writeCh, subscription, unread, seenOutside>>

\* The ticker of ownerLoop finds the session idle: some stamp is too old.
OwnerIdle ==
    /\ goroutine["owner"] = "loop"
    /\ stale # {}
    /\ CloseBegins
    /\ UNCHANGED <<data, roomID, cancelled, queues, seenOutside>>

\* close reads roomID again for the topic of the Leave.
OwnerLeave ==
    /\ goroutine["owner"] = "publish"
    /\ Publish("leave", roomID)
    /\ roomID' = "none"
    /\ Goto("owner", "cancel")
    /\ UNCHANGED <<data, closed, cancelled, stale, queues, gone>>

OwnerCancel_OnlyConnection ==                                      \* mutant
    /\ goroutine["owner"] = "cancel"
    /\ Goto("owner", "loop")
    /\ UNCHANGED <<data, fields, queues, seenOutside>>

\* cancel, session.Close, connection.Close; reads and writes fail from here.
OwnerCancel ==
    /\ goroutine["owner"] = "cancel"
    /\ cancelled' = TRUE
    /\ Goto("owner", "loop")
    /\ UNCHANGED <<data, roomID, closed, stale, queues, seenOutside>>

-----------------------------------------------------------------------------
\* The read goroutine goes to place; it has no message in hand in its loop.
ReaderGoto(place) ==
    /\ Goto("read", place)
    /\ data' = IF place = "loop" THEN Nothing ELSE data

\* What goroutine g, waiting in sendCtrlEvent, has to say.
ControlEvent(g) == IF g = "read" /\ data.kind = "pong" THEN "pong" ELSE "close"

\* After a pong the read loop goes on; after an error the loop returns.
AfterControl(g) ==
    IF ControlEvent(g) = "pong"
    THEN ReaderGoto("loop")
    ELSE Goto(g, "done") /\ UNCHANGED data

SendCtrlEvent(g) ==
    /\ g \in {"read", "write"} /\ goroutine[g] = "control"
    /\ Len(ctrlCh) < CtrlCap
    /\ ctrlCh' = Append(ctrlCh, ControlEvent(g))
    /\ AfterControl(g)
    /\ UNCHANGED <<fields, writeCh, subscription, unread, seenOutside>>

SendCtrlGivesUp(g) ==
    /\ g \in {"read", "write"} /\ goroutine[g] = "control"
    /\ cancelled
    /\ AfterControl(g)
    /\ UNCHANGED <<fields, queues, seenOutside>>

\* A message of the peer arrives.
Read(msg) ==
    /\ goroutine["read"] = "loop"
    /\ ~cancelled /\ ~gone
    /\ data' = msg
    /\ Touch("read")
    /\ Goto("read", "handle")
    /\ UNCHANGED <<roomID, closed, cancelled, queues, seenOutside>>

\* Inside Read the context is done or the connection broke: it returns an error.
ReadFails ==
    /\ goroutine["read"] = "loop"
    /\ cancelled \/ gone
    /\ Goto("read", "control")
    /\ UNCHANGED <<data, fields, queues, seenOutside>>

\* The message in hand makes the session forget the room that it is in.
Strays == data.kind \in {"join", "leave"} /\ roomID = "served" /\ data.room # roomID

(***************************************************************************)
(* handleData: a pong goes to the owner; a Join sets roomID, before it is  *)
(* published, to the room it names, whichever roomID was before.           *)
(***************************************************************************)
HandleData ==
    /\ goroutine["read"] = "handle"
    /\ roomID' = IF data.kind = "join" THEN data.room ELSE roomID
    /\ spoiled' = (spoiled \/ Strays)
    /\ ReaderGoto(CASE data.kind = "pong" -> "control"
                    [] data.kind = "bad" -> "loop"
                    [] data.kind \in {"join", "leave", "app"} -> "publish")
    /\ UNCHANGED <<closed, cancelled, stale, queues, gone, member>>

(***************************************************************************)
(* The message goes to the topic of the room it names; after a Leave the   *)
(* deferred function of handleData clears roomID, whichever room that was. *)
(***************************************************************************)
HandlePublish ==
    /\ goroutine["read"] = "publish"
    /\ Publish(data.kind, data.room)
    /\ roomID' = IF data.kind = "leave" THEN "none" ELSE roomID
    /\ ReaderGoto("loop")
    /\ UNCHANGED <<closed, cancelled, stale, queues, gone>>

Write ==
    /\ goroutine["write"] = "loop"
    /\ writeCh # <<>> /\ ~cancelled
    /\ writeCh' = Tail(writeCh)
    /\ Touch("write")
    /\ UNCHANGED <<goroutine, data, roomID, closed, cancelled, ctrlCh, subscription, unread,
                   seenOutside>>

WriteFails ==
    /\ goroutine["write"] = "loop"
    /\ writeCh # <<>> /\ (cancelled \/ gone)
    /\ writeCh' = Tail(writeCh)
    /\ Goto("write", "control")
    /\ UNCHANGED <<data, fields, ctrlCh, subscription, unread, seenOutside>>

\* subscribeLoop moves a message from the topic to writeCh, or drops it.
Forward ==
    /\ goroutine["subscribe"] = "loop"
    /\ unread > 0
    /\ unread' = unread - 1
    /\ Enqueue("data")
    /\ UNCHANGED <<goroutine, data, fields, ctrlCh, subscription, seenOutside>>

\* The topic's channel is closed and drained.
SubscribeEnds ==
    /\ goroutine["subscribe"] = "loop"
    /\ subscription = "closed" /\ unread = 0
    /\ Goto("subscribe", "done")
    /\ UNCHANGED <<data, fields, queues, seenOutside>>

Heartbeat ==
    /\ goroutine["heartbeat"] = "loop"
    /\ Enqueue("ping")
    /\ UNCHANGED <<goroutine, data, fields, ctrlCh, subscription, unread, seenOutside>>

-----------------------------------------------------------------------------
\* The room broadcasts to the session; a full subscription skips it.
Broadcast ==
    /\ member /\ subscription = "open" /\ unread < SubscriptionCap
    /\ unread' = unread + 1
    /\ UNCHANGED <<goroutine, data, fields, ctrlCh, writeCh, subscription, seenOutside>>

\* Time passes: a stamp becomes older than the idle timeout.
Expire(stamp) ==
    /\ goroutine["owner"] = "loop" /\ ~closed
    /\ stamp \notin stale
    /\ stale' = stale \union {stamp}
    /\ UNCHANGED <<goroutine, data, roomID, closed, cancelled, queues, seenOutside>>

\* The peer disappears, with or without the transport noticing.
PeerGone ==
    /\ ~gone /\ goroutine["run"] # "off"
    /\ gone' = TRUE
    /\ UNCHANGED <<goroutine, data, fields, queues, member, spoiled>>

\* Close, for the server to end a session.
Close ==
    /\ goroutine["run"] \in {"starting", "waiting"} /\ ~cancelled
    /\ Len(ctrlCh) < CtrlCap
    /\ ctrlCh' = Append(ctrlCh, "close")
    /\ UNCHANGED <<goroutine, data, fields, writeCh, subscription, unread, seenOutside>>

\* What the goroutines do without waiting for the peer.
Run == SendAssign \/ RunFails \/ RunReturns
Owner == OwnerEvent \/ OwnerIdle \/ OwnerLeave \/ OwnerCancel \/ LoopEnds("owner")
Reader ==
    \/ HandleData \/ HandlePublish
    \/ SendCtrlEvent("read") \/ SendCtrlGivesUp("read")
    \/ cancelled /\ ReadFails
    \/ LoopEnds("read")
Writer == SendCtrlEvent("write") \/ SendCtrlGivesUp("write") \/ LoopEnds("write")

SessionNext ==
    \/ Accept \/ Run \/ Owner \/ Reader \/ Writer
    \/ LoopEnds("subscribe") \/ LoopEnds("heartbeat")
    \/ \E msg \in Incoming : Read(msg)
    \/ ReadFails \/ Write \/ WriteFails \/ Forward \/ SubscribeEnds \/ Heartbeat
    \/ Broadcast \/ PeerGone \/ Close
    \/ \E stamp \in Stamp : Expire(stamp)

(***************************************************************************)
(* The Go scheduler runs every goroutine that can go on, and the clock     *)
(* runs: once the peer is gone no pong can renew its stamp.  Nothing is    *)
(* assumed of the peer or of the transport noticing that it is gone.       *)
(***************************************************************************)
Fairness ==
    /\ WF_sessionVars(Run) /\ WF_sessionVars(Owner)
    /\ WF_sessionVars(Reader) /\ WF_sessionVars(Writer)
    /\ WF_sessionVars(LoopEnds("subscribe")) /\ WF_sessionVars(LoopEnds("heartbeat"))
    /\ WF_sessionVars(gone /\ Expire("pong"))

SessionSpec == SessionInit /\ [][SessionNext]_sessionVars /\ Fairness

-----------------------------------------------------------------------------
Ended ==
    /\ goroutine["run"] \in {"done", "failed"}
    /\ \A g \in Loop : goroutine[g] \in {"done", "off"}

(***************************************************************************)
(* A session that has ended is no longer in the room, whichever of the     *)
(* peer, the idle timeout and the server ended it, wherever the read       *)
(* goroutine was then and whatever was joined, left and joined again,      *)
(* provided that no Leave met a full inbox, no Join was published after    *)
(* close had begun, Run did not fail, and the peer, while roomID was the   *)
(* room, sent no Join or Leave that names another one.                     *)
(***************************************************************************)
CleanLeave == Ended /\ ~spoiled => ~member

(***************************************************************************)
(* ADR-008: whenever the context is closed, the connection's resources     *)
(* must be cleaned up.  A session that has ended is no longer in the room. *)
(***************************************************************************)
ClosedLeavesRoom == Ended => ~member

\* What Run's comment promises: no ping is queued ahead of the Assign message.
AssignBeforePing ==
    \A i \in DOMAIN writeCh : writeCh[i] = "ping" =>
        /\ goroutine["run"] # "starting"
        /\ \A j \in i + 1 .. Len(writeCh) : writeCh[j] # "assign"

(***************************************************************************)
(* Whatever is blocked or full at the time, a session whose peer is gone,  *)
(* noticed or not, and a session being closed, ends: all goroutines return *)
(* and the topic is unsubscribed.                                          *)
(***************************************************************************)
EndpointEnds == (gone \/ closed) ~> (Ended /\ subscription = "closed")

=============================================================================
