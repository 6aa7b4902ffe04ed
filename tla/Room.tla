-------------------------------- MODULE Room --------------------------------
(***************************************************************************)
(* A room of withered and the publish/subscribe service between it and its *)
(* sessions (server/domain: room.go, simple_pubsub.go, broadcaster.go,     *)
(* session_registry.go).                                                   *)
(*                                                                         *)
(* Publish reads the subscriber list under the lock and sends after giving *)
(* it back, so that each publication is two steps and the channel may be   *)
(* closed between them.  Every topic has at most one subscriber: the room  *)
(* for its own, the session endpoint for the session's.  A send on a       *)
(* closed channel panics, which ends the process.                          *)
(***************************************************************************)
EXTENDS Integers, Sequences

CONSTANTS
    SessionID,
    InboxCap,    \* capacity of the room's subscription (1024 in the code)
    TopicCap     \* capacity of a session's subscription (1024)

ASSUME BufferAssumption == {InboxCap, TopicCap} \subseteq Nat \ {0}

VARIABLES
    topic,       \* subscription of the room and of each session: none, open, closed
    inbox,       \* messages to the room
    queued,      \* for each session, the number of messages in its subscription
    hand,        \* for each session, the publication it is between the two steps of
    registry,
    roomPC,      \* where the room's goroutine is
    recipients,  \* sessions that the broadcast in progress has still to publish to
    found,       \* the session whose open channel the room has looked up
    stopping,    \* the room's context is done
    panicked,    \* the goroutine that sent on a closed channel
    joined,      \* history: the sessions whose last join or leave to get into the
                 \* inbox was a join
    served       \* history: the sessions this tick's broadcast sent to or found full

channels == <<topic, inbox, queued>>
room == <<registry, roomPC, recipients, found, served>>
roomVars == <<channels, hand, room, stopping, panicked, joined>>

Hub == "room"               \* the room as a name of a topic and of a goroutine
Nobody == "nobody"
Kind == {"join", "leave", "app"}
Message == [from : SessionID, kind : Kind]

ASSUME NameAssumption == Hub \notin SessionID /\ Nobody \notin SessionID

RoomTypeOK ==
    /\ topic \in [SessionID \union {Hub} -> {"none", "open", "closed"}]
    /\ inbox \in Seq(Message) /\ Len(inbox) <= InboxCap
    /\ queued \in [SessionID -> 0 .. TopicCap]
    /\ hand \in [SessionID -> Kind \union {Nobody}]
    /\ registry \subseteq SessionID
    /\ roomPC \in {"idle", "receive", "tick", "done"}
    /\ recipients \subseteq SessionID
    /\ found \in SessionID \union {Nobody}
    /\ stopping \in BOOLEAN
    /\ panicked \in SessionID \union {Hub, Nobody}
    /\ joined \subseteq SessionID
    /\ served \subseteq SessionID

\* Run has subscribed to the room's topic.
RoomInit ==
    /\ topic = [t \in SessionID \union {Hub} |-> IF t = Hub THEN "open" ELSE "none"]
    /\ inbox = <<>>
    /\ queued = [s \in SessionID |-> 0]
    /\ hand = [s \in SessionID |-> Nobody]
    /\ registry = {}
    /\ roomPC = "idle" /\ recipients = {} /\ found = Nobody
    /\ stopping = FALSE
    /\ panicked = Nobody
    /\ joined = {}
    /\ served = {}

Running == panicked = Nobody

-----------------------------------------------------------------------------
Subscribe(s) ==
    /\ Running /\ topic[s] = "none"
    /\ topic' = [topic EXCEPT ![s] = "open"]
    /\ UNCHANGED <<inbox, queued, hand, room, stopping, panicked, joined>>

\* Unsubscribe closes the channel; what is left in it is read by nobody.
Unsubscribe(s) ==
    /\ Running /\ topic[s] = "open"
    /\ topic' = [topic EXCEPT ![s] = "closed"]
    /\ queued' = [queued EXCEPT ![s] = 0]
    /\ UNCHANGED <<inbox, hand, room, stopping, panicked, joined>>

\* The session's subscribeLoop takes a message.
Take(s) ==
    /\ Running /\ queued[s] > 0
    /\ queued' = [queued EXCEPT ![s] = @ - 1]
    /\ UNCHANGED <<topic, inbox, hand, room, stopping, panicked, joined>>

\* Publish by a session.  A topic that nobody subscribes to has an empty list.
PublishBegins(s, kind) ==
    /\ Running /\ topic[s] # "none" /\ hand[s] = Nobody
    /\ topic[Hub] = "open"
    /\ hand' = [hand EXCEPT ![s] = kind]
    /\ UNCHANGED <<channels, room, stopping, panicked, joined>>

Registered_KeepsLeft(members, m) ==                                \* mutant
    IF m.kind = "join" THEN members \union {m.from} ELSE members

\* registry.Add and registry.Remove; the application's side is module World.
Registered(members, m) ==
    CASE m.kind = "join" -> members \union {m.from}
      [] m.kind = "leave" -> members \ {m.from}
      [] m.kind = "app" -> members

PublishSends_Blocks(s) ==                                          \* mutant
    /\ Running /\ hand[s] # Nobody
    /\ inbox' = Append(inbox, [from |-> s, kind |-> hand[s]])
    /\ joined' = IF hand[s] = "join" \/ (hand[s] = "app" /\ s \in joined)
                 THEN joined \union {s} ELSE joined \ {s}
    /\ hand' = [hand EXCEPT ![s] = Nobody]
    /\ UNCHANGED <<topic, queued, room, stopping, panicked>>

PublishSends(s) ==
    /\ Running /\ hand[s] # Nobody
    /\ topic[Hub] = "open" /\ Len(inbox) < InboxCap
    /\ inbox' = Append(inbox, [from |-> s, kind |-> hand[s]])
    /\ joined' = IF hand[s] = "join" \/ (hand[s] = "app" /\ s \in joined)
                 THEN joined \union {s} ELSE joined \ {s}
    /\ hand' = [hand EXCEPT ![s] = Nobody]
    /\ UNCHANGED <<topic, queued, room, stopping, panicked>>

\* The channel is full, or the session's context is done and select notices it.
PublishSkips(s) ==
    /\ Running /\ hand[s] # Nobody
    /\ hand' = [hand EXCEPT ![s] = Nobody]
    /\ UNCHANGED <<channels, room, stopping, panicked, joined>>

PublishPanics(s) ==
    /\ Running /\ hand[s] # Nobody
    /\ topic[Hub] = "closed"
    /\ panicked' = s
    /\ UNCHANGED <<channels, hand, room, stopping, joined>>

-----------------------------------------------------------------------------
RoomTick ==
    /\ Running /\ roomPC = "idle"
    /\ roomPC' = "receive"
    /\ UNCHANGED <<channels, hand, registry, recipients, found, served, stopping, panicked, joined>>

HandleMessage ==
    /\ Running /\ roomPC = "receive" /\ inbox # <<>>
    /\ registry' = Registered(registry, Head(inbox))
    /\ inbox' = Tail(inbox)
    /\ UNCHANGED <<topic, queued, hand, roomPC, recipients, found, served, stopping,
                   panicked, joined>>

(***************************************************************************)
(* The inbox is empty, and so is sendCh, which nothing in the repository   *)
(* sends to.  application.Tick has a frame for everybody in the registry,  *)
(* or nothing.                                                             *)
(***************************************************************************)
ApplicationTick(frame) ==
    /\ Running /\ roomPC = "receive" /\ inbox = <<>>
    /\ roomPC' = IF frame THEN "tick" ELSE "idle"
    /\ recipients' = IF frame THEN registry ELSE {}
    /\ UNCHANGED <<channels, hand, registry, found, served, stopping, panicked, joined>>

\* Publish to the next session of the list, which is in no particular order.
LookUp(s) ==
    /\ Running /\ s \in recipients /\ found = Nobody
    /\ recipients' = recipients \ {s}
    /\ found' = IF topic[s] = "open" THEN s ELSE Nobody
    /\ UNCHANGED <<channels, hand, registry, roomPC, served, stopping, panicked, joined>>

\* The broadcast is done with the session it has looked up.
Serve == served' = served \union {found} /\ found' = Nobody

RoomSends ==
    /\ Running /\ found # Nobody
    /\ topic[found] = "open" /\ queued[found] < TopicCap
    /\ queued' = [queued EXCEPT ![found] = @ + 1]
    /\ Serve
    /\ UNCHANGED <<topic, inbox, hand, registry, roomPC, recipients, stopping, panicked, joined>>

RoomSkips_EndsBroadcast ==                                         \* mutant
    /\ Running /\ found # Nobody
    /\ queued[found] = TopicCap /\ topic[found] = "open"
    /\ Serve /\ recipients' = {}
    /\ UNCHANGED <<channels, hand, registry, roomPC, stopping, panicked, joined>>

RoomSkips_Blocks ==                                                \* mutant
    /\ Running /\ found # Nobody
    /\ stopping
    /\ Serve
    /\ UNCHANGED <<channels, hand, registry, roomPC, recipients, stopping, panicked, joined>>

\* The subscriber is full, or the room's context is done and select notices it.
RoomSkips ==
    /\ Running /\ found # Nobody
    /\ stopping \/ (queued[found] = TopicCap /\ topic[found] = "open")
    /\ Serve
    /\ UNCHANGED <<channels, hand, registry, roomPC, recipients, stopping, panicked, joined>>

RoomPanics ==
    /\ Running /\ found # Nobody
    /\ topic[found] = "closed"
    /\ panicked' = Hub
    /\ UNCHANGED <<channels, hand, room, stopping, joined>>

TickEnds ==
    /\ Running /\ roomPC = "tick" /\ recipients = {} /\ found = Nobody
    /\ roomPC' = "idle"
    /\ served' = {}
    /\ UNCHANGED <<channels, hand, registry, recipients, found, stopping, panicked, joined>>

\* The server shuts down.
Cancel ==
    /\ Running /\ ~stopping
    /\ stopping' = TRUE
    /\ UNCHANGED <<channels, hand, room, panicked, joined>>

RoomStops_Early ==                                                 \* mutant
    /\ Running /\ roomPC = "idle"
    /\ roomPC' = "done"
    /\ topic' = [topic EXCEPT ![Hub] = "closed"]
    /\ UNCHANGED <<inbox, queued, hand, registry, recipients, found, served, stopping,
                   panicked, joined>>

\* Run returns; the deferred Unsubscribe closes the room's topic.
RoomStops ==
    /\ Running /\ roomPC = "idle" /\ stopping
    /\ roomPC' = "done"
    /\ topic' = [topic EXCEPT ![Hub] = "closed"]
    /\ UNCHANGED <<inbox, queued, hand, registry, recipients, found, served, stopping,
                   panicked, joined>>

Work ==
    \/ RoomTick \/ HandleMessage \/ RoomSends \/ RoomSkips \/ RoomPanics \/ TickEnds
    \/ \E frame \in BOOLEAN : ApplicationTick(frame)
    \/ \E s \in SessionID : LookUp(s)

RoomNext ==
    \/ Work \/ RoomStops \/ Cancel
    \/ \E s \in SessionID :
        \/ Subscribe(s) \/ Unsubscribe(s) \/ Take(s)
        \/ PublishSends(s) \/ PublishSkips(s) \/ PublishPanics(s)
        \/ \E kind \in Kind : PublishBegins(s, kind)

(***************************************************************************)
(* The room's goroutine is scheduled and its ticker ticks.  Nothing is     *)
(* assumed of the sessions, nor that the receive loop ever finds the inbox *)
(* empty.                                                                  *)
(***************************************************************************)
RoomSpec == RoomInit /\ [][RoomNext]_roomVars /\ WF_roomVars(Work)

-----------------------------------------------------------------------------
\* Where the joins and leaves of session s are in the inbox.
Words(s) == {i \in DOMAIN inbox : inbox[i].from = s /\ inbox[i].kind # "app"}

(***************************************************************************)
(* Whatever publications interleave, the registry and the inbox together   *)
(* say of each session what it published last: the last join or leave of   *)
(* its own in the inbox is a join, or there is none and the registry has   *)
(* it, exactly if its last publication that got through was a join.  (This *)
(* is what SessionEndpoint calls member.)                                  *)
(***************************************************************************)
RegistryFollowsInbox ==
    \A s \in SessionID : s \in joined <=>
        \/ Words(s) = {} /\ s \in registry
        \/ \E i \in Words(s) : inbox[i].kind = "join" /\ \A j \in Words(s) : j <= i

(***************************************************************************)
(* A subscriber that is full, gone or not there yet costs no other session *)
(* its frame: in a broadcast, every registered session is still to be      *)
(* served, is being served, was sent the frame or had its own channel      *)
(* full, or has unsubscribed.                                              *)
(***************************************************************************)
FrameForEveryMember ==
    roomPC = "tick" => \A s \in registry :
        s \in recipients \union served \union {found} \/ topic[s] # "open"

(***************************************************************************)
(* A session never brings the server down while it is serving: a session's *)
(* publication can only meet a closed channel once shutdown has begun.     *)
(***************************************************************************)
SessionPanicsOnlyAtShutdown == panicked \in SessionID => stopping

(***************************************************************************)
(* A leave that got into the inbox is applied, unless the session joins    *)
(* again or the server goes down.                                          *)
(***************************************************************************)
LeaveTakesEffect ==
    \A s \in SessionID :
        s \notin joined ~> (s \notin registry \/ s \in joined \/ stopping \/ ~Running)

=============================================================================
