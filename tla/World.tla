-------------------------------- MODULE World --------------------------------
(***************************************************************************)
(* The game of withered (server/application: world.go, phase.go,           *)
(* withered_application.go, buffer.go, codec.go).                          *)
(*                                                                         *)
(* One goroutine, the room's, applies the joins, leaves and inputs that    *)
(* came in and then runs a tick: the systems in the order their After      *)
(* relation asks for (module Scheduler).  The entity component tables are  *)
(* maps here as there.  Positions are left out: whether a bullet meets an  *)
(* actor, and whether two actors stand on one spot, is any choice, and so  *)
(* is the order in which Go walks a map.                                   *)
(***************************************************************************)
EXTENDS Integers, FiniteSetsExt, Functions

CONSTANTS
    Session,
    IdSpace,        \* the number of entity ids (2^16 in the code)
    FirstId,        \* the values of NextEntityID that the room may start from
    MaxHP, BulletDamage, BulletTTL, ShootCooldown, RespawnTicks,
    MaxAlloc        \* bound: entities ever allocated

ASSUME WorldAssumption ==
    /\ {IdSpace, MaxHP, BulletDamage, BulletTTL, ShootCooldown, RespawnTicks} \subseteq Nat \ {0}
    /\ FirstId \subseteq 0 .. IdSpace - 1
    /\ MaxAlloc \in 0 .. IdSpace - 1

\* Hit points are a uint8, times to live a uint16.
ASSUME WidthAssumption == MaxHP < 256 /\ BulletTTL < 65536

VARIABLES
    entities,
    health, lifeState, ttl, owner, tag, shootCooldown, respawnTimer,   \* components
    sessionToEntity, entityToSession,
    pendingInputs,      \* the entities the queued inputs are for
    nextEntityID,
    pc,                 \* "receive" between ticks, else the system to run next
    todo,               \* entities that the system has still to go through
    hits,               \* bulletsToRemove
    allocs,             \* history: entities allocated so far
    again               \* history: the sessions that joined while already joined

actor == <<health, lifeState, shootCooldown, respawnTimer>>
bullet == <<ttl, owner>>
sessions == <<sessionToEntity, entityToSession>>
world == <<entities, tag, actor, bullet, sessions>>
alloc == <<nextEntityID, allocs>>
tick == <<pc, todo, hits>>
vars == <<world, alloc, pendingInputs, tick, again>>

Id == 0 .. IdSpace - 1
Put(f, id, x) == [i \in DOMAIN f \union {id} |-> IF i = id THEN x ELSE f[i]]
Without(f, ids) == Restrict(f, DOMAIN f \ ids)
Alive == {id \in DOMAIN lifeState : lifeState[id] = "alive"}
Tagged(t) == {id \in entities : id \in DOMAIN tag /\ tag[id] = t}

TypeOK ==
    /\ entities \subseteq Id
    /\ DOMAIN health \subseteq Id /\ Range(health) \subseteq 0 .. MaxHP
    /\ DOMAIN lifeState \subseteq Id /\ Range(lifeState) \subseteq {"alive", "respawning"}
    /\ DOMAIN ttl \subseteq Id /\ Range(ttl) \subseteq 0 .. BulletTTL
    /\ DOMAIN owner \subseteq Id /\ Range(owner) \subseteq Id
    /\ DOMAIN tag \subseteq Id /\ Range(tag) \subseteq {"player", "bullet"}
    /\ DOMAIN shootCooldown \subseteq Id /\ Range(shootCooldown) \subseteq 0 .. ShootCooldown
    /\ DOMAIN respawnTimer \subseteq Id /\ Range(respawnTimer) \subseteq 1 .. RespawnTicks
    /\ DOMAIN sessionToEntity \subseteq Session /\ Range(sessionToEntity) \subseteq Id
    /\ DOMAIN entityToSession \subseteq Id /\ Range(entityToSession) \subseteq Session
    /\ pendingInputs \subseteq Id
    /\ nextEntityID \in Id
    /\ pc \in {"receive", "input_move", "auto_shoot", "collision_damage", "bullet_cleanup"}
    /\ todo \subseteq Id /\ hits \subseteq Id
    /\ allocs \in 0 .. MaxAlloc
    /\ again \subseteq Session

Empty == [id \in {} |-> 0]

\* NewShootingWorld, or a room that has been used and is empty again.
Init ==
    /\ entities = {}
    /\ health = Empty /\ lifeState = Empty /\ ttl = Empty /\ owner = Empty /\ tag = Empty
    /\ shootCooldown = Empty /\ respawnTimer = Empty
    /\ sessionToEntity = Empty /\ entityToSession = Empty
    /\ pendingInputs = {}
    /\ nextEntityID \in FirstId
    /\ pc = "receive" /\ todo = {} /\ hits = {}
    /\ allocs = 0 /\ again = {}

\* NextEntityID++ on a uint16; nothing looks whether the id is in use.
NewID == (nextEntityID + 1) % IdSpace

AllocEntity ==
    /\ allocs < MaxAlloc
    /\ nextEntityID' = NewID
    /\ entities' = entities \union {NewID}
    /\ allocs' = allocs + 1

RemoveEntities_KeepsTimer(ids) ==                                \* mutant
    /\ entities' = entities \ ids
    /\ tag' = Without(tag, ids)
    /\ health' = Without(health, ids) /\ lifeState' = Without(lifeState, ids)
    /\ shootCooldown' = Without(shootCooldown, ids)
    /\ UNCHANGED respawnTimer
    /\ ttl' = Without(ttl, ids) /\ owner' = Without(owner, ids)
    /\ sessionToEntity' = Without(sessionToEntity,
                              {entityToSession[id] : id \in ids \intersect DOMAIN entityToSession})
    /\ entityToSession' = Without(entityToSession, ids)

\* RemoveEntity for each of ids: every component goes, and the session's links.
RemoveEntities(ids) ==
    /\ entities' = entities \ ids
    /\ tag' = Without(tag, ids)
    /\ health' = Without(health, ids) /\ lifeState' = Without(lifeState, ids)
    /\ shootCooldown' = Without(shootCooldown, ids)
    /\ respawnTimer' = Without(respawnTimer, ids)
    /\ ttl' = Without(ttl, ids) /\ owner' = Without(owner, ids)
    /\ sessionToEntity' = Without(sessionToEntity,
                              {entityToSession[id] : id \in ids \intersect DOMAIN entityToSession})
    /\ entityToSession' = Without(entityToSession, ids)

-----------------------------------------------------------------------------
\* OnJoin: SpawnActor.
OnJoin(s) ==
    /\ pc = "receive"
    /\ AllocEntity
    /\ tag' = Put(tag, NewID, "player")
    /\ health' = Put(health, NewID, MaxHP)
    /\ lifeState' = Put(lifeState, NewID, "alive")
    /\ shootCooldown' = Put(shootCooldown, NewID, 0)
    /\ sessionToEntity' = Put(sessionToEntity, s, NewID)
    /\ entityToSession' = Put(entityToSession, NewID, s)
    /\ again' = IF s \in DOMAIN sessionToEntity THEN again \union {s} ELSE again
    /\ UNCHANGED <<respawnTimer, bullet, pendingInputs, tick>>

OnLeave_Unlinks(s) ==                                              \* mutant
    /\ pc = "receive"
    /\ s \in DOMAIN sessionToEntity
    /\ sessionToEntity' = Without(sessionToEntity, {s})
    /\ UNCHANGED <<entities, tag, actor, bullet, entityToSession, alloc, pendingInputs, tick,
                   again>>

OnLeave(s) ==
    /\ pc = "receive"
    /\ s \in DOMAIN sessionToEntity
    /\ RemoveEntities({sessionToEntity[s]})
    /\ UNCHANGED <<alloc, pendingInputs, tick, again>>

\* handleInput: the input is queued for the entity that the session has now.
HandleInput(s) ==
    /\ pc = "receive"
    /\ s \in DOMAIN sessionToEntity
    /\ pendingInputs' = pendingInputs \union {sessionToEntity[s]}
    /\ UNCHANGED <<world, alloc, tick, again>>

-----------------------------------------------------------------------------
(***************************************************************************)
(* Tick begins with RespawnSystem: the timers of all entities that respawn *)
(* go down, and at zero the actor is back.                                 *)
(***************************************************************************)
Respawn ==
    LET waiting == (entities \intersect DOMAIN lifeState) \ Alive
        back == {id \in waiting : respawnTimer[id] <= 1}
    IN  /\ pc = "receive"
        /\ health' = [id \in DOMAIN health |-> IF id \in back THEN MaxHP ELSE health[id]]
        /\ lifeState' = [id \in DOMAIN lifeState |->
                             IF id \in back THEN "alive" ELSE lifeState[id]]
        /\ respawnTimer' = [id \in DOMAIN respawnTimer \ back |-> respawnTimer[id] - 1]
        /\ pc' = "input_move"
        /\ UNCHANGED <<entities, tag, shootCooldown, bullet, sessions, alloc, pendingInputs,
                       todo, hits, again>>

\* Drain.  Moving the entities that are there and alive is left out.
InputMove ==
    /\ pc = "input_move"
    /\ pendingInputs' = {}
    /\ pc' = "auto_shoot" /\ todo' = Tagged("player")
    /\ UNCHANGED <<world, alloc, hits, again>>

\* Below zero a cooldown means what it means at zero.
Ready(id) == id \in Alive /\ shootCooldown[id] <= 1

\* AutoShootSystem for one actor: another is alive, and not on the same spot.
Shoot(id) ==
    /\ pc = "auto_shoot" /\ id \in todo
    /\ Ready(id) /\ Alive \ {id} # {}
    /\ AllocEntity
    /\ ttl' = Put(ttl, NewID, BulletTTL)
    /\ owner' = Put(owner, NewID, id)
    /\ tag' = Put(tag, NewID, "bullet")
    /\ shootCooldown' = [shootCooldown EXCEPT ![id] = ShootCooldown]
    /\ todo' = todo \ {id}
    /\ UNCHANGED <<health, lifeState, respawnTimer, sessions, pendingInputs, pc, hits, again>>

\* The actor respawns, cools down, is alone, or stands where its target stands.
HoldFire(id) ==
    /\ pc = "auto_shoot" /\ id \in todo
    /\ shootCooldown' = IF id \in Alive THEN [shootCooldown EXCEPT ![id] = Max({0, @ - 1})]
                        ELSE shootCooldown
    /\ todo' = todo \ {id}
    /\ UNCHANGED <<entities, tag, health, lifeState, respawnTimer, bullet, sessions, alloc,
                   pendingInputs, pc, hits, again>>

\* BulletMoveSystem: TTL-- on a uint16 for every bullet.
BulletMove ==
    /\ pc = "auto_shoot" /\ todo = {}
    /\ ttl' = [b \in DOMAIN ttl |-> IF b \in Tagged("bullet") THEN (ttl[b] - 1) % 65536
                                    ELSE ttl[b]]
    /\ pc' = "collision_damage" /\ todo' = Tagged("bullet")
    /\ UNCHANGED <<entities, tag, actor, owner, sessions, alloc, pendingInputs, hits, again>>

Targets_Respawning(b) == Tagged("player") \ {owner[b]}             \* mutant

\* Whom bullet b may hit: an actor that is alive now and did not fire it.
Targets(b) == (Tagged("player") \intersect Alive) \ {owner[b]}

Lethal_Above(id) == BulletDamage > health[id]                      \* mutant

Lethal(id) == BulletDamage >= health[id]

\* CollisionDamageSystem for one bullet: it hits the first actor it meets ...
BulletHits(b, id) ==
    /\ pc = "collision_damage" /\ b \in todo
    /\ id \in Targets(b)
    /\ health' = [health EXCEPT ![id] = IF Lethal(id) THEN 0 ELSE (@ - BulletDamage) % 256]
    /\ IF Lethal(id)
       THEN /\ lifeState' = [lifeState EXCEPT ![id] = "respawning"]
            /\ respawnTimer' = Put(respawnTimer, id, RespawnTicks)
       ELSE UNCHANGED <<lifeState, respawnTimer>>
    /\ hits' = hits \union {b}
    /\ todo' = todo \ {b}
    /\ UNCHANGED <<entities, tag, shootCooldown, bullet, sessions, alloc, pendingInputs, pc,
                   again>>

\* ... or nobody.
BulletMisses(b) ==
    /\ pc = "collision_damage" /\ b \in todo
    /\ todo' = todo \ {b}
    /\ UNCHANGED <<world, alloc, pendingInputs, pc, hits, again>>

\* The loop is over: the bullets that hit are removed.
RemoveHits ==
    /\ pc = "collision_damage" /\ todo = {}
    /\ RemoveEntities(hits)
    /\ hits' = {}
    /\ pc' = "bullet_cleanup"
    /\ UNCHANGED <<alloc, pendingInputs, todo, again>>

Expired_BelowZero == {b \in Tagged("bullet") : ttl[b] < 0}         \* mutant

Expired == {b \in Tagged("bullet") : ttl[b] = 0}

\* BulletCleanupSystem, the last one that changes anything.
BulletCleanup ==
    /\ pc = "bullet_cleanup"
    /\ RemoveEntities(Expired)
    /\ pc' = "receive"
    /\ UNCHANGED <<alloc, pendingInputs, todo, hits, again>>

Tick ==
    \/ Respawn \/ InputMove \/ BulletMove \/ RemoveHits \/ BulletCleanup
    \/ \E id \in todo : Shoot(id) \/ HoldFire(id) \/ BulletMisses(id)
    \/ \E b \in todo, id \in entities : BulletHits(b, id)

Next ==
    \/ Tick
    \/ \E s \in Session : OnJoin(s) \/ OnLeave(s) \/ HandleInput(s)

Spec == Init /\ [][Next]_vars

-----------------------------------------------------------------------------
\* encodeEntity: which components the snapshot has of an entity (positions aside).
Mask(id) ==
    {c \in {"hp", "life", "ttl", "own", "tag"} :
        id \in CASE c = "hp" -> DOMAIN health [] c = "life" -> DOMAIN lifeState
                 [] c = "ttl" -> DOMAIN ttl [] c = "own" -> DOMAIN owner [] c = "tag" -> DOMAIN tag}

(***************************************************************************)
(* Whatever joins, leaves, shots and hits came before, every entity of a   *)
(* snapshot is a whole player or a whole bullet, and no table keeps a      *)
(* component of an entity that is no more, for the id's next owner to      *)
(* inherit.                                                                *)
(***************************************************************************)
EntitiesWhole ==
    /\ \A id \in entities : id \in DOMAIN tag /\ Mask(id) =
           IF tag[id] = "player" THEN {"hp", "life", "tag"} ELSE {"ttl", "own", "tag"}
    /\ DOMAIN shootCooldown = Tagged("player")
    /\ DOMAIN health \union DOMAIN ttl \union DOMAIN tag \union DOMAIN respawnTimer
          \subseteq entities

(***************************************************************************)
(* A session's links go both ways, so that its inputs and its leave reach  *)
(* its own player.  Every player belongs to a session that is in the game, *)
(* unless that session once joined twice: a second join makes a second     *)
(* player, and the leave removes only that one.                            *)
(***************************************************************************)
SessionsMatchEntities ==
    /\ \A s \in DOMAIN sessionToEntity :
           /\ sessionToEntity[s] \in Tagged("player")
           /\ entityToSession[sessionToEntity[s]] = s
    /\ \A id \in Tagged("player") :
           /\ id \in DOMAIN entityToSession
           /\ LET s == entityToSession[id]
              IN  s \in again \/ (s \in DOMAIN sessionToEntity /\ sessionToEntity[s] = id)

(***************************************************************************)
(* Several bullets of one tick may meet an actor: it is alive exactly      *)
(* while it has hit points, and waits with a running timer exactly while   *)
(* it has none.                                                            *)
(***************************************************************************)
AliveWithHP ==
    \A id \in DOMAIN health :
        /\ (id \in Alive) = (health[id] > 0)
        /\ (id \in Alive) = (id \notin DOMAIN respawnTimer)

\* A bullet that hits nothing is gone BulletTTL ticks after it was fired.
NoStrayBullet == pc = "receive" => \A b \in DOMAIN ttl : ttl[b] \in 1 .. BulletTTL - 1

\* A bullet cannot kill an actor that waits to respawn: no timer ever goes back up.
RespawnNotDelayed ==
    [][\A id \in DOMAIN respawnTimer \intersect DOMAIN respawnTimer' :
           respawnTimer'[id] <= respawnTimer[id]]_vars

=============================================================================
