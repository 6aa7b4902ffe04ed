---------------------------- MODULE WitheredProofs ----------------------------
(***************************************************************************)
(* What holds of the game server withered: of the game world for every     *)
(* number of sessions, every width of the entity ids and every game rule,  *)
(* as long as a room does not allocate all its ids (MaxAlloc < IdSpace);   *)
(* of a session and of a room for every set of sessions and every          *)
(* capacity of their channels.                                             *)
(*                                                                         *)
(* The three have no variable in common; each part proves the properties   *)
(* of one specification.                                                   *)
(***************************************************************************)
EXTENDS World, SessionEndpoint, Room, TLAPS

-----------------------------------------------------------------------------
(***************************************************************************)
(* The game world.                                                         *)
(***************************************************************************)

(***************************************************************************)
(* The inductive invariant.                                                *)
(***************************************************************************)

\* How many allocations ago the id was given out.
Age(id) == IF id <= nextEntityID THEN nextEntityID - id ELSE nextEntityID - id + IdSpace

\* Every entity is one of the last allocs ids, so that the next id is none of them.
IdsRecent ==
    /\ entities \subseteq Id /\ nextEntityID \in Id /\ allocs \in 0 .. MaxAlloc
    /\ \A id \in entities : Age(id) < allocs

\* Which entities each component table has a row for.
Tables ==
    /\ DOMAIN tag = entities
    /\ \A id \in entities : tag[id] \in {"player", "bullet"}
    /\ DOMAIN health = Tagged("player") /\ DOMAIN lifeState = Tagged("player")
    /\ DOMAIN shootCooldown = Tagged("player")
    /\ DOMAIN respawnTimer \subseteq Tagged("player")
    /\ DOMAIN entityToSession = Tagged("player")
    /\ DOMAIN ttl = Tagged("bullet") /\ DOMAIN owner = Tagged("bullet")

\* What the rows hold.
Rows ==
    /\ \A id \in DOMAIN health : health[id] \in 0 .. MaxHP
    /\ \A id \in DOMAIN lifeState : lifeState[id] \in {"alive", "respawning"}
    /\ \A id \in DOMAIN shootCooldown : shootCooldown[id] \in 0 .. ShootCooldown
    /\ \A id \in DOMAIN respawnTimer : respawnTimer[id] \in 1 .. RespawnTicks
    /\ \A id \in DOMAIN owner : owner[id] \in Id
    /\ DOMAIN sessionToEntity \subseteq Session
    /\ \A id \in DOMAIN entityToSession : entityToSession[id] \in Session

\* A tick takes one from a bullet's time to live before it looks for a zero.
BulletAge ==
    \A b \in DOMAIN ttl :
        ttl[b] \in CASE pc \in {"receive", "input_move"} -> 1 .. BulletTTL - 1
                     [] pc = "auto_shoot" -> 1 .. BulletTTL
                     [] pc \in {"collision_damage", "bullet_cleanup"} -> 0 .. BulletTTL - 1

\* The loops go through players, then through bullets, and only bullets hit.
Loops ==
    /\ pc \in {"receive", "input_move", "auto_shoot", "collision_damage", "bullet_cleanup"}
    /\ todo \subseteq CASE pc = "auto_shoot" -> Tagged("player")
                        [] pc = "collision_damage" -> Tagged("bullet")
                        [] pc \notin {"auto_shoot", "collision_damage"} -> {}
    /\ hits \subseteq IF pc = "collision_damage" THEN Tagged("bullet") ELSE {}
    /\ pendingInputs \subseteq Id
    /\ again \subseteq Session

IInv ==
    /\ IdsRecent
    /\ Tables
    /\ Rows
    /\ SessionsMatchEntities
    /\ AliveWithHP
    /\ BulletAge
    /\ Loops

-----------------------------------------------------------------------------
(***************************************************************************)
(* What writing and deleting rows of a table does.                         *)
(***************************************************************************)
LEMMA PutRow ==
    ASSUME NEW f, NEW id, NEW x
    PROVE  /\ DOMAIN Put(f, id, x) = DOMAIN f \union {id}
           /\ Put(f, id, x)[id] = x
           /\ \A i \in DOMAIN f : i # id => Put(f, id, x)[i] = f[i]
  BY DEF Put

\* Deleting keys from a component table leaves the other rows as they were.
LEMMA WithoutRows ==
    ASSUME NEW f, NEW ids
    PROVE  /\ DOMAIN Without(f, ids) = DOMAIN f \ ids
           /\ \A i \in DOMAIN f \ ids : Without(f, ids)[i] = f[i]
  BY DEF Without, Restrict

(***************************************************************************)
(* NextEntityID does not look whether an id is in use; it is not, as long  *)
(* as fewer ids were given out than there are, also when the uint16 wraps. *)
(***************************************************************************)
LEMMA Allocates ==
    ASSUME IdsRecent, AllocEntity
    PROVE  NewID \in Id /\ NewID \notin entities /\ IdsRecent'
<1> USE WorldAssumption DEF Id
<1>1. NewID = IF nextEntityID = IdSpace - 1 THEN 0 ELSE nextEntityID + 1
  BY DEF NewID, IdsRecent
<1>2. NewID \in Id /\ Age(NewID) = IdSpace - 1
  BY <1>1 DEF IdsRecent, Age
<1>3. NewID \notin entities
  BY <1>2 DEF IdsRecent, AllocEntity
<1>4. \A id \in entities : Age(id) \in Nat /\ Age(id)' = Age(id) + 1
  BY <1>1, <1>3 DEF IdsRecent, Age, AllocEntity
<1>5. \A id \in Id : id = NewID => Age(id)' = 0
  BY <1>1, <1>2 DEF Age, AllocEntity
<1>6. ASSUME NEW id \in entities' PROVE id \in Id /\ Age(id)' < allocs'
  <2>1. allocs \in Nat /\ allocs' = allocs + 1
    BY DEF IdsRecent, AllocEntity
  <2>2. CASE id \in entities
    BY <1>4, <2>1, <2>2 DEF IdsRecent
  <2>3. CASE id = NewID
    BY <1>2, <1>5, <2>1, <2>3
  <2> QED
    BY <2>2, <2>3 DEF AllocEntity
<1> QED
  BY <1>2, <1>3, <1>6 DEF IdsRecent, AllocEntity

(***************************************************************************)
(* RemoveEntity leaves nothing behind and nothing else disturbed, provided *)
(* that an entity which has a session is the one its session has.          *)
(***************************************************************************)
LEMMA Removes ==
    ASSUME IInv, NEW ids, RemoveEntities(ids), UNCHANGED <<alloc, again>>,
           \A id \in ids \intersect DOMAIN entityToSession :
               /\ entityToSession[id] \in DOMAIN sessionToEntity
               /\ sessionToEntity[entityToSession[id]] = id
    PROVE  /\ \A t : Tagged(t)' = Tagged(t) \ ids
           /\ IdsRecent' /\ Tables' /\ Rows' /\ SessionsMatchEntities' /\ AliveWithHP'
           /\ \A b \in DOMAIN ttl' : b \in DOMAIN ttl /\ ttl'[b] = ttl[b]
<1> DEFINE leavers == {entityToSession[id] : id \in ids \intersect DOMAIN entityToSession}
<1>1. /\ entities' = entities \ ids
      /\ DOMAIN tag' = DOMAIN tag \ ids /\ DOMAIN health' = DOMAIN health \ ids
      /\ DOMAIN lifeState' = DOMAIN lifeState \ ids
      /\ DOMAIN shootCooldown' = DOMAIN shootCooldown \ ids
      /\ DOMAIN respawnTimer' = DOMAIN respawnTimer \ ids
      /\ DOMAIN ttl' = DOMAIN ttl \ ids /\ DOMAIN owner' = DOMAIN owner \ ids
      /\ DOMAIN entityToSession' = DOMAIN entityToSession \ ids
      /\ DOMAIN sessionToEntity' = DOMAIN sessionToEntity \ leavers
  BY WithoutRows DEF RemoveEntities
<1>2. /\ \A id \in DOMAIN tag' : tag'[id] = tag[id]
      /\ \A id \in DOMAIN health' : health'[id] = health[id]
      /\ \A id \in DOMAIN lifeState' : lifeState'[id] = lifeState[id]
      /\ \A id \in DOMAIN shootCooldown' : shootCooldown'[id] = shootCooldown[id]
      /\ \A id \in DOMAIN respawnTimer' : respawnTimer'[id] = respawnTimer[id]
      /\ \A id \in DOMAIN ttl' : ttl'[id] = ttl[id]
      /\ \A id \in DOMAIN owner' : owner'[id] = owner[id]
      /\ \A id \in DOMAIN entityToSession' : entityToSession'[id] = entityToSession[id]
      /\ \A s \in DOMAIN sessionToEntity' : sessionToEntity'[s] = sessionToEntity[s]
  BY DEF RemoveEntities, Without, Restrict
<1>3. \A t : Tagged(t)' = Tagged(t) \ ids
  BY <1>1, <1>2 DEF Tagged
<1>4. IdsRecent'
  BY <1>1 DEF IInv, IdsRecent, Age, alloc
<1>5. Tables'
  BY <1>1, <1>2, <1>3 DEF IInv, Tables
<1>6. Rows'
  BY <1>1, <1>2 DEF IInv, Rows
<1>7. AliveWithHP'
  BY <1>1, <1>2 DEF IInv, AliveWithHP, Alive, Tables
<1>8. SessionsMatchEntities'
  <2>1. ASSUME NEW s \in DOMAIN sessionToEntity'
        PROVE  sessionToEntity'[s] \in Tagged("player")' /\ entityToSession'[sessionToEntity'[s]] = s
    BY <1>1, <1>2, <1>3 DEF IInv, SessionsMatchEntities
  <2>2. ASSUME NEW id \in Tagged("player")'
        PROVE  /\ id \in DOMAIN entityToSession'
               /\ \/ entityToSession'[id] \in again'
                  \/ /\ entityToSession'[id] \in DOMAIN sessionToEntity'
                     /\ sessionToEntity'[entityToSession'[id]] = id
    BY <1>1, <1>2, <1>3 DEF IInv, SessionsMatchEntities
  <2> QED
    BY <2>1, <2>2 DEF SessionsMatchEntities
<1> QED
  BY <1>1, <1>2, <1>3, <1>4, <1>5, <1>6, <1>7, <1>8

-----------------------------------------------------------------------------
(***************************************************************************)
(* OnJoin adds one whole player, also for a session that is already in.    *)
(***************************************************************************)
LEMMA JoinStep ==
    ASSUME IInv, NEW s \in Session, OnJoin(s)
    PROVE  IInv'
<1> DEFINE id == NewID
<1>1. id \in Id /\ id \notin entities /\ IdsRecent'
  BY Allocates DEF IInv, OnJoin
<1>2. /\ entities' = entities \union {id}
      /\ DOMAIN tag' = DOMAIN tag \union {id} /\ DOMAIN health' = DOMAIN health \union {id}
      /\ DOMAIN lifeState' = DOMAIN lifeState \union {id}
      /\ DOMAIN shootCooldown' = DOMAIN shootCooldown \union {id}
      /\ DOMAIN entityToSession' = DOMAIN entityToSession \union {id}
      /\ DOMAIN sessionToEntity' = DOMAIN sessionToEntity \union {s}
      /\ UNCHANGED <<respawnTimer, ttl, owner, pendingInputs, pc, todo, hits>>
  BY PutRow DEF OnJoin, AllocEntity, bullet, tick
<1>3. /\ tag'[id] = "player" /\ health'[id] = MaxHP /\ lifeState'[id] = "alive"
      /\ shootCooldown'[id] = 0 /\ entityToSession'[id] = s /\ sessionToEntity'[s] = id
  BY DEF OnJoin, Put
<1>4. /\ \A i \in DOMAIN tag : i # id => tag'[i] = tag[i]
      /\ \A i \in DOMAIN health : i # id => health'[i] = health[i]
      /\ \A i \in DOMAIN lifeState : i # id => lifeState'[i] = lifeState[i]
      /\ \A i \in DOMAIN shootCooldown : i # id => shootCooldown'[i] = shootCooldown[i]
      /\ \A i \in DOMAIN entityToSession : i # id => entityToSession'[i] = entityToSession[i]
      /\ \A u \in DOMAIN sessionToEntity : u # s => sessionToEntity'[u] = sessionToEntity[u]
  BY DEF OnJoin, Put
<1>5. DOMAIN tag = entities
  BY DEF IInv, Tables
<1>6. Tagged("player")' = Tagged("player") \union {id} /\ Tagged("bullet")' = Tagged("bullet")
  BY <1>1, <1>2, <1>3, <1>4, <1>5 DEF Tagged
<1>7. Tables'
  BY <1>1, <1>2, <1>3, <1>4, <1>6 DEF IInv, Tables
<1>8. Rows'
  BY <1>2, <1>3, <1>4, WorldAssumption DEF IInv, Rows
<1>9. SessionsMatchEntities'
  <2>1. id \notin Tagged("player")
    BY <1>1 DEF Tagged
  <2>2. again \subseteq again' /\ (s \in DOMAIN sessionToEntity => s \in again')
    BY DEF OnJoin
  <2>3. ASSUME NEW u \in DOMAIN sessionToEntity'
        PROVE  sessionToEntity'[u] \in Tagged("player")' /\ entityToSession'[sessionToEntity'[u]] = u
    BY <1>2, <1>3, <1>4, <1>6, <2>1 DEF IInv, SessionsMatchEntities
  <2>4. ASSUME NEW i \in Tagged("player")'
        PROVE  /\ i \in DOMAIN entityToSession'
               /\ \/ entityToSession'[i] \in again'
                  \/ /\ entityToSession'[i] \in DOMAIN sessionToEntity'
                     /\ sessionToEntity'[entityToSession'[i]] = i
    BY <1>2, <1>3, <1>4, <1>6, <2>1, <2>2 DEF IInv, SessionsMatchEntities
  <2> QED
    BY <2>3, <2>4 DEF SessionsMatchEntities
<1>10. AliveWithHP'
  <2>1. id \notin DOMAIN respawnTimer /\ id \notin DOMAIN health /\ id \notin DOMAIN lifeState
    BY <1>1 DEF IInv, Tables, Tagged
  <2>2. MaxHP > 0
    BY WorldAssumption
  <2>3. \A i \in DOMAIN health : i \in Alive' <=> i \in Alive
    BY <1>2, <1>3, <1>4, <2>1 DEF Alive, IInv, Tables
  <2>4. id \in Alive'
    BY <1>2, <1>3 DEF Alive
  <2> QED
    BY <1>2, <1>3, <1>4, <2>1, <2>2, <2>3, <2>4 DEF IInv, AliveWithHP
<1>11. BulletAge' /\ Loops'
  BY <1>2, <1>6 DEF IInv, BulletAge, Loops, OnJoin
<1> QED
  BY <1>1, <1>7, <1>8, <1>9, <1>10, <1>11 DEF IInv

(***************************************************************************)
(* OnLeave removes the player that the session has now.                    *)
(***************************************************************************)
LEMMA LeaveStep ==
    ASSUME IInv, NEW s \in Session, OnLeave(s)
    PROVE  IInv'
<1> DEFINE id == sessionToEntity[s]
<1>1. id \in Tagged("player") /\ entityToSession[id] = s /\ s \in DOMAIN sessionToEntity
  BY DEF IInv, SessionsMatchEntities, OnLeave
<1>2. RemoveEntities({id}) /\ UNCHANGED <<alloc, pendingInputs, tick, again>> /\ pc = "receive"
  BY DEF OnLeave
<1>3. /\ Tagged("player")' = Tagged("player") \ {id} /\ Tagged("bullet")' = Tagged("bullet") \ {id}
      /\ IdsRecent' /\ Tables' /\ Rows' /\ SessionsMatchEntities' /\ AliveWithHP'
      /\ \A b \in DOMAIN ttl' : b \in DOMAIN ttl /\ ttl'[b] = ttl[b]
  BY <1>1, <1>2, Removes
<1>4. BulletAge' /\ Loops'
  BY <1>2, <1>3 DEF IInv, BulletAge, Loops, tick
<1> QED
  BY <1>3, <1>4 DEF IInv

(***************************************************************************)
(* HandleInput and Drain only touch the queue of inputs.                   *)
(***************************************************************************)
LEMMA InputStep ==
    ASSUME IInv, (\E s \in Session : HandleInput(s)) \/ InputMove
    PROVE  IInv'
<1>1. UNCHANGED <<world, alloc, hits, again>>
  BY DEF HandleInput, InputMove, tick
<1>2. \A t : Tagged(t)' = Tagged(t)
  BY <1>1 DEF world, Tagged
<1>3. IdsRecent' /\ Tables' /\ Rows' /\ SessionsMatchEntities' /\ AliveWithHP'
  <2> USE <1>1, <1>2 DEF world, alloc, actor, bullet, sessions, IInv
  <2>1. IdsRecent'
    BY DEF IdsRecent, Age
  <2>2. Tables' /\ Rows'
    BY DEF Tables, Rows
  <2>3. SessionsMatchEntities'
    BY DEF SessionsMatchEntities
  <2>4. AliveWithHP'
    BY DEF AliveWithHP, Alive
  <2> QED
    BY <2>1, <2>2, <2>3, <2>4
<1>4. CASE \E s \in Session : HandleInput(s)
  <2>1. pendingInputs' \subseteq Id
    BY <1>4 DEF HandleInput, IInv, Loops, SessionsMatchEntities, Tagged, IdsRecent
  <2> QED
    BY <1>1, <1>2, <1>3, <1>4, <2>1 DEF HandleInput, IInv, BulletAge, Loops, world, bullet, tick
<1>5. CASE InputMove
  <2>1. BulletAge'
    BY <1>1, <1>5, WorldAssumption DEF InputMove, IInv, BulletAge, world, bullet
  <2>2. Loops'
    BY <1>1, <1>2, <1>5 DEF InputMove, IInv, Loops
  <2> QED
    BY <1>3, <2>1, <2>2 DEF IInv
<1> QED
  BY <1>4, <1>5

(***************************************************************************)
(* RespawnSystem: a timer that goes on stays above zero.                   *)
(***************************************************************************)
LEMMA RespawnStep ==
    ASSUME IInv, Respawn
    PROVE  /\ IInv'
           /\ \A id \in DOMAIN respawnTimer \intersect DOMAIN respawnTimer' :
                  respawnTimer'[id] <= respawnTimer[id]
<1> DEFINE waiting == (entities \intersect DOMAIN lifeState) \ Alive
           back == {id \in waiting : respawnTimer[id] <= 1}
<1>1. /\ UNCHANGED <<entities, tag, shootCooldown, bullet, sessions, alloc, pendingInputs, todo,
                     hits, again>>
      /\ pc = "receive" /\ pc' = "input_move"
      /\ DOMAIN health' = DOMAIN health /\ DOMAIN lifeState' = DOMAIN lifeState
      /\ DOMAIN respawnTimer' = DOMAIN respawnTimer \ back
  BY DEF Respawn
<1>2. /\ \A id \in DOMAIN health : health'[id] = IF id \in back THEN MaxHP ELSE health[id]
      /\ \A id \in DOMAIN lifeState :
            lifeState'[id] = IF id \in back THEN "alive" ELSE lifeState[id]
      /\ \A id \in DOMAIN respawnTimer \ back : respawnTimer'[id] = respawnTimer[id] - 1
  BY DEF Respawn
<1>3. \A t : Tagged(t)' = Tagged(t)
  BY <1>1 DEF Tagged
<1>4. DOMAIN respawnTimer = waiting
  BY DEF IInv, Tables, AliveWithHP, Tagged
<1>5. \A id \in DOMAIN respawnTimer \ back : respawnTimer[id] \in 2 .. RespawnTicks
  BY <1>4, WorldAssumption DEF IInv, Rows
<1>6. Tables'
  BY <1>1, <1>3 DEF IInv, Tables, bullet, sessions
<1>7. Rows'
  <2>1. \A id \in DOMAIN health' : health'[id] \in 0 .. MaxHP
    BY <1>1, <1>2, WorldAssumption DEF IInv, Rows
  <2>2. \A id \in DOMAIN lifeState' : lifeState'[id] \in {"alive", "respawning"}
    BY <1>1, <1>2 DEF IInv, Rows
  <2>3. \A id \in DOMAIN respawnTimer' : respawnTimer'[id] \in 1 .. RespawnTicks
    BY <1>1, <1>2, <1>5, WorldAssumption
  <2> QED
    BY <1>1, <2>1, <2>2, <2>3 DEF IInv, Rows, bullet, sessions
<1>8. AliveWithHP'
  <2> SUFFICES ASSUME NEW id \in DOMAIN health
               PROVE  /\ (id \in Alive') = (health'[id] > 0)
                      /\ (id \in Alive') = (id \notin DOMAIN respawnTimer')
    BY <1>1 DEF AliveWithHP
  <2>0. id \in DOMAIN lifeState /\ id \in entities
    BY DEF IInv, Tables, Tagged
  <2>1. CASE id \in back
    BY <1>1, <1>2, <2>0, <2>1, WorldAssumption DEF Alive
  <2>2. CASE id \notin back
    <3>1. id \in Alive' <=> id \in Alive
      BY <1>1, <1>2, <2>0, <2>2 DEF Alive
    <3>2. id \in DOMAIN respawnTimer' <=> id \in DOMAIN respawnTimer
      BY <1>1, <2>2
    <3> QED
      BY <1>2, <2>2, <3>1, <3>2 DEF IInv, AliveWithHP
  <2> QED
    BY <2>1, <2>2
<1>9. IdsRecent' /\ SessionsMatchEntities' /\ BulletAge' /\ Loops'
  <2> USE <1>1, <1>3 DEF IInv, alloc, bullet, sessions
  <2>1. IdsRecent'
    BY DEF IdsRecent, Age
  <2>2. SessionsMatchEntities'
    BY DEF SessionsMatchEntities
  <2>3. BulletAge'
    BY DEF BulletAge
  <2>4. Loops'
    BY DEF Loops
  <2> QED
    BY <2>1, <2>2, <2>3, <2>4
<1>10. \A id \in DOMAIN respawnTimer \intersect DOMAIN respawnTimer' :
          respawnTimer'[id] <= respawnTimer[id]
  BY <1>1, <1>2, <1>5
<1> QED
  BY <1>6, <1>7, <1>8, <1>9, <1>10 DEF IInv

(***************************************************************************)
(* AutoShootSystem: a shot adds one whole bullet.                          *)
(***************************************************************************)
LEMMA ShootStep ==
    ASSUME IInv, NEW shooter \in todo, Shoot(shooter)
    PROVE  IInv'
<1> DEFINE id == NewID
<1>1. id \in Id /\ id \notin entities /\ IdsRecent'
  BY Allocates DEF IInv, Shoot
<1>2. /\ entities' = entities \union {id}
      /\ DOMAIN tag' = DOMAIN tag \union {id}
      /\ DOMAIN ttl' = DOMAIN ttl \union {id} /\ DOMAIN owner' = DOMAIN owner \union {id}
      /\ DOMAIN shootCooldown' = DOMAIN shootCooldown
      /\ pc = "auto_shoot" /\ todo' \subseteq todo
      /\ UNCHANGED <<health, lifeState, respawnTimer, sessions, pendingInputs, pc, hits, again>>
  BY DEF Shoot, AllocEntity, Put
<1>3. /\ tag'[id] = "bullet" /\ ttl'[id] = BulletTTL /\ owner'[id] = shooter
      /\ \A i \in DOMAIN tag : i # id => tag'[i] = tag[i]
      /\ \A i \in DOMAIN ttl : i # id => ttl'[i] = ttl[i]
      /\ \A i \in DOMAIN owner : i # id => owner'[i] = owner[i]
  BY DEF Shoot, Put
<1>4. \A i \in DOMAIN shootCooldown : shootCooldown'[i] \in {shootCooldown[i], ShootCooldown}
  BY DEF Shoot
<1>5. DOMAIN tag = entities /\ todo \subseteq Tagged("player")
  BY <1>2 DEF IInv, Tables, Loops
<1>6. Tagged("bullet")' = Tagged("bullet") \union {id} /\ Tagged("player")' = Tagged("player")
  BY <1>1, <1>2, <1>3, <1>5 DEF Tagged
<1>7. Tables'
  BY <1>1, <1>2, <1>3, <1>6 DEF IInv, Tables, sessions
<1>8. Rows'
  <2>1. shooter \in Id
    BY <1>5 DEF IInv, IdsRecent, Tagged
  <2>2. \A i \in DOMAIN shootCooldown' : shootCooldown'[i] \in 0 .. ShootCooldown
    BY <1>2, <1>4, WorldAssumption DEF IInv, Rows
  <2> QED
    BY <1>2, <1>3, <2>1, <2>2 DEF IInv, Rows, sessions
<1>9. SessionsMatchEntities' /\ AliveWithHP'
  BY <1>2, <1>6 DEF IInv, SessionsMatchEntities, AliveWithHP, Alive, sessions
<1>10. BulletAge'
  BY <1>2, <1>3, WorldAssumption DEF IInv, BulletAge
<1>11. Loops'
  BY <1>2, <1>6 DEF IInv, Loops
<1> QED
  BY <1>1, <1>7, <1>8, <1>9, <1>10, <1>11 DEF IInv

(***************************************************************************)
(* AutoShootSystem without a shot, and a bullet that meets nobody.         *)
(***************************************************************************)
LEMMA PassStep ==
    ASSUME IInv, NEW id \in todo, HoldFire(id) \/ BulletMisses(id)
    PROVE  IInv'
<1>1. /\ UNCHANGED <<entities, tag, health, lifeState, respawnTimer, bullet, sessions, alloc,
                     pendingInputs, pc, hits, again>>
      /\ todo' \subseteq todo
      /\ DOMAIN shootCooldown' = DOMAIN shootCooldown
  BY DEF HoldFire, BulletMisses, world, actor
<1>2. \A i \in DOMAIN shootCooldown' : shootCooldown'[i] \in 0 .. ShootCooldown
  <2>1. \A i \in DOMAIN shootCooldown : shootCooldown[i] \in 0 .. ShootCooldown
    BY DEF IInv, Rows
  <2>2. \A n \in 0 .. ShootCooldown : Max({0, n - 1}) \in 0 .. ShootCooldown
    <3> SUFFICES ASSUME NEW n \in 0 .. ShootCooldown PROVE Max({0, n - 1}) \in 0 .. ShootCooldown
      OBVIOUS
    <3>1. \E m \in {0, n - 1} : \A k \in {0, n - 1} : k <= m
      <4>1. CASE n = 0
        BY <4>1
      <4>2. CASE n > 0
        BY <4>2, WorldAssumption
      <4> QED
        BY <4>1, <4>2, WorldAssumption
    <3>2. Max({0, n - 1}) \in {0, n - 1} /\ Max({0, n - 1}) >= 0
      BY <3>1 DEF Max
    <3> QED
      BY <3>2, WorldAssumption
  <2>3. CASE BulletMisses(id)
    BY <2>1, <2>3 DEF BulletMisses, world, actor
  <2>4. CASE HoldFire(id)
    <3>1. CASE id \in Alive
      <4>1. \A i \in DOMAIN shootCooldown : shootCooldown'[i] =
               IF i = id THEN Max({0, shootCooldown[id] - 1}) ELSE shootCooldown[i]
        BY <2>4, <3>1 DEF HoldFire
      <4> QED
        BY <1>1, <2>1, <2>2, <4>1
    <3>2. CASE id \notin Alive
      BY <2>1, <2>4, <3>2 DEF HoldFire
    <3> QED
      BY <3>1, <3>2
  <2> QED
    BY <2>3, <2>4
<1>3. \A t : Tagged(t)' = Tagged(t)
  BY <1>1 DEF Tagged
<1>4. IdsRecent' /\ Tables' /\ Rows'
  BY <1>1, <1>2, <1>3 DEF IInv, IdsRecent, Age, Tables, Rows, alloc, bullet, sessions
<1>5. SessionsMatchEntities' /\ AliveWithHP'
  BY <1>1, <1>3 DEF IInv, SessionsMatchEntities, AliveWithHP, Alive, sessions
<1>6. BulletAge' /\ Loops'
  BY <1>1, <1>3 DEF IInv, BulletAge, Loops, bullet
<1> QED
  BY <1>4, <1>5, <1>6 DEF IInv

(***************************************************************************)
(* BulletMoveSystem: the uint16 never wraps.                               *)
(***************************************************************************)
LEMMA BulletMoveStep ==
    ASSUME IInv, BulletMove
    PROVE  IInv'
<1>1. /\ UNCHANGED <<entities, tag, actor, owner, sessions, alloc, pendingInputs, hits, again>>
      /\ pc = "auto_shoot" /\ pc' = "collision_damage"
      /\ DOMAIN ttl' = DOMAIN ttl /\ todo' = Tagged("bullet")
  BY DEF BulletMove
<1>2. \A t : Tagged(t)' = Tagged(t)
  BY <1>1 DEF Tagged
<1>3. BulletAge'
  <2>1. \A b \in DOMAIN ttl : b \in Tagged("bullet") /\ ttl[b] \in 1 .. BulletTTL
    BY <1>1 DEF IInv, Tables, BulletAge
  <2>2. \A b \in DOMAIN ttl : ttl'[b] = (ttl[b] - 1) % 65536
    BY <2>1 DEF BulletMove
  <2>3. \A b \in DOMAIN ttl : ttl'[b] = ttl[b] - 1
    BY <2>1, <2>2, WorldAssumption, WidthAssumption
  <2> QED
    BY <1>1, <2>1, <2>3, WorldAssumption DEF BulletAge
<1>4. IdsRecent' /\ Tables' /\ Rows'
  BY <1>1, <1>2 DEF IInv, IdsRecent, Age, Tables, Rows, actor, alloc, sessions
<1>5. SessionsMatchEntities' /\ AliveWithHP'
  BY <1>1, <1>2 DEF IInv, SessionsMatchEntities, AliveWithHP, Alive, actor, sessions
<1>6. Loops'
  BY <1>1, <1>2 DEF IInv, Loops
<1> QED
  BY <1>3, <1>4, <1>5, <1>6 DEF IInv

(***************************************************************************)
(* CollisionDamageSystem: the uint8 never wraps, whoever else hit the same *)
(* actor in this tick, and no timer is set twice.                          *)
(***************************************************************************)
LEMMA HitStep ==
    ASSUME IInv, NEW b \in todo, NEW id \in entities, BulletHits(b, id)
    PROVE  /\ IInv'
           /\ \A i \in DOMAIN respawnTimer \intersect DOMAIN respawnTimer' :
                  respawnTimer'[i] <= respawnTimer[i]
<1>1. /\ UNCHANGED <<entities, tag, shootCooldown, bullet, sessions, alloc, pendingInputs, pc,
                     again>>
      /\ pc = "collision_damage"
      /\ hits' = hits \union {b} /\ todo' \subseteq todo
      /\ DOMAIN health' = DOMAIN health /\ DOMAIN lifeState' = DOMAIN lifeState
  BY DEF BulletHits
<1>2. \A t : Tagged(t)' = Tagged(t)
  BY <1>1 DEF Tagged
<1>3. /\ id \in DOMAIN health /\ id \in DOMAIN lifeState /\ id \in Alive /\ id \in Tagged("player")
      /\ id \notin DOMAIN respawnTimer /\ health[id] \in 1 .. MaxHP
  <2>1. id \in Alive /\ id \in Tagged("player")
    BY DEF BulletHits, Targets
  <2>2. id \in DOMAIN health /\ id \in DOMAIN lifeState
    BY <2>1 DEF IInv, Tables
  <2>3. health[id] \in 0 .. MaxHP /\ health[id] > 0 /\ id \notin DOMAIN respawnTimer
    BY <2>1, <2>2 DEF IInv, Rows, AliveWithHP
  <2> QED
    BY <2>1, <2>2, <2>3, WorldAssumption
<1>4. /\ \A i \in DOMAIN health : i # id => health'[i] = health[i]
      /\ \A i \in DOMAIN lifeState : i # id => lifeState'[i] = lifeState[i]
  BY DEF BulletHits
<1>5. IdsRecent' /\ SessionsMatchEntities'
  BY <1>1, <1>2 DEF IInv, IdsRecent, Age, SessionsMatchEntities, alloc, sessions
<1>6. BulletAge' /\ Loops'
  BY <1>1, <1>2 DEF IInv, BulletAge, Loops, bullet
<1>7. CASE Lethal(id)
  <2>1. /\ health'[id] = 0 /\ lifeState'[id] = "respawning"
        /\ DOMAIN respawnTimer' = DOMAIN respawnTimer \union {id}
        /\ respawnTimer'[id] = RespawnTicks
        /\ \A i \in DOMAIN respawnTimer : respawnTimer'[i] = respawnTimer[i]
    BY <1>3, <1>7 DEF BulletHits, Put
  <2>2. Tables'
    BY <1>1, <1>2, <1>3, <2>1 DEF IInv, Tables, bullet, sessions
  <2>3. Rows'
    BY <1>1, <1>4, <2>1, WorldAssumption DEF IInv, Rows, bullet, sessions
  <2>4. AliveWithHP'
    <3>1. \A i \in DOMAIN health : i # id => (i \in Alive' <=> i \in Alive)
      BY <1>1, <1>4 DEF Alive, IInv, Tables
    <3>2. id \notin Alive'
      BY <2>1 DEF Alive
    <3> QED
      BY <1>1, <1>4, <2>1, <3>1, <3>2 DEF IInv, AliveWithHP
  <2>5. \A i \in DOMAIN respawnTimer \intersect DOMAIN respawnTimer' :
            respawnTimer'[i] <= respawnTimer[i]
    BY <2>1 DEF IInv, Rows
  <2> QED
    BY <1>5, <1>6, <2>2, <2>3, <2>4, <2>5 DEF IInv
<1>8. CASE ~Lethal(id)
  <2>1. UNCHANGED <<lifeState, respawnTimer>> /\ health'[id] = (health[id] - BulletDamage) % 256
    BY <1>3, <1>8 DEF BulletHits
  <2>2. health'[id] \in 1 .. MaxHP
    BY <1>3, <1>8, <2>1, WorldAssumption, WidthAssumption DEF Lethal
  <2>3. Tables'
    BY <1>1, <1>2, <2>1 DEF IInv, Tables, bullet, sessions
  <2>4. Rows'
    BY <1>1, <1>4, <2>1, <2>2, WorldAssumption DEF IInv, Rows, bullet, sessions
  <2>5. AliveWithHP'
    <3>1. Alive' = Alive /\ health'[id] > 0
      BY <2>1, <2>2 DEF Alive
    <3> QED
      BY <1>1, <1>3, <1>4, <2>1, <3>1 DEF IInv, AliveWithHP
  <2>6. \A i \in DOMAIN respawnTimer : respawnTimer'[i] <= respawnTimer[i]
    BY <2>1 DEF IInv, Rows
  <2> QED
    BY <1>5, <1>6, <2>1, <2>3, <2>4, <2>5, <2>6 DEF IInv
<1> QED
  BY <1>7, <1>8

(***************************************************************************)
(* The bullets that hit are removed, and then those that are too old.      *)
(***************************************************************************)
LEMMA CleanupStep ==
    ASSUME IInv, RemoveHits \/ BulletCleanup
    PROVE  IInv'
<1> DEFINE ids == IF pc = "collision_damage" THEN hits ELSE Expired
<1>1. /\ RemoveEntities(ids) /\ UNCHANGED <<alloc, pendingInputs, todo, again>>
      /\ todo = {} /\ hits' = {}
      /\ \/ pc = "collision_damage" /\ pc' = "bullet_cleanup"
         \/ pc = "bullet_cleanup" /\ pc' = "receive"
  BY DEF RemoveHits, BulletCleanup, IInv, Loops
<1>2. ids \subseteq Tagged("bullet")
  BY <1>1 DEF IInv, Loops, Expired
<1>3. ids \intersect DOMAIN entityToSession = {}
  BY <1>2 DEF IInv, Tables, Tagged
<1>4. /\ \A t : Tagged(t)' = Tagged(t) \ ids
      /\ IdsRecent' /\ Tables' /\ Rows' /\ SessionsMatchEntities' /\ AliveWithHP'
      /\ \A b \in DOMAIN ttl' : b \in DOMAIN ttl /\ ttl'[b] = ttl[b]
  BY <1>1, <1>3, Removes
<1>5. BulletAge'
  <2>1. CASE pc = "collision_damage" /\ pc' = "bullet_cleanup"
    BY <1>4, <2>1 DEF IInv, BulletAge
  <2>2. CASE pc = "bullet_cleanup" /\ pc' = "receive"
    <3>1. ASSUME NEW b \in DOMAIN ttl' PROVE ttl'[b] \in 1 .. BulletTTL - 1
      <4>1. b \in DOMAIN ttl /\ ttl'[b] = ttl[b]
        BY <1>4
      <4>2. ttl[b] \in 0 .. BulletTTL - 1
        BY <2>2, <4>1 DEF IInv, BulletAge
      <4>3. b \notin Expired
        BY <1>4, <2>2 DEF Tables
      <4>4. ttl[b] # 0
        BY <4>1, <4>3 DEF Expired, IInv, Tables
      <4> QED
        BY <4>1, <4>2, <4>4, WorldAssumption
    <3> QED
      BY <2>2, <3>1 DEF BulletAge
  <2> QED
    BY <1>1, <2>1, <2>2
<1>6. Loops'
  BY <1>1 DEF IInv, Loops
<1> QED
  BY <1>4, <1>5, <1>6 DEF IInv

-----------------------------------------------------------------------------
\* The inductive invariant holds of every world: Init gives it and each system keeps it.
LEMMA Invariance == Spec => []IInv
<1>1. Init => IInv
  <2> SUFFICES ASSUME Init PROVE IInv
    OBVIOUS
  <2>1. /\ DOMAIN health = {} /\ DOMAIN lifeState = {} /\ DOMAIN ttl = {} /\ DOMAIN owner = {}
        /\ DOMAIN tag = {} /\ DOMAIN shootCooldown = {} /\ DOMAIN respawnTimer = {}
        /\ DOMAIN sessionToEntity = {} /\ DOMAIN entityToSession = {} /\ entities = {}
    BY DEF Init, Empty
  <2>2. \A t : Tagged(t) = {}
    BY <2>1 DEF Tagged
  <2>3. IdsRecent
    BY <2>1, WorldAssumption DEF Init, IdsRecent, Id
  <2>4. Loops
    BY <2>2 DEF Init, Loops
  <2> QED
    BY <2>1, <2>2, <2>3, <2>4 DEF IInv, Tables, Rows, SessionsMatchEntities, AliveWithHP, BulletAge
<1>2. IInv /\ [Next]_vars => IInv'
  <2> SUFFICES ASSUME IInv, [Next]_vars PROVE IInv'
    OBVIOUS
  <2>1. ASSUME NEW s \in Session, OnJoin(s) PROVE IInv'
    BY <2>1, JoinStep
  <2>2. ASSUME NEW s \in Session, OnLeave(s) PROVE IInv'
    BY <2>2, LeaveStep
  <2>3. CASE (\E s \in Session : HandleInput(s)) \/ InputMove
    BY <2>3, InputStep
  <2>4. CASE Respawn
    BY <2>4, RespawnStep
  <2>5. ASSUME NEW id \in todo, Shoot(id) PROVE IInv'
    BY <2>5, ShootStep
  <2>6. ASSUME NEW id \in todo, HoldFire(id) \/ BulletMisses(id) PROVE IInv'
    BY <2>6, PassStep
  <2>7. CASE BulletMove
    BY <2>7, BulletMoveStep
  <2>8. ASSUME NEW b \in todo, NEW id \in entities, BulletHits(b, id) PROVE IInv'
    BY <2>8, HitStep
  <2>9. CASE RemoveHits \/ BulletCleanup
    BY <2>9, CleanupStep
  <2>10. CASE UNCHANGED vars
    <3> USE <2>10 DEF vars, world, alloc, tick, actor, bullet, sessions, IInv
    <3>1. \A t : Tagged(t)' = Tagged(t)
      BY DEF Tagged
    <3>2. IdsRecent' /\ Tables' /\ Rows'
      BY <3>1 DEF IdsRecent, Age, Tables, Rows
    <3>3. SessionsMatchEntities' /\ AliveWithHP'
      BY <3>1 DEF SessionsMatchEntities, AliveWithHP, Alive
    <3>4. BulletAge' /\ Loops'
      BY <3>1 DEF BulletAge, Loops
    <3> QED
      BY <3>2, <3>3, <3>4
  <2> QED
    BY <2>1, <2>2, <2>3, <2>4, <2>5, <2>6, <2>7, <2>8, <2>9, <2>10 DEF Next, Tick
<1>3. QED
  BY <1>1, <1>2, PTL DEF Spec

(***************************************************************************)
(* The tables stay within their types: no id, hit point, cooldown, timer   *)
(* or time to live ever leaves its range.                                  *)
(***************************************************************************)
THEOREM WorldTypes == Spec => []TypeOK
<1>1. IInv => TypeOK
  <2> SUFFICES ASSUME IInv PROVE TypeOK
    OBVIOUS
  <2>1. \A t : Tagged(t) \subseteq Id
    BY DEF IInv, IdsRecent, Tagged
  <2>2. /\ DOMAIN health \subseteq Id /\ DOMAIN lifeState \subseteq Id /\ DOMAIN ttl \subseteq Id
        /\ DOMAIN owner \subseteq Id /\ DOMAIN tag \subseteq Id /\ DOMAIN shootCooldown \subseteq Id
        /\ DOMAIN respawnTimer \subseteq Id /\ DOMAIN entityToSession \subseteq Id
        /\ entities \subseteq Id /\ nextEntityID \in Id
    BY <2>1 DEF IInv, Tables, IdsRecent
  <2>3. Range(ttl) \subseteq 0 .. BulletTTL
    <3> SUFFICES ASSUME NEW b \in DOMAIN ttl PROVE ttl[b] \in 0 .. BulletTTL
      BY DEF Range
    <3>1. pc \in {"receive", "input_move", "auto_shoot", "collision_damage", "bullet_cleanup"}
      BY DEF IInv, Loops
    <3> QED
      BY <3>1, WorldAssumption DEF IInv, BulletAge
  <2>4. /\ Range(health) \subseteq 0 .. MaxHP /\ Range(lifeState) \subseteq {"alive", "respawning"}
        /\ Range(owner) \subseteq Id /\ Range(shootCooldown) \subseteq 0 .. ShootCooldown
        /\ Range(respawnTimer) \subseteq 1 .. RespawnTicks
        /\ DOMAIN sessionToEntity \subseteq Session /\ Range(entityToSession) \subseteq Session
    BY DEF IInv, Rows, Range
  <2>5. Range(tag) \subseteq {"player", "bullet"} /\ Range(sessionToEntity) \subseteq Id
    BY <2>1 DEF IInv, Tables, SessionsMatchEntities, Range
  <2>6. todo \subseteq Id /\ hits \subseteq Id
    BY <2>1 DEF IInv, Loops
  <2> QED
    BY <2>2, <2>3, <2>4, <2>5, <2>6 DEF IInv, IdsRecent, Loops, TypeOK
<1>2. QED
  BY <1>1, Invariance, PTL

(***************************************************************************)
(* Every entity of a snapshot is a whole player or a whole bullet, and no  *)
(* table keeps a row of an entity that is no more.                         *)
(***************************************************************************)
THEOREM AlwaysWhole == Spec => []EntitiesWhole
<1>1. IInv => EntitiesWhole
  <2> SUFFICES ASSUME IInv PROVE EntitiesWhole
    OBVIOUS
  <2>1. ASSUME NEW id \in entities
        PROVE  id \in DOMAIN tag /\ Mask(id) =
                 IF tag[id] = "player" THEN {"hp", "life", "tag"} ELSE {"ttl", "own", "tag"}
    <3>1. id \in DOMAIN tag /\ tag[id] \in {"player", "bullet"}
      BY DEF IInv, Tables
    <3>2. /\ id \in DOMAIN health <=> tag[id] = "player"
          /\ id \in DOMAIN lifeState <=> tag[id] = "player"
          /\ id \in DOMAIN ttl <=> tag[id] = "bullet"
          /\ id \in DOMAIN owner <=> tag[id] = "bullet"
      BY <3>1 DEF IInv, Tables, Tagged
    <3>3. /\ "hp" \in Mask(id) <=> tag[id] = "player"
          /\ "life" \in Mask(id) <=> tag[id] = "player"
          /\ "ttl" \in Mask(id) <=> tag[id] = "bullet"
          /\ "own" \in Mask(id) <=> tag[id] = "bullet"
          /\ "tag" \in Mask(id)
      BY <3>1, <3>2 DEF Mask
    <3>4. Mask(id) \subseteq {"hp", "life", "ttl", "own", "tag"}
      BY DEF Mask
    <3> QED
      BY <3>1, <3>3, <3>4
  <2>2. DOMAIN health \union DOMAIN ttl \union DOMAIN tag \union DOMAIN respawnTimer \subseteq entities
    BY DEF IInv, Tables, Tagged
  <2> QED
    BY <2>1, <2>2 DEF EntitiesWhole, IInv, Tables
<1>2. QED
  BY <1>1, Invariance, PTL

(***************************************************************************)
(* A session's links go both ways, and a player without a session is one   *)
(* whose session joined twice.                                             *)
(***************************************************************************)
THEOREM LinksAgree == Spec => []SessionsMatchEntities
  BY Invariance, PTL DEF IInv

(***************************************************************************)
(* An actor is alive exactly while it has hit points, and waits with a     *)
(* running timer exactly while it has none.                                *)
(***************************************************************************)
THEOREM AliveAgrees == Spec => []AliveWithHP
  BY Invariance, PTL DEF IInv

(***************************************************************************)
(* A bullet that hits nothing is gone BulletTTL ticks after it was fired.  *)
(***************************************************************************)
THEOREM BulletsExpire == Spec => []NoStrayBullet
<1>1. IInv => NoStrayBullet
  BY DEF IInv, BulletAge, NoStrayBullet
<1>2. QED
  BY <1>1, Invariance, PTL

(***************************************************************************)
(* No step puts a respawn timer back up.                                   *)
(***************************************************************************)
THEOREM RespawnOnTime == Spec => RespawnNotDelayed
<1> DEFINE Down == \A id \in DOMAIN respawnTimer \intersect DOMAIN respawnTimer' :
                       respawnTimer'[id] <= respawnTimer[id]
<1>1. IInv /\ [Next]_vars => [Down]_vars
  <2> SUFFICES ASSUME IInv, Next PROVE Down
    OBVIOUS
  <2>1. ASSUME UNCHANGED respawnTimer PROVE Down
    BY <2>1 DEF IInv, Rows
  <2>2. ASSUME NEW ids, RemoveEntities(ids) PROVE Down
    <3>1. /\ DOMAIN respawnTimer' = DOMAIN respawnTimer \ ids
          /\ \A id \in DOMAIN respawnTimer' : respawnTimer'[id] = respawnTimer[id]
      BY <2>2 DEF RemoveEntities, Without, Restrict
    <3> QED
      BY <3>1 DEF IInv, Rows
  <2>3. ASSUME NEW s \in Session, OnJoin(s) \/ OnLeave(s) \/ HandleInput(s) PROVE Down
    BY <2>1, <2>2, <2>3 DEF OnJoin, OnLeave, HandleInput, world, actor
  <2>4. CASE Respawn
    BY <2>4, RespawnStep
  <2>5. CASE InputMove \/ BulletMove
    BY <2>1, <2>5 DEF InputMove, BulletMove, world, actor
  <2>6. CASE RemoveHits \/ BulletCleanup
    BY <2>2, <2>6 DEF RemoveHits, BulletCleanup
  <2>7. ASSUME NEW id \in todo, Shoot(id) \/ HoldFire(id) \/ BulletMisses(id) PROVE Down
    BY <2>1, <2>7 DEF Shoot, HoldFire, BulletMisses, world, actor
  <2>8. ASSUME NEW b \in todo, NEW id \in entities, BulletHits(b, id) PROVE Down
    BY <2>8, HitStep
  <2> QED
    BY <2>3, <2>4, <2>5, <2>6, <2>7, <2>8 DEF Next, Tick
<1>2. QED
  BY <1>1, Invariance, PTL DEF Spec, RespawnNotDelayed

-----------------------------------------------------------------------------
(***************************************************************************)
(* A session.                                                              *)
(***************************************************************************)

(***************************************************************************)
(* The inductive invariant.  CleanLeave speaks of a session that has       *)
(* ended; that it has left the room was settled earlier, by the roomID     *)
(* that close found and by what the owner did before it cancelled.         *)
(***************************************************************************)

ServedMsg(kind) == [kind |-> kind, room |-> "served"]

\* Until close begins, roomID knows what the room believes, and what it will.
RoomKnown ==
    ~spoiled /\ ~closed =>
        /\ member => roomID = "served"
        /\ goroutine["read"] = "publish" /\ data = ServedMsg("join") => roomID = "served"

\* The owner is inside close only after its compare-and-swap.
CloseOnce == goroutine["owner"] \in {"publish", "cancel"} => closed

\* From then on a session that the room still holds is one whose Leave is to come,
\* and roomID, which close reads again for its topic, is still the room.
LeaveToCome ==
    ~spoiled /\ closed /\ member => goroutine["owner"] = "publish" /\ roomID = "served"

\* A Leave in hand that names another room than the session's has been counted already.
LeaveNamesRoom ==
    ~spoiled /\ goroutine["read"] = "publish" /\ data.kind = "leave" /\ roomID = "served"
        => data.room = "served"

\* The context ends at the end of close, or because Run failed.
CancelledByClose ==
    ~spoiled /\ cancelled => closed /\ goroutine["owner"] \notin {"publish", "cancel"}

\* The owner runs from the start, and returns only when the context is done.
OwnerRuns ==
    /\ goroutine["run"] = "off" <=> goroutine["owner"] = "off"
    /\ goroutine["owner"] = "done" => cancelled

\* Run starts the heartbeat after it has queued the Assign message.
NoEarlyPing ==
    goroutine["run"] \in {"off", "starting"} =>
        /\ goroutine["heartbeat"] = "off"
        /\ \A i \in DOMAIN writeCh : writeCh[i] # "ping"

LeaveInv ==
    /\ RoomKnown /\ CloseOnce /\ LeaveToCome /\ LeaveNamesRoom
    /\ CancelledByClose /\ OwnerRuns

PingInv == NoEarlyPing /\ AssignBeforePing

-----------------------------------------------------------------------------
(***************************************************************************)
(* No goroutine ever fills a channel past its capacity or leaves the       *)
(* states that the code has, whatever the capacities are.                  *)
(***************************************************************************)
THEOREM SessionTypes == SessionSpec => []SessionTypeOK
<1>1. SessionInit => SessionTypeOK
  <2> SUFFICES ASSUME SessionInit PROVE SessionTypeOK
    OBVIOUS
  <2>1. goroutine \in [Goroutine -> {"off"}]
    BY DEF SessionInit
  <2>2. ctrlCh = <<>> /\ writeCh = <<>> /\ unread = 0 /\ unread \in 0 .. SubscriptionCap
    BY QueueAssumption DEF SessionInit
  <2>3. Len(ctrlCh) <= CtrlCap /\ Len(writeCh) <= WriteCap
    BY <2>2, QueueAssumption
  <2>4. ctrlCh \in Seq({"close", "pong"}) /\ writeCh \in Seq({"assign", "ping", "data"})
    BY <2>2
  <2>5. /\ roomID \in RoomId \union {"none"} /\ closed \in BOOLEAN /\ cancelled \in BOOLEAN
        /\ gone \in BOOLEAN /\ member \in BOOLEAN /\ spoiled \in BOOLEAN
        /\ data \in Incoming /\ stale \subseteq Stamp /\ subscription \in {"none", "open", "closed"}
    BY DEF SessionInit, Incoming, Nothing, RoomId
  <2> QED
    BY <2>1, <2>2, <2>3, <2>4, <2>5 DEF SessionTypeOK
<1>2. SessionTypeOK /\ [SessionNext]_sessionVars => SessionTypeOK'
  <2> SUFFICES ASSUME SessionTypeOK, [SessionNext]_sessionVars PROVE SessionTypeOK'
    OBVIOUS
  <2> USE QueueAssumption DEF SessionTypeOK, Goroutine, Incoming, RoomId, Nothing, Stamp, fields, queues, seenOutside
  <2>1. CASE Accept
    <3>1. goroutine' \in [Goroutine -> {"off", "starting", "loop"}]
      <4> SUFFICES ASSUME NEW g \in Goroutine
                   PROVE  (CASE g = "run" -> "starting"
                             [] g = "heartbeat" -> "off"
                             [] g \in Loop \ {"heartbeat"} -> "loop")
                          \in {"off", "starting", "loop"}
        BY <2>1 DEF Accept
      <4> QED
        BY DEF Loop
    <3>2. /\ subscription' = "open"
          /\ UNCHANGED <<data, fields, ctrlCh, writeCh, unread, seenOutside>>
      BY <2>1 DEF Accept
    <3>3. goroutine' \in [Goroutine -> {"off", "starting", "waiting", "failed", "loop",
                                         "handle", "publish", "cancel", "control", "done"}]
      BY <3>1
    <3> QED
      BY <3>2, <3>3
  <2>2. CASE SendAssign
    BY <2>2 DEF SendAssign, Enqueue, Goto
  <2>3. CASE RunFails
    BY <2>3 DEF RunFails, Goto
  <2>4. CASE RunReturns
    BY <2>4 DEF RunReturns, Goto
  <2>5. ASSUME NEW g \in Loop, LoopEnds(g) PROVE SessionTypeOK'
    BY <2>5 DEF LoopEnds, Goto, Loop
  <2>6. CASE OwnerEvent
    <3>1. /\ goroutine' \in [Goroutine -> {"off", "starting", "waiting", "failed", "loop",
                                             "handle", "publish", "cancel", "control", "done"}]
          /\ stale' \subseteq Stamp
          /\ closed' \in BOOLEAN
      <4>1. CASE CloseBegins
        BY <4>1 DEF CloseBegins, Goto
      <4>2. CASE Touch("pong") /\ UNCHANGED <<goroutine, closed>>
        BY <4>2 DEF Touch
      <4> QED
        BY <2>6, <4>1, <4>2 DEF OwnerEvent
    <3>2. ctrlCh' \in Seq({"close", "pong"}) /\ Len(ctrlCh') <= CtrlCap
      BY <2>6 DEF OwnerEvent
    <3> QED
      BY <2>6, <3>1, <3>2 DEF OwnerEvent
  <2>7. CASE OwnerIdle
    BY <2>7 DEF OwnerIdle, CloseBegins, Goto
  <2>8. CASE OwnerLeave
    <3>1. member' \in BOOLEAN /\ spoiled' \in BOOLEAN
      BY <2>8 DEF OwnerLeave, Publish
    <3> QED
      BY <2>8, <3>1 DEF OwnerLeave, Goto
  <2>9. CASE OwnerCancel
    BY <2>9 DEF OwnerCancel, Goto
  <2>10. CASE HandleData
    BY <2>10 DEF HandleData, ReaderGoto, Goto
  <2>11. CASE HandlePublish
    BY <2>11 DEF HandlePublish, Publish, ReaderGoto, Goto
  <2>12. ASSUME NEW g \in {"read", "write"}, SendCtrlEvent(g) PROVE SessionTypeOK'
    BY <2>12 DEF SendCtrlEvent, AfterControl, ControlEvent, ReaderGoto, Goto
  <2>13. ASSUME NEW g \in {"read", "write"}, SendCtrlGivesUp(g) PROVE SessionTypeOK'
    BY <2>13 DEF SendCtrlGivesUp, AfterControl, ControlEvent, ReaderGoto, Goto
  <2>14. ASSUME NEW msg \in Incoming, Read(msg) PROVE SessionTypeOK'
    BY <2>14 DEF Read, Touch, Goto
  <2>15. CASE ReadFails
    BY <2>15 DEF ReadFails, Goto
  <2>16. CASE Write
    BY <2>16 DEF Write, Touch
  <2>17. CASE WriteFails
    BY <2>17 DEF WriteFails, Goto
  <2>18. CASE Forward
    BY <2>18 DEF Forward, Enqueue
  <2>19. CASE SubscribeEnds
    BY <2>19 DEF SubscribeEnds, Goto
  <2>20. CASE Heartbeat
    BY <2>20 DEF Heartbeat, Enqueue
  <2>21. CASE Broadcast
    BY <2>21 DEF Broadcast
  <2>22. CASE PeerGone
    BY <2>22 DEF PeerGone
  <2>23. CASE Close
    BY <2>23 DEF Close
  <2>24. ASSUME NEW stamp \in Stamp, Expire(stamp) PROVE SessionTypeOK'
    BY <2>24 DEF Expire
  <2>25. CASE UNCHANGED sessionVars
    BY <2>25 DEF sessionVars
  <2>26. QED
    BY <2>1, <2>2, <2>3, <2>4, <2>5, <2>6, <2>7, <2>8, <2>9, <2>10, <2>11, <2>12, <2>13,
       <2>14, <2>15, <2>16, <2>17, <2>18, <2>19, <2>20, <2>21, <2>22, <2>23, <2>24, <2>25
    DEF SessionNext, Run, Owner, Reader, Writer, Loop, Goroutine
<1>3. QED
  BY <1>1, <1>2, PTL DEF SessionSpec

(***************************************************************************)
(* Every step keeps what makes a session leave the room.  The steps that   *)
(* matter are close, which reads roomID, and the publications of the read  *)
(* goroutine that come before, between and after the owner's.              *)
(***************************************************************************)
LEMMA SessionLeaveStep ==
    ASSUME SessionTypeOK, LeaveInv, [SessionNext]_sessionVars
    PROVE  LeaveInv'
<1> USE DEF SessionTypeOK, Goroutine, Incoming, RoomId, Nothing, ServedMsg, LeaveInv, RoomKnown,
            CloseOnce, LeaveToCome, LeaveNamesRoom, CancelledByClose, OwnerRuns, fields, queues, seenOutside
<1>1. CASE Accept
  <2>1. goroutine'["owner"] = "loop" /\ goroutine'["read"] = "loop"
    BY <1>1, Zenon DEF Accept, Loop
  <2> QED
    BY <1>1, <2>1 DEF Accept
<1>2. CASE SendAssign
  BY <1>2 DEF SendAssign, Enqueue
<1>3. CASE RunFails
  BY <1>3 DEF RunFails, Goto
<1>4. CASE RunReturns
  BY <1>4 DEF RunReturns, Goto
<1>5. ASSUME NEW g \in Loop, LoopEnds(g) PROVE LeaveInv'
  BY <1>5 DEF LoopEnds, Goto, Loop
<1>6. CASE OwnerEvent
  BY <1>6 DEF OwnerEvent, CloseBegins, Touch, Goto
<1>7. CASE OwnerIdle
  BY <1>7 DEF OwnerIdle, CloseBegins, Goto
<1>8. CASE OwnerLeave
  <2>1. /\ goroutine["owner"] = "publish" /\ goroutine' = [goroutine EXCEPT !["owner"] = "cancel"]
        /\ roomID' = "none"
        /\ UNCHANGED <<data, closed, cancelled>>
    BY <1>8 DEF OwnerLeave, Goto
  <2>2. ~spoiled' => ~spoiled /\ ~member'
    <3>1. CASE ~member' /\ spoiled' = spoiled
      BY <3>1
    <3>2. CASE spoiled' = TRUE
      BY <3>2
    <3>3. CASE (cancelled \/ roomID # "served") /\ UNCHANGED <<member, spoiled>>
      BY <2>1, <3>3
    <3> QED
      BY <1>8, <3>1, <3>2, <3>3 DEF OwnerLeave, Publish
  <2> QED
    BY <2>1, <2>2
<1>9. CASE OwnerCancel
  BY <1>9 DEF OwnerCancel, Goto
<1>10. CASE HandleData
  <2>1. /\ goroutine["read"] = "handle"
        /\ \A g \in Goroutine \ {"read"} : goroutine'[g] = goroutine[g]
        /\ UNCHANGED <<closed, cancelled, member>>
    BY <1>10 DEF HandleData, ReaderGoto, Goto
  <2>2. roomID' = IF data.kind = "join" THEN data.room ELSE roomID
    BY <1>10 DEF HandleData
  <2>3. ~spoiled' => ~spoiled /\ ~Strays
    BY <1>10 DEF HandleData
  <2>4. goroutine'["read"] = "publish" => data' = data
    BY <1>10 DEF HandleData, ReaderGoto, Goto
  <2>5. ~spoiled' => (roomID = "served" => roomID' = "served")
    BY <2>2, <2>3 DEF Strays
  <2>6. ~spoiled' /\ goroutine'["read"] = "publish" /\ data'.kind = "leave" /\ roomID' = "served"
            => data'.room = "served"
    BY <2>2, <2>3, <2>4 DEF Strays
  <2>7. goroutine'["read"] = "publish" /\ data' = ServedMsg("join") => roomID' = "served"
    BY <2>2, <2>4
  <2>8. /\ goroutine'["owner"] = goroutine["owner"] /\ goroutine'["run"] = goroutine["run"]
    BY <2>1
  <2>9. RoomKnown' /\ LeaveNamesRoom'
    BY <2>1, <2>3, <2>5, <2>6, <2>7
  <2>10. CloseOnce' /\ LeaveToCome' /\ CancelledByClose' /\ OwnerRuns'
    BY <2>1, <2>3, <2>5, <2>8
  <2> QED
    BY <2>9, <2>10
<1>11. CASE HandlePublish
  <2>1. /\ goroutine'["read"] = "loop"
        /\ goroutine'["owner"] = goroutine["owner"] /\ goroutine'["run"] = goroutine["run"]
        /\ closed' = closed /\ cancelled' = cancelled
        /\ roomID' = IF data.kind = "leave" THEN "none" ELSE roomID
    BY <1>11 DEF HandlePublish, ReaderGoto, Goto
  <2>2. CASE data.room = "served" /\ spoiled' = (spoiled \/ data.kind = "leave") /\ UNCHANGED member
    BY <1>11, <2>1, <2>2 DEF HandlePublish
  <2>3. CASE (cancelled \/ data.room # "served") /\ UNCHANGED <<member, spoiled>>
    BY <1>11, <2>1, <2>3 DEF HandlePublish
  <2>4. CASE data = ServedMsg("join") /\ member' /\ spoiled' = (spoiled \/ closed)
    BY <1>11, <2>1, <2>4 DEF HandlePublish
  <2>5. CASE data.kind = "leave" /\ ~member' /\ spoiled' = spoiled
    BY <2>1, <2>5
  <2>6. CASE data.kind \notin {"join", "leave"} /\ UNCHANGED <<member, spoiled>>
    BY <2>1, <2>6
  <2> QED
    BY <1>11, <2>2, <2>3, <2>4, <2>5, <2>6 DEF HandlePublish, Publish
<1>12. ASSUME NEW g \in {"read", "write"}, SendCtrlEvent(g) PROVE LeaveInv'
  BY <1>12 DEF SendCtrlEvent, AfterControl, ControlEvent, ReaderGoto, Goto
<1>13. ASSUME NEW g \in {"read", "write"}, SendCtrlGivesUp(g) PROVE LeaveInv'
  BY <1>13 DEF SendCtrlGivesUp, AfterControl, ControlEvent, ReaderGoto, Goto
<1>14. ASSUME NEW msg \in Incoming, Read(msg) PROVE LeaveInv'
  BY <1>14 DEF Read, Goto
<1>15. CASE ReadFails
  BY <1>15 DEF ReadFails, Goto
<1>16. CASE Write
  BY <1>16 DEF Write
<1>17. CASE WriteFails
  BY <1>17 DEF WriteFails, Goto
<1>18. CASE Forward
  BY <1>18 DEF Forward, Enqueue
<1>19. CASE SubscribeEnds
  BY <1>19 DEF SubscribeEnds, Goto
<1>20. CASE Heartbeat
  BY <1>20 DEF Heartbeat, Enqueue
<1>21. CASE Broadcast
  BY <1>21 DEF Broadcast
<1>22. CASE PeerGone
  BY <1>22 DEF PeerGone
<1>23. CASE Close
  BY <1>23 DEF Close
<1>24. ASSUME NEW stamp \in Stamp, Expire(stamp) PROVE LeaveInv'
  BY <1>24 DEF Expire
<1>25. CASE UNCHANGED sessionVars
  BY <1>25 DEF sessionVars
<1> QED
  BY <1>1, <1>2, <1>3, <1>4, <1>5, <1>6, <1>7, <1>8, <1>9, <1>10, <1>11, <1>12, <1>13,
     <1>14, <1>15, <1>16, <1>17, <1>18, <1>19, <1>20, <1>21, <1>22, <1>23, <1>24, <1>25
  DEF SessionNext, Run, Owner, Reader, Writer, Loop, Goroutine

(***************************************************************************)
(* A session that has ended, whichever of the peer, the idle timeout and   *)
(* the server ended it, is out of the room, unless a Leave met a full      *)
(* inbox, a Join followed close, Run failed, or the peer named another     *)
(* room in a Join or a Leave while it was in this one.                     *)
(***************************************************************************)
THEOREM LeavesCleanly == SessionSpec => []CleanLeave
<1>1. SessionInit => LeaveInv
  BY DEF SessionInit, Goroutine, LeaveInv, RoomKnown, CloseOnce, LeaveToCome, LeaveNamesRoom,
         CancelledByClose, OwnerRuns
<1>2. SessionTypeOK /\ LeaveInv /\ [SessionNext]_sessionVars => LeaveInv'
  BY SessionLeaveStep
<1>3. SessionTypeOK /\ LeaveInv => CleanLeave
  BY DEF SessionTypeOK, LeaveInv, LeaveToCome, CancelledByClose, OwnerRuns, CleanLeave, Ended,
         Loop, Goroutine
<1>4. QED
  BY <1>1, <1>2, <1>3, SessionTypes, PTL DEF SessionSpec

-----------------------------------------------------------------------------
(***************************************************************************)
(* Every step keeps the Assign message ahead of the pings.                 *)
(***************************************************************************)
LEMMA PingStep ==
    ASSUME SessionTypeOK, PingInv, [SessionNext]_sessionVars
    PROVE  PingInv'
<1> USE DEF SessionTypeOK, Goroutine, Incoming, PingInv, NoEarlyPing, AssignBeforePing, fields,
            queues, seenOutside
<1>1. CASE Accept
  BY <1>1 DEF Accept
<1>2. CASE SendAssign
  BY <1>2 DEF SendAssign, Enqueue
<1>3. CASE RunFails
  BY <1>3 DEF RunFails, Goto
<1>4. CASE RunReturns
  BY <1>4 DEF RunReturns, Goto
<1>5. ASSUME NEW g \in Loop, LoopEnds(g) PROVE PingInv'
  BY <1>5 DEF LoopEnds, Goto, Loop
<1>6. CASE OwnerEvent
  BY <1>6 DEF OwnerEvent, CloseBegins, Touch, Goto
<1>7. CASE OwnerIdle
  BY <1>7 DEF OwnerIdle, CloseBegins, Goto
<1>8. CASE OwnerLeave
  BY <1>8 DEF OwnerLeave, Publish, Goto
<1>9. CASE OwnerCancel
  BY <1>9 DEF OwnerCancel, Goto
<1>10. CASE HandleData
  BY <1>10 DEF HandleData, ReaderGoto, Goto
<1>11. CASE HandlePublish
  BY <1>11 DEF HandlePublish, Publish, ReaderGoto, Goto
<1>12. ASSUME NEW g \in {"read", "write"}, SendCtrlEvent(g) PROVE PingInv'
  BY <1>12 DEF SendCtrlEvent, AfterControl, ControlEvent, ReaderGoto, Goto
<1>13. ASSUME NEW g \in {"read", "write"}, SendCtrlGivesUp(g) PROVE PingInv'
  BY <1>13 DEF SendCtrlGivesUp, AfterControl, ControlEvent, ReaderGoto, Goto
<1>14. ASSUME NEW msg \in Incoming, Read(msg) PROVE PingInv'
  BY <1>14 DEF Read, Goto
<1>15. CASE ReadFails
  BY <1>15 DEF ReadFails, Goto
<1>16. CASE Write
  BY <1>16 DEF Write
<1>17. CASE WriteFails
  BY <1>17 DEF WriteFails, Goto
<1>18. CASE Forward
  BY <1>18 DEF Forward, Enqueue
<1>19. CASE SubscribeEnds
  BY <1>19 DEF SubscribeEnds, Goto
<1>20. CASE Heartbeat
  BY <1>20 DEF Heartbeat, Enqueue
<1>21. CASE Broadcast
  BY <1>21 DEF Broadcast
<1>22. CASE PeerGone
  BY <1>22 DEF PeerGone
<1>23. CASE Close
  BY <1>23 DEF Close
<1>24. ASSUME NEW stamp \in Stamp, Expire(stamp) PROVE PingInv'
  BY <1>24 DEF Expire
<1>25. CASE UNCHANGED sessionVars
  BY <1>25 DEF sessionVars
<1> QED
  BY <1>1, <1>2, <1>3, <1>4, <1>5, <1>6, <1>7, <1>8, <1>9, <1>10, <1>11, <1>12, <1>13,
     <1>14, <1>15, <1>16, <1>17, <1>18, <1>19, <1>20, <1>21, <1>22, <1>23, <1>24, <1>25
  DEF SessionNext, Run, Owner, Reader, Writer, Loop, Goroutine

(***************************************************************************)
(* However full writeCh is when Run queues the Assign message and whatever *)
(* the room sent before, no ping is queued ahead of it.                    *)
(***************************************************************************)
THEOREM AssignFirst == SessionSpec => []AssignBeforePing
<1>1. SessionInit => PingInv
  BY DEF SessionInit, Goroutine, PingInv, NoEarlyPing, AssignBeforePing
<1>2. SessionTypeOK /\ PingInv /\ [SessionNext]_sessionVars => PingInv'
  BY PingStep
<1>3. PingInv => AssignBeforePing
  BY DEF PingInv
<1>4. QED
  BY <1>1, <1>2, <1>3, SessionTypes, PTL DEF SessionSpec

-----------------------------------------------------------------------------
(***************************************************************************)
(* A room and the publications between it and its sessions.                *)
(***************************************************************************)

(***************************************************************************)
(* The inductive invariant.                                                *)
(***************************************************************************)

\* The room closes its topic when it stops, and not before.
HubOpenUntilStop ==
    /\ topic[Hub] # "none"
    /\ topic[Hub] = "closed" => stopping

\* Whoever the room knows or will know of has subscribed first.
MembersSubscribed ==
    /\ \A s \in SessionID : hand[s] # Nobody => topic[s] # "none"
    /\ \A i \in DOMAIN inbox : topic[inbox[i].from] # "none"
    /\ \A s \in registry : topic[s] # "none"

ServingInv ==
    /\ HubOpenUntilStop
    /\ MembersSubscribed
    /\ SessionPanicsOnlyAtShutdown
    /\ FrameForEveryMember

-----------------------------------------------------------------------------
(***************************************************************************)
(* registry.Add and registry.Remove decide only on the sender of a join or *)
(* leave.                                                                  *)
(***************************************************************************)
LEMMA RegisteredMembers ==
    ASSUME NEW members \in SUBSET SessionID, NEW m \in Message
    PROVE  /\ Registered(members, m) \in SUBSET SessionID
           /\ \A s \in SessionID : s \in Registered(members, m) <=>
                  IF s = m.from /\ m.kind # "app" THEN m.kind = "join" ELSE s \in members
<1> USE DEF Message, Kind
<1>1. CASE m.kind = "join"
  BY <1>1, Zenon DEF Registered
<1>2. CASE m.kind = "leave"
  BY <1>2 DEF Registered
<1>3. CASE m.kind = "app"
  BY <1>3 DEF Registered
<1> QED
  BY <1>1, <1>2, <1>3

(***************************************************************************)
(* The first message of the inbox and the others.                          *)
(***************************************************************************)
LEMMA FirstMessage ==
    ASSUME RoomTypeOK, inbox # <<>>
    PROVE  /\ Head(inbox) = inbox[1] /\ Head(inbox) \in Message
           /\ 1 \in DOMAIN inbox
           /\ Tail(inbox) \in Seq(Message) /\ Len(Tail(inbox)) = Len(inbox) - 1
           /\ \A i \in DOMAIN Tail(inbox) : i + 1 \in DOMAIN inbox /\ Tail(inbox)[i] = inbox[i + 1]
  BY DEF RoomTypeOK

(***************************************************************************)
(* No publication fills a channel past its capacity, whatever the          *)
(* capacities and however the publications interleave.                     *)
(***************************************************************************)
THEOREM RoomTypes == RoomSpec => []RoomTypeOK
<1>1. RoomInit => RoomTypeOK
  <2> SUFFICES ASSUME RoomInit PROVE RoomTypeOK
    OBVIOUS
  <2>1. inbox \in Seq(Message) /\ Len(inbox) <= InboxCap
    BY BufferAssumption, NameAssumption DEF RoomInit
  <2>2. queued \in [SessionID -> 0 .. TopicCap]
    BY BufferAssumption, NameAssumption DEF RoomInit
  <2>3. hand \in [SessionID -> Kind \union {Nobody}]
    BY DEF RoomInit
  <2> QED
    BY <2>1, <2>2, <2>3 DEF RoomInit, RoomTypeOK
<1>2. RoomTypeOK /\ [RoomNext]_roomVars => RoomTypeOK'
  <2> SUFFICES ASSUME RoomTypeOK, [RoomNext]_roomVars PROVE RoomTypeOK'
    OBVIOUS
  <2> USE BufferAssumption, NameAssumption DEF RoomTypeOK, Message, Kind, channels, room
  <2>1. CASE RoomTick
    BY <2>1 DEF RoomTick
  <2>2. CASE HandleMessage
    <3>1. inbox' \in Seq(Message) /\ Len(inbox') <= InboxCap
      BY <2>2 DEF HandleMessage
    <3>2. Head(inbox) \in Message
      BY <2>2, FirstMessage DEF HandleMessage
    <3>3. registry' \in SUBSET SessionID
      BY <2>2, <3>2, RegisteredMembers DEF HandleMessage
    <3> QED
      BY <2>2, <3>1, <3>3 DEF HandleMessage
  <2>3. CASE RoomSends
    BY <2>3 DEF RoomSends, Serve
  <2>4. CASE RoomSkips
    BY <2>4 DEF RoomSkips, Serve
  <2>5. CASE RoomPanics
    BY <2>5 DEF RoomPanics
  <2>6. CASE TickEnds
    BY <2>6 DEF TickEnds
  <2>7. ASSUME NEW frame \in BOOLEAN, ApplicationTick(frame) PROVE RoomTypeOK'
    BY <2>7 DEF ApplicationTick
  <2>8. ASSUME NEW s \in SessionID, LookUp(s) PROVE RoomTypeOK'
    BY <2>8 DEF LookUp
  <2>9. CASE RoomStops
    BY <2>9 DEF RoomStops
  <2>10. CASE Cancel
    BY <2>10 DEF Cancel
  <2>11. ASSUME NEW s \in SessionID, Subscribe(s) PROVE RoomTypeOK'
    BY <2>11 DEF Subscribe
  <2>12. ASSUME NEW s \in SessionID, Unsubscribe(s) PROVE RoomTypeOK'
    BY <2>12 DEF Unsubscribe
  <2>13. ASSUME NEW s \in SessionID, Take(s) PROVE RoomTypeOK'
    BY <2>13 DEF Take
  <2>14. ASSUME NEW s \in SessionID, PublishSends(s) PROVE RoomTypeOK'
    BY <2>14 DEF PublishSends
  <2>15. ASSUME NEW s \in SessionID, PublishSkips(s) PROVE RoomTypeOK'
    BY <2>15 DEF PublishSkips
  <2>16. ASSUME NEW s \in SessionID, PublishPanics(s) PROVE RoomTypeOK'
    BY <2>16 DEF PublishPanics
  <2>17. ASSUME NEW s \in SessionID, NEW kind \in Kind, PublishBegins(s, kind) PROVE RoomTypeOK'
    BY <2>17 DEF PublishBegins
  <2>18. CASE UNCHANGED roomVars
    BY <2>18 DEF roomVars
  <2> QED
    BY <2>1, <2>2, <2>3, <2>4, <2>5, <2>6, <2>7, <2>8, <2>9, <2>10, <2>11, <2>12, <2>13,
       <2>14, <2>15, <2>16, <2>17, <2>18
    DEF RoomNext, Work
<1>3. QED
  BY <1>1, <1>2, PTL DEF RoomSpec

-----------------------------------------------------------------------------
(***************************************************************************)
(* Every step keeps the room serving everybody.  A session is looked up    *)
(* and passed over only when it has no open subscription, and one that is  *)
(* registered never subscribes again.                                      *)
(***************************************************************************)
LEMMA ServingStep ==
    ASSUME RoomTypeOK, ServingInv, [RoomNext]_roomVars
    PROVE  ServingInv'
<1> USE BufferAssumption, NameAssumption DEF RoomTypeOK, Message, Kind, channels, room, ServingInv,
        HubOpenUntilStop, MembersSubscribed, SessionPanicsOnlyAtShutdown, FrameForEveryMember
<1>1. CASE RoomTick
  BY <1>1 DEF RoomTick
<1>2. CASE HandleMessage
  <2>1. \A s \in registry' : s \in registry \/ s = Head(inbox).from
    BY <1>2, FirstMessage, RegisteredMembers DEF HandleMessage
  <2>2. \A i \in DOMAIN inbox' : topic[inbox'[i].from] # "none"
    BY <1>2, FirstMessage DEF HandleMessage
  <2> QED
    BY <1>2, FirstMessage, <2>1, <2>2 DEF HandleMessage
<1>3. CASE RoomSends
  BY <1>3 DEF RoomSends, Serve
<1>4. CASE RoomSkips
  BY <1>4 DEF RoomSkips, Serve
<1>5. CASE RoomPanics
  BY <1>5 DEF RoomPanics
<1>6. CASE TickEnds
  BY <1>6 DEF TickEnds
<1>7. ASSUME NEW frame \in BOOLEAN, ApplicationTick(frame) PROVE ServingInv'
  BY <1>7 DEF ApplicationTick
<1>8. ASSUME NEW s \in SessionID, LookUp(s) PROVE ServingInv'
  BY <1>8 DEF LookUp
<1>9. CASE RoomStops
  BY <1>9 DEF RoomStops
<1>10. CASE Cancel
  BY <1>10 DEF Cancel
<1>11. ASSUME NEW s \in SessionID, Subscribe(s) PROVE ServingInv'
  BY <1>11 DEF Subscribe
<1>12. ASSUME NEW s \in SessionID, Unsubscribe(s) PROVE ServingInv'
  BY <1>12 DEF Unsubscribe
<1>13. ASSUME NEW s \in SessionID, Take(s) PROVE ServingInv'
  BY <1>13 DEF Take
<1>14. ASSUME NEW s \in SessionID, PublishSends(s) PROVE ServingInv'
  BY <1>14 DEF PublishSends
<1>15. ASSUME NEW s \in SessionID, PublishSkips(s) PROVE ServingInv'
  BY <1>15 DEF PublishSkips
<1>16. ASSUME NEW s \in SessionID, PublishPanics(s) PROVE ServingInv'
  BY <1>16 DEF PublishPanics
<1>17. ASSUME NEW s \in SessionID, NEW kind \in Kind, PublishBegins(s, kind) PROVE ServingInv'
  BY <1>17 DEF PublishBegins
<1>18. CASE UNCHANGED roomVars
  BY <1>18 DEF roomVars
<1> QED
  BY <1>1, <1>2, <1>3, <1>4, <1>5, <1>6, <1>7, <1>8, <1>9, <1>10, <1>11, <1>12, <1>13,
     <1>14, <1>15, <1>16, <1>17, <1>18
  DEF RoomNext, Work

\* The serving invariant holds of the room and its pub/sub, for every set of sessions.
LEMMA Serving == RoomSpec => []ServingInv
<1>1. RoomInit => ServingInv
  BY BufferAssumption, NameAssumption DEF RoomInit, ServingInv, HubOpenUntilStop, MembersSubscribed,
     SessionPanicsOnlyAtShutdown, FrameForEveryMember
<1>2. RoomTypeOK /\ ServingInv /\ [RoomNext]_roomVars => ServingInv'
  BY ServingStep
<1>3. QED
  BY <1>1, <1>2, RoomTypes, PTL DEF RoomSpec

(***************************************************************************)
(* A session's publication meets a closed channel only after shutdown has  *)
(* begun: until then no session can bring the server down.                 *)
(***************************************************************************)
THEOREM NoSessionPanic == RoomSpec => []SessionPanicsOnlyAtShutdown
  BY Serving, PTL DEF ServingInv

(***************************************************************************)
(* A subscriber that is full, gone or not there yet costs no other session *)
(* its frame.                                                              *)
(***************************************************************************)
THEOREM EveryMemberServed == RoomSpec => []FrameForEveryMember
  BY Serving, PTL DEF ServingInv

-----------------------------------------------------------------------------
(***************************************************************************)
(* Every step keeps the registry in agreement with the inbox.  Only two    *)
(* change either: a message that gets in becomes its session's last word,  *)
(* and a message that is read is the first.                                *)
(***************************************************************************)
LEMMA RegistryStep ==
    ASSUME RoomTypeOK, RegistryFollowsInbox, [RoomNext]_roomVars
    PROVE  RegistryFollowsInbox'
<1> USE DEF channels, room
<1> DEFINE Same == UNCHANGED <<inbox, registry, joined>>
<1>0. ASSUME Same PROVE RegistryFollowsInbox'
  <2>1. \A s \in SessionID : Words(s)' = Words(s)
    BY <1>0 DEF Words
  <2> QED
    BY <1>0, <2>1 DEF RegistryFollowsInbox
<1>1. CASE RoomTick
  BY <1>0, <1>1 DEF RoomTick
<1>2. CASE HandleMessage
  <2> SUFFICES ASSUME NEW s \in SessionID
               PROVE  s \in joined' <=>
                        \/ Words(s)' = {} /\ s \in registry'
                        \/ \E i \in Words(s)' : /\ inbox'[i].kind = "join"
                                               /\ \A j \in Words(s)' : j <= i
    BY DEF RegistryFollowsInbox
  <2> DEFINE m == Head(inbox)
  <2>1. joined' = joined /\ inbox' = Tail(inbox) /\ inbox # <<>>
    BY <1>2 DEF HandleMessage
  <2>2. s \in registry' <=> IF s = m.from /\ m.kind # "app" THEN m.kind = "join" ELSE s \in registry
    BY <1>2, FirstMessage, RegisteredMembers DEF HandleMessage, RoomTypeOK
  <2>3. 1 \in Words(s) <=> s = m.from /\ m.kind # "app"
    BY <2>1, FirstMessage DEF Words
  <2>4. Words(s) \subseteq Nat \ {0}
    BY DEF Words, RoomTypeOK
  <2>5. \A i \in Nat \ {0} : i \in Words(s)' <=> i + 1 \in Words(s)
    BY <2>1, FirstMessage DEF Words, RoomTypeOK
  <2>6. \A i \in Words(s)' : i \in Nat \ {0} /\ inbox'[i] = inbox[i + 1]
    BY <2>1, FirstMessage DEF Words, RoomTypeOK
  <2>7. s \in joined <=> \/ Words(s) = {} /\ s \in registry
                         \/ \E i \in Words(s) : /\ inbox[i].kind = "join"
                                               /\ \A j \in Words(s) : j <= i
    BY DEF RegistryFollowsInbox
  <2>8. CASE Words(s)' = {}
    <3>1. Words(s) \subseteq {1}
      BY <2>8, <2>4, <2>5
    <3> QED
      BY <2>8, <3>1, <2>1, <2>2, <2>3, <2>7, FirstMessage
  <2>9. CASE Words(s)' # {}
    <3>1. ASSUME NEW i \in Words(s)', \A j \in Words(s)' : j <= i
          PROVE  i + 1 \in Words(s) /\ \A j \in Words(s) : j <= i + 1
      BY <3>1, <2>4, <2>5, <2>6
    <3>2. ASSUME NEW i \in Words(s), \A j \in Words(s) : j <= i
          PROVE  i - 1 \in Words(s)' /\ \A j \in Words(s)' : j <= i - 1
      BY <3>2, <2>9, <2>4, <2>5, <2>6
    <3>3. ASSUME s \in joined PROVE \E i \in Words(s)' : /\ inbox'[i].kind = "join"
                                                        /\ \A j \in Words(s)' : j <= i
      <4>1. Words(s) # {}
        BY <2>9, <2>5, <2>6
      <4>2. PICK i \in Words(s) : inbox[i].kind = "join" /\ \A j \in Words(s) : j <= i
        BY <3>3, <4>1, <2>7
      <4>3. i - 1 \in Words(s)' /\ \A j \in Words(s)' : j <= i - 1
        BY <3>2, <4>2
      <4>4. inbox'[i - 1] = inbox[i]
        BY <4>3, <2>4, <2>6
      <4> QED
        BY <4>2, <4>3, <4>4
    <3>4. ASSUME NEW i \in Words(s)', inbox'[i].kind = "join", \A j \in Words(s)' : j <= i
          PROVE  s \in joined
      <4>1. i + 1 \in Words(s) /\ \A j \in Words(s) : j <= i + 1
        BY <3>1, <3>4
      <4>2. inbox[i + 1].kind = "join"
        BY <3>4, <2>6
      <4> QED
        BY <4>1, <4>2, <2>7
    <3> QED
      BY <2>1, <2>9, <3>3, <3>4
  <2> QED
    BY <2>8, <2>9
<1>3. CASE RoomSends
  BY <1>0, <1>3 DEF RoomSends, Serve
<1>4. CASE RoomSkips
  BY <1>0, <1>4 DEF RoomSkips, Serve
<1>5. CASE RoomPanics
  BY <1>0, <1>5 DEF RoomPanics
<1>6. CASE TickEnds
  BY <1>0, <1>6 DEF TickEnds
<1>7. ASSUME NEW frame \in BOOLEAN, ApplicationTick(frame) PROVE RegistryFollowsInbox'
  BY <1>0, <1>7 DEF ApplicationTick
<1>8. ASSUME NEW s \in SessionID, LookUp(s) PROVE RegistryFollowsInbox'
  BY <1>0, <1>8 DEF LookUp
<1>9. CASE RoomStops
  BY <1>0, <1>9 DEF RoomStops
<1>10. CASE Cancel
  BY <1>0, <1>10 DEF Cancel
<1>11. ASSUME NEW s \in SessionID, Subscribe(s) PROVE RegistryFollowsInbox'
  BY <1>0, <1>11 DEF Subscribe
<1>12. ASSUME NEW s \in SessionID, Unsubscribe(s) PROVE RegistryFollowsInbox'
  BY <1>0, <1>12 DEF Unsubscribe
<1>13. ASSUME NEW s \in SessionID, Take(s) PROVE RegistryFollowsInbox'
  BY <1>0, <1>13 DEF Take
<1>14. ASSUME NEW s \in SessionID, PublishSends(s) PROVE RegistryFollowsInbox'
  <2> SUFFICES ASSUME NEW t \in SessionID
               PROVE  t \in joined' <=>
                        \/ Words(t)' = {} /\ t \in registry'
                        \/ \E i \in Words(t)' : /\ inbox'[i].kind = "join"
                                               /\ \A j \in Words(t)' : j <= i
    BY DEF RegistryFollowsInbox
  <2> DEFINE n == Len(inbox) + 1
             m == [from |-> s, kind |-> hand[s]]
  <2>1. /\ registry' = registry /\ inbox' = Append(inbox, m)
        /\ hand[s] \in Kind
    BY <1>14 DEF PublishSends, RoomTypeOK
  <2>2. m \in Message
    BY <2>1 DEF Message
  <2>3. /\ n \in Nat /\ DOMAIN inbox' = DOMAIN inbox \union {n} /\ inbox'[n] = m
        /\ \A i \in DOMAIN inbox : i \in Nat /\ i < n /\ inbox'[i] = inbox[i]
    BY <2>1, <2>2 DEF RoomTypeOK
  <2>4. t \in joined <=> \/ Words(t) = {} /\ t \in registry
                         \/ \E i \in Words(t) : /\ inbox[i].kind = "join"
                                               /\ \A j \in Words(t) : j <= i
    BY DEF RegistryFollowsInbox
  <2>5. CASE t = s /\ hand[s] # "app"
    <3>1. n \in Words(t)' /\ \A j \in Words(t)' : j \in Nat /\ j <= n
      BY <2>3, <2>5 DEF Words
    <3>2. t \in joined' <=> hand[s] = "join"
      BY <1>14, <2>5 DEF PublishSends
    <3> QED
      BY <2>3, <3>1, <3>2
  <2>6. CASE ~(t = s /\ hand[s] # "app")
    <3>1. Words(t)' = Words(t)
      BY <2>3, <2>6 DEF Words
    <3>2. t \in joined' <=> t \in joined
      BY <1>14, <2>6, <2>1 DEF PublishSends, Kind
    <3>3. \A i \in Words(t) : inbox'[i] = inbox[i]
      BY <2>3 DEF Words
    <3> QED
      BY <2>1, <2>4, <3>1, <3>2, <3>3
  <2> QED
    BY <2>5, <2>6
<1>15. ASSUME NEW s \in SessionID, PublishSkips(s) PROVE RegistryFollowsInbox'
  BY <1>0, <1>15 DEF PublishSkips
<1>16. ASSUME NEW s \in SessionID, PublishPanics(s) PROVE RegistryFollowsInbox'
  BY <1>0, <1>16 DEF PublishPanics
<1>17. ASSUME NEW s \in SessionID, NEW kind \in Kind, PublishBegins(s, kind)
       PROVE  RegistryFollowsInbox'
  BY <1>0, <1>17 DEF PublishBegins
<1>18. CASE UNCHANGED roomVars
  BY <1>0, <1>18 DEF roomVars
<1> QED
  BY <1>1, <1>2, <1>3, <1>4, <1>5, <1>6, <1>7, <1>8, <1>9, <1>10, <1>11, <1>12, <1>13,
     <1>14, <1>15, <1>16, <1>17, <1>18
  DEF RoomNext, Work

(***************************************************************************)
(* With the inbox read, the registry holds exactly the sessions whose last *)
(* publication that got through was a join, whatever is skipped.           *)
(***************************************************************************)
THEOREM RegistryAgrees == RoomSpec => []RegistryFollowsInbox
<1>1. RoomInit => RegistryFollowsInbox
  <2> SUFFICES ASSUME RoomInit, NEW s \in SessionID
               PROVE  Words(s) = {} /\ s \notin joined /\ s \notin registry
    BY DEF RegistryFollowsInbox
  <2>1. DOMAIN inbox = {}
    BY DEF RoomInit
  <2> QED
    BY <2>1 DEF RoomInit, Words
<1>2. RoomTypeOK /\ RegistryFollowsInbox /\ [RoomNext]_roomVars => RegistryFollowsInbox'
  BY RegistryStep
<1>3. QED
  BY <1>1, <1>2, RoomTypes, PTL DEF RoomSpec
===============================================================================
