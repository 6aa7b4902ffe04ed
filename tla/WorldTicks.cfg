\* Two sessions; new ids and ids that wrap around; two hits kill.
SPECIFICATION Spec
CONSTANTS
    Session = {s1, s2}
    IdSpace = 8
    FirstId <- NewAndWrapping
    MaxHP = 4
    BulletDamage = 2
    BulletTTL = 4
    ShootCooldown = 1
    RespawnTicks = 2
    MaxAlloc = 5
SYMMETRY Symmetry
INVARIANTS TypeOK EntitiesWhole SessionsMatchEntities AliveWithHP NoStrayBullet
PROPERTIES RespawnNotDelayed
