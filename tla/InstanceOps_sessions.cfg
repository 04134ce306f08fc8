SPECIFICATION LiveSpec
CONSTANTS
    Name = {a, b}
    Group = {g1}
    Server = {s1}
    RedisPort = {1, 2}
    EnvoyMaster = {11}
    EnvoyAuto = {21}
    Request = {r1, r2}
    Session = {x}
    Reconciler = {k}
    Lost = Lost
    NONE = NONE
    Ops = {"create", "delete", "promote", "sentinel", "backup", "expire", "restart", "writeFails"}
INVARIANTS
    LocksHaveOwner
    OneSessionPerGroup
PROPERTIES
    OnlyTheOvertakenInterfere
    GroupsComeFree
