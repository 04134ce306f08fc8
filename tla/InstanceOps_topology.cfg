SPECIFICATION Spec
CONSTANTS
    Name = {a, b}
    Group = {g1, g2}
    Server = {s1, s2}
    RedisPort = {1}
    EnvoyMaster = {11, 12}
    EnvoyAuto = {21}
    Request = {r1, r2}
    Session = {}
    Reconciler = {k}
    Lost = Lost
    NONE = NONE
    Ops = {"create", "delete", "promote", "replicate", "sentinel"}
SYMMETRY Symmetry
INVARIANTS
    TypeOK
    PortsDistinct
    EnvoyPortsDistinct
    MasterIsCurrent
    MembersHaveGroup
    LocksKept
    GroupsSerialized
PROPERTIES
    WorkUndisturbed
    RegistryKept
