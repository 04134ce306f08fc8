SPECIFICATION Spec
CONSTANTS
    Name = {a, b}
    Group = {g1, g2}
    Server = {s1}
    RedisPort = {1, 2}
    EnvoyMaster = {11, 12}
    EnvoyAuto = {21, 22}
    Request = {r1, r2}
    Session = {}
    Reconciler = {k}
    Lost = Lost
    NONE = NONE
    Ops = {"create", "delete"}
SYMMETRY Symmetry
PROPERTIES
    MasterNotDeletedUnderReplicas
