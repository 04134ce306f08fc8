SPECIFICATION Spec
CONSTANTS
    Name = {a, b}
    Group = {g1}
    Server = {s1}
    RedisPort = {1, 2}
    EnvoyMaster = {11}
    EnvoyAuto = {21}
    Request = {r1, r2}
    Session = {}
    Reconciler = {k}
    Lost = Lost
    NONE = NONE
    Ops = {"create", "delete", "promote", "sentinel", "reconcile", "start", "stop", "forceStop", "config", "restore", "writeFails"}
SYMMETRY Symmetry
INVARIANTS
    TopologyFresh
PROPERTIES
    LockRespected
