SPECIFICATION Spec
CONSTANTS
    Name = {a}
    Group = {g1}
    Server = {s1}
    RedisPort = {1, 2}
    EnvoyMaster = {11}
    EnvoyAuto = {21}
    Request = {r1, r2}
    Session = {}
    Reconciler = {k}
    Lost = Lost
    NONE = NONE
    Ops = {"create", "stop", "reconcile"}
SYMMETRY Symmetry
PROPERTIES
    ReconcileOverwritesNothingNew
