SPECIFICATION LiveSpec
CONSTANTS
    Member = {m1, m2}
    Founder = m1
    Nodes <- ThreeNodes
    s1 = s1
    s2 = s2
    s3 = s3
    Alive = {s1, s2}
    Quorum = 2
    Loop = loop
    Watcher = {w}
    Handler = {}
    Ops = {"crash"}
    Budget = 1
    NONE = NONE
PROPERTIES
    MasterComesBack
