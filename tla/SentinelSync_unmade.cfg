SPECIFICATION LiveSpec
CONSTANTS
    Member = {m1, m2}
    Founder = m1
    Nodes <- ThreeNodes
    s1 = s1
    s2 = s2
    s3 = s3
    Alive = {s2, s3}
    Quorum = 2
    Loop = loop
    Watcher = {}
    Handler = {h}
    Ops = {"promote", "lose"}
    Budget = 1
    NONE = NONE
PROPERTIES
    SyncMadeGood
