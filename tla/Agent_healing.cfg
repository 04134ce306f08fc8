SPECIFICATION LiveSpec
CONSTANTS
    Handler = {h}
    Retention = 1
    Tries = 1
    MaxClock = 1
    MaxWrites = 1
    MaxSets = 2
    NONE = NONE
CONSTRAINT FewSets
INVARIANTS
    TypeOK
PROPERTIES
    KeepsAWhole
    HungIsRestarted
