SPECIFICATION Spec
CONSTANTS
    Handler = {h}
    Retention = 1
    Tries = 1
    MaxClock = 1
    MaxWrites = 1
    NONE = NONE
PROPERTIES
    RestoreIsServed
