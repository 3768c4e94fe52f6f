SPECIFICATION FairPool
CONSTANTS
    Users = {u1, u2, u3, u4}
    MaxPool = 2
    Turns = 2
INVARIANTS
    LiveTrue
    OneEach
    NoLostWakeup
PROPERTIES
    Served
CHECK_DEADLOCK FALSE
