SPECIFICATION FairOutbox
CONSTANTS
    a = a
    b = b
    p = p
    q = q
    task = task
    Runs = {a, b}
    Recipients = {p, q}
    TaskOf <- OneTask
    Menu <- OnePlace
    RetryBase = 1
    Hour = 2
    Retention = 9
    MaxList = 1
    MaxClock = 2
    MaxAttempts = 2
    MaxMishaps = 0
INVARIANTS
    SpacedSkips
PROPERTIES
    DueServed
CHECK_DEADLOCK FALSE
