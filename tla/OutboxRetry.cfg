SPECIFICATION OutboxSpec
CONSTANTS
    a = a
    b = b
    p = p
    q = q
    task = task
    Runs = {a}
    Recipients = {p, q}
    TaskOf <- OneTask
    Menu <- NoWindow
    RetryBase = 1
    Hour = 2
    Retention = 9
    MaxList = 1
    MaxClock = 2
    MaxAttempts = 2
    MaxMishaps = 0
INVARIANTS
    RetryIsTried
CHECK_DEADLOCK FALSE
