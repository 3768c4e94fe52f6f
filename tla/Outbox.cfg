SPECIFICATION OutboxSpec
CONSTANTS
    a = a
    b = b
    p = p
    q = q
    task = task
    Runs = {a}
    Recipients = {p, q}
    TaskOf <- OneTask
    Menu <- TwoPlaces
    RetryBase = 1
    Hour = 2
    Retention = 2
    MaxList = 2
    MaxClock = 3
    MaxAttempts = 2
    MaxMishaps = 1
INVARIANTS
    OutboxTypeOK
    FailureAlerted
    SummaryTrue
    MailsAccounted
PROPERTIES
    FinalStays
CHECK_DEADLOCK FALSE
