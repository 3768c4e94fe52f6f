SPECIFICATION FairSpec
CONSTANTS
    a = a
    b = b
    c = c
    t1 = t1
    t2 = t2
    NoRun = NoRun
    TableOf <- SharedTableOf
    Runs = {b, c}
    Tables = {t1, t2}
    Workers = {w1, w2}
    Upserts = {c}
    Clears = {b}
    PreSql = {c}
    MaxConcurrentRuns = 1
    TombstoneLimit = 1
    MaxBatches = 1
    MaxRestarts = 0
    AckLost = {}
    TrackAnswers = TRUE
INVARIANTS
    QuotaRespected
PROPERTIES
    SealedRunEnds
    SeatReturned
CHECK_DEADLOCK FALSE
