SPECIFICATION Spec
CONSTANTS
    a = a
    b = b
    c = c
    t1 = t1
    t2 = t2
    NoRun = NoRun
    TableOf <- SharedTableOf
    Runs = {a}
    Tables = {t1, t2}
    Workers = {w1, w2}
    Upserts = {a}
    Clears = {}
    PreSql = {a}
    MaxConcurrentRuns = 2
    TombstoneLimit = 2
    MaxBatches = 2
    MaxRestarts = 0
    AckLost = {"create", "push", "swap", "drop"}
    TrackAnswers = FALSE
SYMMETRY WorkerSymmetry
INVARIANTS
    TombstonesTrue
CHECK_DEADLOCK FALSE
