SPECIFICATION Spec
CONSTANTS
    a = a
    b = b
    c = c
    t1 = t1
    t2 = t2
    NoRun = NoRun
    TableOf <- SharedTableOf
    Runs = {a, b}
    Tables = {t1, t2}
    Workers = {w1, w2}
    Upserts = {a}
    Clears = {b}
    PreSql = {a}
    MaxConcurrentRuns = 2
    TombstoneLimit = 2
    MaxBatches = 2
    MaxRestarts = 1
    AckLost = {}
    TrackAnswers = FALSE
SYMMETRY WorkerSymmetry
INVARIANTS
    TypeOK
    TargetExclusion
    TombstonesTrue
    RememberedSwap
PROPERTIES
    SwapsUnderHold
    HoldsImplemented
CHECK_DEADLOCK FALSE
