SPECIFICATION SuperSpec
CONSTANTS
    a = a
    t1 = t1
    NoRun = NoRun
    TableOf <- OneTableOf
    Runs = {a}
    Tables = {t1}
    Workers = {w1, w2}
    Upserts = {a}
    Clears = {}
    PreSql = {}
    MaxConcurrentRuns = 2
    TombstoneLimit = 1
    MaxBatches = 2
    MaxRestarts = 0
    AckLost = {}
    TrackAnswers = TRUE
    Lossy = FALSE
    Mortal <- AllStages
SYMMETRY WorkerSymmetry
INVARIANTS
    HoldReported
CHECK_DEADLOCK FALSE
