SPECIFICATION FairSuper
CONSTANTS
    a = a
    t1 = t1
    NoRun = NoRun
    TableOf <- OneTableOf
    Runs = {a}
    Tables = {t1}
    Workers = {w1, w2}
    Upserts = {a}
    Clears = {}
    PreSql = {}
    MaxConcurrentRuns = 2
    TombstoneLimit = 1
    MaxBatches = 3
    MaxRestarts = 1
    AckLost = {"create", "push", "drop"}
    TrackAnswers = TRUE
    Lossy = TRUE
    Mortal <- AllStages
INVARIANTS
    SuperTypeOK
    EffectTrue
    WholeImport
    StreamingHoldReported
    NoHopelessRelease
PROPERTIES
    PromiseKept
    RunSettles
CHECK_DEADLOCK FALSE
