SPECIFICATION Spec
CONSTANTS
    a = a
    b = b
    u = u
    v = v
    x = x
    y = y
    d = d
    t = t
    p = p
    q = q
    c1 = c1
    c2 = c2
    Agents = {a, b}
    Urls = {u, v}
    Instances = {x, y}
    Sources = {d}
    Tasks = {t}
    Secrets = {p, q}
    Callers = {c1, c2}
    MaxCalls = 6
    Legacy = u
    Nobody = Nobody
    NoAgent = NoAgent
    NoSource = NoSource
    Blank = Blank
    RunIds = {1, 2}
    OwnerOf <- MCOwnerOf
    RetentionDays = 1
    RetentionRuns = 1
    PageLimit = 1
    MaxDay = 2
    MaxSaid = 3
    MaxFaults = 2
    MinutesAnHour = 2
    HoursADay = 2
    WeekLength = 3
    MonthStarts <- MCMonthStarts
    MonthsAYear = 2
    LongestMonth = 4
    LookaheadDays = 16
    StepWidth = 16
    PreviewCount = 3
    Expressions <- MCExpressions
    Moments <- MCMoments
    MaxPrecision = 3
    MaxScale = 2
    MaxFsp = 2
    Selections <- MCSelections
    Tables <- MCTables
    Changed <- MCChanged
    Hints <- MCHints
    Digits = {0, 2}
SYMMETRY Alike
INVARIANTS
    PinTrue
    RefersWell
    SecretKept
    NothingBehind
    UpcomingTrue
    OpenedSound
    DdlPasses
PROPERTIES
    LinesKept
CHECK_DEADLOCK FALSE
