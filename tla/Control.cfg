SPECIFICATION ControlSpec
CONSTANTS
    a = a
    b = b
    t1 = t1
    t2 = t2
    e = e
    s = s
    k = k
    NoRun = NoRun
    NoTask = NoTask
    Tasks = {t1, t2}
    TaskOrder <- Order
    TableOf <- OneTable
    AgentOf <- OneAgent
    Quota <- QuotaOne
    Runs = {a, b}
    Crons = {e}
    Fires <- EveryMinute
    MaxNow = 2
    MaxUpsets = 1
SYMMETRY Alike
INVARIANTS
    ControlTypeOK
    OneChildPerTask
    HoldsBooked
    ScheduledWithinQuota
PROPERTIES
    StartedOnce
CHECK_DEADLOCK FALSE
