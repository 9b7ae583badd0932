\* Two projects, a task of either kind at a time, traffic that may end and a process that may stop.
SPECIFICATION FairSpec
CONSTANTS
    None = None
    t1 = t1
    t2 = t2
    d1 = d1
    d2 = d2
    e1 = e1
    e2 = e2
    r1 = r1
    Work = {d1, d2, e1, e2}
    Kind <- TwoProjects
    After <- TwoAfter
    Tasks = {t1, t2}
    Requests = {r1}
    MaxPending <- One
    Permits <- One
    Delay <- Delays
    MaxBatches = 1
    World = {"stop", "calm"}
INVARIANTS
    LiveTasksAreKnown
    TasksAreBounded
    NothingOutlivesShutdown
    NobodyOversleeps
PROPERTIES
    StartsWhenIdle
    EverythingEnds
    ShutdownEnds
CHECK_DEADLOCK FALSE
