CONSTANTS
    r1 = r1  r2 = r2  w1 = w1  w2 = w2  f1 = f1  k1 = k1  c1 = c1
    NoRuntime = NoRuntime
    Runtimes <- TwoRuntimes
    Workers <- TwoWorkers
    Keys = {k1}
    Refs = {c1}
    Functions = {f1}
    QueueLimit = 1
    TimeoutLimit = 2
    TimeoutWindow = 2
    ErrorWindow = 2
    CommandLimit = 1
    Outcomes = {"ok"}
    Kinds = {"load", "watch"}
    MaxGeneration = 2
    MaxBacklog = 0
SPECIFICATION Spec
CHECK_DEADLOCK FALSE
INVARIANTS SingleDrain NoStrandedEvent WatchersOfLiveVm StoppedIsQuiet
