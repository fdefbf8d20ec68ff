CONSTANTS
    Threads = {other}
    MaxCalls = 0
    Timers = {t1, t2}
    Delays = {0, 1}
    MaxTimerId = 3
    Period = 2
    FlushFloor = 1
    MaxTime = 2
SPECIFICATION Spec
SYMMETRY TimerSymmetry
INVARIANTS TypeOK SleepEnds OneTimerEach
PROPERTY CancelledIsSilent
