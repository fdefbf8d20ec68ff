CONSTANTS
    Threads = {other}
    MaxCalls = 2
    Timers = {t1}
    Delays = {0, 1}
    MaxTimerId = 1
    Period = 2
    FlushFloor = 1
    MaxTime = 2
SPECIFICATION FairSpec
INVARIANT CallWakesLoop
PROPERTIES CallsAreRun TimersFire
