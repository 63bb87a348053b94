\* Three concurrent callers, clocks that repeat and go back.
SPECIFICATION FairSpec
CONSTANTS
    Threads = {t1, t2, t3}
    MaxClock = 2
    MaxCalls = 3
INVARIANTS RealTimeOrder NearClock
PROPERTIES RefinesDispenser CallsReturn
