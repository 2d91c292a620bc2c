CONSTANTS
    t1 = t1
    t2 = t2
    t3 = t3
    NoWrr = NoWrr
    Tasks <- MC_Tasks
    Prios <- MC_Prios
    Background <- MC_Background
    HeadFlags = {FALSE}
    WRR_FORE_TIMESLICE = 2
    WRR_BACK_TIMESLICE = 1
    MaxClock = 0
SPECIFICATION FairSpec
PROPERTY
    MostUrgentRuns
