CONSTANTS
    t1 = t1
    t2 = t2
    t3 = t3
    NoWrr = NoWrr
    Tasks <- MC_Tasks
    Prios <- MC_Prios
    Background <- MC_Background
    HeadFlags = {FALSE, TRUE}
    WRR_FORE_TIMESLICE = 2
    WRR_BACK_TIMESLICE = 1
    MaxClock = 1
SYMMETRY MC_Symmetry
SPECIFICATION Spec
INVARIANTS
    TypeOK
    RunQueueConsistent
    ChargedRuntime
PROPERTY
    ReadyQueueRefined
