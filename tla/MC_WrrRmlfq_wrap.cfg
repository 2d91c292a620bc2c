CONSTANTS
    t1 = t1
    t2 = t2
    NoWrr = NoWrr
    Tasks <- MC_Tasks
    Background = {}
    Prios = {1, 4}
    Bands = 3
    StageWidth = 2
    RandBits = 4
    ConstWraps = TRUE
    WRR_FORE_TIMESLICE = 1
    WRR_BACK_TIMESLICE = 1
SPECIFICATION Spec
INVARIANT
    MigrationFollowsThresholds
