CONSTANTS
    t1 = t1
    t2 = t2
    t3 = t3
    g1 = g1
    g2 = g2
    Root = Root
    NoEntity = NoEntity
    NoWrr = NoWrr
    Tasks <- MC_Tasks
    Groups <- MC_Groups
    GroupOf <- MC_GroupOf
    ParentOf <- MC_ParentOf
    BackGroups <- MC_BackGroups
    Prios <- MC_Prios
    GroupSePrio = 1
    GroupSeSlice = 0
    SliceBits = 2
    HeadFlags = {FALSE, TRUE}
    MAX_WRR_PRIO = 100
    WRR_FORE_TIMESLICE = 2
    WRR_BACK_TIMESLICE = 1
SYMMETRY MC_Symmetry
SPECIFICATION Spec
INVARIANT
    GroupMembership
