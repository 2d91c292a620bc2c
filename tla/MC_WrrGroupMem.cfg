CONSTANTS
    g1 = g1
    g2 = g2
    Root = Root
    NULL = NULL
    Groups <- MC_Groups
    ParentOf <- MC_ParentOf
    MaxGen = 2
SPECIFICATION Spec
INVARIANT
    NoLeak
CHECK_DEADLOCK FALSE
