CONSTANTS
    p1 = p1
    p2 = p2
    Procs <- MC_Procs
    Programs = {"cpu_bound", "mixed"}
    ChildCountArgs = {0, 1, 2, 3}
    BlockArgs = {0, 1, 2}
    TransferArgs = {1, 4}
    FileSizes = {1, 2, 3}
    MAX_CHILDREN = 2
    CHILD_ITERATIONS = 2
SPECIFICATION FairSpec
INVARIANTS
    TypeOK
    ReapedOnReturn
PROPERTY
    Terminates
