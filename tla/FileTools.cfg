SPECIFICATION Spec
CONSTANTS
    WriteRoot <- MCWriteRoot
    ReadRoots <- MCReadRoots
    CycleRaises = FALSE
    MaxSteps = 10
    Calls = {c1, c2}
    Trees <- MCTrees
    Requests <- MCRequests
    Swaps <- MCSwaps
    MaxSwaps = 2
    ReadCap = 1
SYMMETRY CallSymmetry
CHECK_DEADLOCK FALSE
INVARIANTS
    TypeOK
    StaysInside
    WrittenWhole
    ReadWithinCap
    ClearWriteSucceeds
