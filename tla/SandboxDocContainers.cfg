SPECIFICATION Spec
CONSTANTS
    Uses = {u1}
    Runtimes <- OneRuntime
    Requests <- FewRequests
    MaxChanges = 1
CHECK_DEADLOCK FALSE
INVARIANTS
    EveryContainerRemoved
