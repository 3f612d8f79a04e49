SPECIFICATION Spec
CONSTANTS
    Calls = {c1, c2}
    Names <- MCNames
    ToolSpecs <- MCToolSpecs
    ArgNames <- MCArgNames
    Requests <- FewRequests
    Allowlist <- MCAllowlist
    TierAnswers = {"container", "raised"}
    HandlerReasons = {"too_large"}
    Sizes = {4}
    SentenceSize = 1
    DetailSize = 1
    MaxContent = 3
    MaxSummary = 2
    DefaultTimeout = 1
    TicksPerMs = 1
    HasStore = TRUE
    SteadyClock = TRUE
    MaxTime = 0
CHECK_DEADLOCK FALSE
INVARIANTS
    RecordedOnce
    RecordMirrorsResult
PROPERTIES
    KeepsPromise
