SPECIFICATION Spec
CONSTANTS
    Calls = {c1}
    Names <- MCNames
    ToolSpecs <- MCToolSpecs
    ArgNames <- MCArgNames
    Requests <- TimedRequests
    Allowlist <- MCAllowlist
    TierAnswers = {"container"}
    HandlerReasons = {"too_large"}
    Sizes = {1, 4}
    SentenceSize = 1
    DetailSize = 1
    MaxContent = 3
    MaxSummary = 2
    DefaultTimeout = 2
    TicksPerMs = 1
    HasStore = TRUE
    SteadyClock = TRUE
    MaxTime = 3
CHECK_DEADLOCK FALSE
INVARIANTS
    TimeoutMeansHandlerExceeded
