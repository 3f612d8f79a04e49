SPECIFICATION Spec
CONSTANTS
    Calls = {c1}
    Names <- MCNames
    ToolSpecs <- MCToolSpecs
    ArgNames <- MCArgNames
    Requests <- AllRequests
    Allowlist <- MCAllowlist
    TierAnswers = {"container", "unavailable", "raised"}
    HandlerReasons = {"too_large"}
    Sizes = {1, 4}
    SentenceSize = 1
    DetailSize = 1
    MaxContent = 3
    MaxSummary = 2
    DefaultTimeout = 3
    TicksPerMs = 4
    HasStore = TRUE
    SteadyClock = FALSE
    MaxTime = 3
CHECK_DEADLOCK FALSE
INVARIANTS
    TypeOK
    RegistrationFound
    HandlerOnlyWhenPermitted
    HandlerGetsResolvedPaths
    SandboxOnlyForPermittedCalls
    FirstFaultDecides
    DurationMatchesVerdict
    LateOutputDiscarded
