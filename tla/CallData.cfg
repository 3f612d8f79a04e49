SPECIFICATION Spec
CONSTANTS
    LabelBytes = 2
    Headroom = 1
    Radix = 4
    MaxArgsDepth = 2
    MaxArgsNodes = 5
    MaxSanitizeDepth = 3
    MaxSanitizeNodes = 5
    KindOf <- MCKindOf
    None = None
    Requests <- MCRequests
    Configured = {1, 3}
    ToolDefault = 2
    MaxOutput = 8
    MaxContent = 20
    MaxSummary = 12
    Streams <- MCStreams
    Texts <- MCTexts
    Codes <- MCCodes
    MaxDelay = 1
CHECK_DEADLOCK FALSE
INVARIANTS
    FitsOrSaysSo
    KilledIsTimeout
    AcceptedNotCut
