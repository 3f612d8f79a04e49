SPECIFICATION FairSpec
CONSTANTS
    Uses = {u1, u2}
    Runtimes <- OneRuntime
    Requests <- MCRequests
    MaxChanges = 1
CHECK_DEADLOCK FALSE
INVARIANTS
    TypeOK
    RungEarned
    RunsAsDecided
    CommandContainerRemoved
    ProbesExclusive
    AnswersAgree
PROPERTIES
    DecidedOnce
    EveryUseEnds
