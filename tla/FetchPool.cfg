SPECIFICATION FairSpec
CONSTANTS
    Fetches = {f1, f2}
    Urls <- MCUrls
    Hosts <- MCHosts
    AllowedHosts <- MCAllowed
    Literals <- MCLiterals
    LinkLocal <- MCLiterals
    Responses <- MCResponses
    Chunks = {1, 2}
    MaxBytes = 2
    MaxRedirects = 1
    PoolSize = 1
CHECK_DEADLOCK FALSE
INVARIANTS
    TypeOK
    EveryHopCleared
    ConnectionsReturned
    WholeBodyOrNone
PROPERTIES
    EveryFetchEnds
