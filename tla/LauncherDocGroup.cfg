SPECIFICATION Spec
CONSTANTS
    Leader = leader
    Kids = {kid}
    Streams <- MCStreams
    MaxOutput = 1
    ReadChunk = 2
    PipeSize = 2
    MaxWritten = 3
    Timeout = 2
    Grace = 1
CHECK_DEADLOCK FALSE
INVARIANTS
    WholeGroupKilled
