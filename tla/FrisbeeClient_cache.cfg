\* Four chunks, the last one partial, compete for two buffers; requests are not
\* delayed.
SPECIFICATION Spec
CONSTANTS
    MAXCHUNKSIZE = 2
    MAXBLOCKSIZE = 1
    ImageBytes = 7
    maxchunkbufs = 2
    maxreadahead = 2
    maxinprogress = 8
    idletimer = 1
    TIMEOUT_HZ = 1
    servertimo = 0
    keepalive = 0
    redodelay = 0
    randomize = FALSE
INVARIANTS
    EveryChunkAccounted
    CountsExact
    WriteIntact
    AssertionsHold
PROPERTY ProgressKept
