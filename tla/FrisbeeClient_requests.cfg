\* Three chunks, the last one partial, compete for two buffers; requests are
\* delayed, and the server may time out.
SPECIFICATION Spec
CONSTANTS
    MAXCHUNKSIZE = 2
    MAXBLOCKSIZE = 1
    ImageBytes = 5
    maxchunkbufs = 2
    maxreadahead = 2
    maxinprogress = 8
    idletimer = 1
    TIMEOUT_HZ = 1
    servertimo = 2
    keepalive = 0
    redodelay = 1
    randomize = FALSE
INVARIANTS TypeOK RequestsUseful
