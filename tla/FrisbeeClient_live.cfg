\* A full chunk and a partial one share one buffer, requested in any order; the
\* server never times out, IGMP keep alives go out, and the threads are fair.
SPECIFICATION FairSpec
CONSTANTS
    MAXCHUNKSIZE = 2
    MAXBLOCKSIZE = 1
    ImageBytes = 3
    maxchunkbufs = 1
    maxreadahead = 2
    maxinprogress = 8
    idletimer = 1
    TIMEOUT_HZ = 1
    servertimo = 0
    keepalive = 1
    redodelay = 1
    randomize = TRUE
PROPERTIES KeepsAsking HandedOverIsWritten
