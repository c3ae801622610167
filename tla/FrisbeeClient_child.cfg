\* The receive thread dies when the server times out.
SPECIFICATION FairSpec
CONSTANTS
    MAXCHUNKSIZE = 2
    MAXBLOCKSIZE = 1
    ImageBytes = 2
    maxchunkbufs = 1
    maxreadahead = 2
    maxinprogress = 8
    idletimer = 1
    TIMEOUT_HZ = 1
    servertimo = 1
    keepalive = 0
    redodelay = 1
    randomize = FALSE
PROPERTY ChildDeathNoticed
