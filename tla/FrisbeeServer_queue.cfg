\* Chunks of three blocks, the last one partial, so that requests merge into
\* the entry whose blocks are being sent; requests for the block after the end
\* of the file; one host that joins.
SPECIFICATION FairSpec
CONSTANTS
    MAXCHUNKSIZE = 3
    MAXBLOCKSIZE = 1
    ImageBytes = 4
    timeout = 1
    MAXCLIENTS = 1
    readsize = 2
    Host = {h1}
    V1Host = {}
    Ids = {1}
    Strays = 1
    MaxWorkQ = 3
    MaxActive = 1
INVARIANTS
    TypeOK
    QueueExact
    PastEOFWasAsked
PROPERTIES ImplementsService RequestsKept OwedIsSent
