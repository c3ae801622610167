\* Two hosts, one with an old client, that join, crash and leave; a traditional
\* image; the server is to exit when the last client leaves.
SPECIFICATION FairSpec
CONSTANTS
    MAXCHUNKSIZE = 1
    MAXBLOCKSIZE = 1
    ImageBytes = 1
    timeout <- WhenLastLeaves
    MAXCLIENTS = 2
    readsize = 1
    Host = {h1, h2}
    V1Host = {h1}
    Ids = {1, 2}
    Strays = 0
    MaxWorkQ = 2
    MaxActive = 3
INVARIANT TableExact
PROPERTIES JoinIsAnswered ExitsAfterLast
