SPECIFICATION Spec
CONSTANTS
    SECSIZE = 2
    OUTSIZE = 4
    MaxWriteBufMem = 8
    DiskSectors = 7
    Images <- AllImages
    Options <- AllOptions
INVARIANTS
    DiskExact
    BuffersExact
    AssertionsHold
PROPERTY
    WritesFinish
CHECK_DEADLOCK FALSE
