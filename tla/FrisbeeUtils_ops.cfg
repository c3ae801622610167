\* Block maps of three bytes of two bits; images of up to 150 bytes.
SPECIFICATION UtilsSpec
CONSTANTS
    NBytes = 3
    CHAR_BIT = 2
    MAXBLOCKSIZE = 3
    MaxBytes = 150
INVARIANT SizesPartitionImage
PROPERTY ImplementsSets
CHECK_DEADLOCK FALSE
