\* What exit code 0 says of a file with too many elements to be counted.
SPECIFICATION Spec
CONSTANTS
    Value <- MCValue
    File <- MCFile
    MaxLen = 26
    MaxThreshold = 2
    UnsignedMod = 12
    NoTemp = NoTemp
INVARIANT SortedOnSuccess
CHECK_DEADLOCK FALSE
