\* Small files, files about as long as an int can index, files longer than an
\* unsigned int can count, and any failure.
SPECIFICATION FairSpec
CONSTANTS
    Value <- MCValue
    File <- MCFile
    MaxLen = 26
    MaxThreshold = 2
    UnsignedMod = 12
    NoTemp = NoTemp
INVARIANTS
    TypeOK
    CountedPartSorted
    HalvesReady
    NoInterference
    FailureReported
PROPERTY
    Terminates
CHECK_DEADLOCK FALSE
