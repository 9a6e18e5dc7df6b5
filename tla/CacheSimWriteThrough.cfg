\* What a store costs under write-through.
SPECIFICATION Spec
CONSTANTS
    Shape <- MCSmall
    LoadAddress <- MCLoads
    StoreAddress <- MCStores
    Word = 64
    Long = 4096
    ExtraLines = 2
PROPERTY StorePaysMemory
CHECK_DEADLOCK FALSE
