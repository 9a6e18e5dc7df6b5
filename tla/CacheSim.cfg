\* Every policy in caches of one to four slots; traces two lines longer
\* than a set, so that a full set evicts twice or is hit and evicts.
SPECIFICATION Spec
CONSTANTS
    Shape <- MCShape
    LoadAddress <- MCLoads
    StoreAddress <- MCStores
    Word = 64
    Long = 4096
    ExtraLines = 2
INVARIANTS TypeOK NoDuplicates LoadAgesOrdered CyclesAccounted
PROPERTY ImplementsReference
CHECK_DEADLOCK FALSE
