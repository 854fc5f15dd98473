SPECIFICATION Spec
CONSTANTS
    EntryQty = 2
    MaxQty = 2
    MaxBucket = 1
    MaxOrders = 2
    Faults <- NoFaults
INVARIANTS TypeOK 
PROPERTY KeepsPromise
