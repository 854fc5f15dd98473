SPECIFICATION Spec
CONSTANTS
    EntryQty = 1
    MaxQty = 1
    MaxBucket = 1
    MaxOrders = 2
    Faults <- AllFaults
INVARIANT IntentBeforeSubmit
 
