SPECIFICATION Spec
CONSTANTS
    Batches <- MCOneBatch
    MaxDeliveries <- MCTwice
    Capacity = 2
    MaxRunning = 1
    MaxCrashes = 0
INVARIANT OneJobPerEvent
