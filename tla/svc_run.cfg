SPECIFICATION FairSpec
CONSTANTS
    Batches <- MCTwoBatches
    MaxDeliveries <- MCOnceTwice
    Capacity = 1
    MaxRunning = 1
    MaxCrashes = 1
INVARIANT TypeOK
INVARIANT AnsweredMeansDecided
INVARIANT ExitLeavesNoRunningJob
PROPERTY AbortOnlyInShutdown
PROPERTY SignalLeadsToExit
PROPERTY HandledRequestsEnd
