SPECIFICATION Spec
CONSTANTS
    j1 = j1
    j2 = j2
    j3 = j3
    w1 = w1
    w2 = w2
    f1 = f1
    f2 = f2
    NoJob = NoJob
    Jobs <- TwoJobs
    Workers <- TwoWorkers
    Files <- TwoFiles
    Templated <- TwoJobs
    LocalSource <- JustFirst
    OutputStorage = "local"
    HasAzureClient = FALSE
INVARIANT EveryJobInOnePlace
INVARIANT CompletedMeansStored
INVARIANT NeededFilesPresent
INVARIANT StoppedMeansQuiet
INVARIANT PoolInv
PROPERTY SettledIsFinal
PROPERTY ImplementsLedger
