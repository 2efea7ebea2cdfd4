SPECIFICATION FairSpec
CONSTANTS
    j1 = j1
    j2 = j2
    j3 = j3
    w1 = w1
    w2 = w2
    f1 = f1
    f2 = f2
    NoJob = NoJob
    Jobs <- ThreeJobs
    Workers <- OneWorker
    Files <- OneFile
    Templated <- AllButThird
    LocalSource <- JustFirst
    OutputStorage = "azure-blob"
    HasAzureClient = TRUE
INVARIANT TypeOK
PROPERTY LateJobsNeverComplete
PROPERTY QueuedJobsSettle
PROPERTY ShutdownCompletes
