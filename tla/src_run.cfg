SPECIFICATION FairSpec
CONSTANTS
    j1 = j1
    j2 = j2
    NoKey = NoKey
    BadKey = BadKey
    NoFile = NoFile
    NoJob = NoJob
    Jobs <- MCJobs
    Urls <- MCUrls
    Accounts <- MCAccounts
    Timeouts <- MCTimeouts
    Size <- MCSize
    Unframed <- MCUnframed
    MaxSource = 2
    DiskRoom = 3
INVARIANT TypeOK
INVARIANT ConvertedSourceIsWhole
INVARIANT ConvertedSourceIsNamed
INVARIANT ZeroTimeoutFailsRemoteJobs
PROPERTY FallbackReachesURL
PROPERTY DownloadEnds
PROPERTY ImplementsStages
