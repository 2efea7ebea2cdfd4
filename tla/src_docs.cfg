SPECIFICATION FairSpec
CONSTANTS
    j1 = j1
    j2 = j2
    NoKey = NoKey
    BadKey = BadKey
    NoFile = NoFile
    NoJob = NoJob
    Jobs = {j1}
    Urls <- MCUrls
    Accounts <- MCAccounts
    Timeouts <- MCTimeouts
    Size <- MCSize
    Unframed <- MCUnframed
    MaxSource = 2
    DiskRoom = 3
PROPERTY DocumentedSourcesAreTried
