SPECIFICATION FairSpec
CONSTANTS
    Junk = Junk
    BadFile = BadFile
    Files <- MCFiles
    Envs <- MCEnvs
    ForeignPorts <- MCForeignPorts
INVARIANT TypeOK
INVARIANT LoadedByPrecedence
INVARIANT PoolAssumptionHolds
INVARIANT ExitLeavesNothingServing
PROPERTY ServersComeUp
PROPERTY SignalEndsProcess
