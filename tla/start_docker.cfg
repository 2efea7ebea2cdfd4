SPECIFICATION Spec
CONSTANTS
    Junk = Junk
    BadFile = BadFile
    Files <- MCFiles
    Envs <- MCEnvs
    ForeignPorts <- MCForeignPorts
INVARIANT AcceptedConfigurationStarts
