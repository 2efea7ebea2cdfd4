SPECIFICATION Spec
CONSTANTS
    Templates <- MCTemplates
    KnownProfiles <- MCKnownProfiles
    ToLower <- MCToLower
INVARIANT TypeOK
INVARIANT EveryListedFileStored
INVARIANT ProgressiveOutputComplete
INVARIANT FailedTranscodeStoresNothing
