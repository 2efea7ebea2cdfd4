SPECIFICATION Spec
CONSTANTS
    Templates <- MCTemplates
    KnownProfiles <- MCKnownProfiles
    ToLower <- MCToLower
INVARIANT MasterPlaylistResolves
