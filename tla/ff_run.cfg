SPECIFICATION FairSpec
CONSTANTS
    NRuns = 2
    Medias <- MCMedias
    Unit = 10
    Counts = {0, 5}
    MaxChunks = 3
    PipeCap = 1
    TokenCap = 1
    LineEnds = {TRUE, FALSE}
INVARIANT TypeOK
INVARIANT CompletedMeansAllRan
PROPERTY CancelledRunEnds
PROPERTY EncodingEndsWhileLinesFit
PROPERTY ReadersEnd
