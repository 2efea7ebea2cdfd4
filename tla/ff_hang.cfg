SPECIFICATION FairSpec
CONSTANTS
    NRuns = 1
    Medias <- MCExact
    Unit = 10
    Counts = {0, 1}
    MaxChunks = 4
    PipeCap = 1
    TokenCap = 2
    LineEnds = {TRUE, FALSE}
PROPERTY EncodingEnds
