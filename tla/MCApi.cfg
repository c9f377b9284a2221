CONSTANTS
    None = None
    Tokens <- MCTokens
    Origins <- Servers
    SourceRoots <- SrcRoots
    DestinationRoots <- DestRoots
    FileSystems <- Trees
    Installed <- Found
    Entries <- Offers
    KeyInputs <- Inputs
    Posts <- PostsOf
    Names <- MCNames
    Tests <- ConnectionTests
    FilePairs <- Pairs
    MaxEntries = 2
    MaxCrashes = 1
SPECIFICATION Spec
INVARIANTS KeysBound NoKeysLeft DistinctFiles WithinRoots Restartable RetryHarmless VerdictIsRight
