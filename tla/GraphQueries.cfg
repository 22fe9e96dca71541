SPECIFICATION FairSpec
CONSTANTS
    s1 = s1
    s2 = s2
    s3 = s3
    n1 = n1
    n2 = n2
    c1 = c1
    c2 = c2
    Symbols = {s1, s2, s3}
    NoSymbol = NoSymbol
    RelationIds = {1, 2, 3, 4}
    InitialGraphs <- MCGraphs
    Published <- MCPublished
    InDomain = {s1, s2, s3}
    MaxEdits = 1
    Named <- MCNamed
    WalkDepths = {1, 3, 6}
    NodeLimits = {1, 2, 4}
    DefaultLimit = 2
    Chunks = {c1, c2}
    NoChunk = NoChunk
    ChunkOf <- MCChunkOf
    EvidenceOf <- MCEvidenceOf
    Mentions = {1}
    Retrieved <- MCRetrieved
    MaxDepth = 2
    MaxSeeds = 2
    MaxNeighbors = 3
    MaxCandidates = 2
INVARIANTS
    WalkWasSeen
    WalkIsComplete
    PathsWereFollowed
    BestSeedIsComplete
    EvidenceIsCitable
PROPERTIES
    CommandsEnd
CHECK_DEADLOCK FALSE
