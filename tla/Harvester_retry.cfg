\* One embedder failure, after which everything works.
SPECIFICATION FairSpec
CONSTANTS
    c1 = c1
    c2 = c2
    f = f
    m = m
    r = r
    NoSha = NoSha
    Commits = {c1, c2, f, m}
    Ancestry <- Linear
    AuthorDate <- Ordered
    Memorable = {c1, c2, f}
    Malformed = {}
    PollLimit = 4
    BackfillLimit = 4
    MaxCount = 2
    FaultKinds = {"embed"}
    MaxFaults = 1
PROPERTY
    EventuallyHarvested
