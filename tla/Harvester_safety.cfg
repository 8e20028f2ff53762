\* Every fault, limits that bite, a merge and a rewritten history with skewed
\* dates, and a commit PostgreSQL rejects.
SPECIFICATION Spec
CONSTANTS
    c1 = c1
    c2 = c2
    f = f
    m = m
    r = r
    NoSha = NoSha
    Commits = {c1, c2, f, m, r}
    Ancestry <- Merged
    AuthorDate <- RebasedAndRewritten
    Memorable = {c1, c2, f}
    Malformed = {r}
    PollLimit = 2
    BackfillLimit = 3
    MaxCount = 2
    FaultKinds = {"crash", "embed", "database", "prune"}
    MaxFaults = 3
INVARIANTS
    TypeOK
    DerivedMatchesTruth
    MemoryMissingOnlyIfAbandoned
    GapsOnlyFromLimit
    RecountOnlyUnderSkew
PROPERTY
    PublishedStays
