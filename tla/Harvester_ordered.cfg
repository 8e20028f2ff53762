\* Later commits have later dates, limits exceed the backlog, the process may
\* crash: everything is harvested, once.
SPECIFICATION FairSpec
CONSTANTS
    c1 = c1
    c2 = c2
    f = f
    m = m
    r = r
    NoSha = NoSha
    Commits = {c1, c2, f, m}
    Ancestry <- Linear
    AuthorDate <- Ordered
    Memorable = {c1, c2, f}
    Malformed = {}
    PollLimit = 3
    BackfillLimit = 4
    MaxCount = 2
    FaultKinds = {"crash"}
    MaxFaults = 3
INVARIANT
    HarvestedOnce
PROPERTY
    EventuallyHarvested
