\* f was authored before c2 and rebased onto it; nothing ever fails.
SPECIFICATION Spec
CONSTANTS
    c1 = c1
    c2 = c2
    f = f
    m = m
    r = r
    NoSha = NoSha
    Commits = {c1, c2, f, m}
    Ancestry <- Linear
    AuthorDate <- Rebased
    Memorable = {c1, c2, f}
    Malformed = {}
    PollLimit = 4
    BackfillLimit = 4
    MaxCount = 2
    FaultKinds = {}
    MaxFaults = 0
INVARIANT
    HarvestedOnce
