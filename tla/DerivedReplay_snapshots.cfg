\* The counterexample is a rebuild that nobody disturbs.
SPECIFICATION Spec
CONSTANTS
    a = a
    b = b
    c = c
    bulk = bulk
    x = x
    y = y
    z = z
    g = g
    Commits = {a, b, c}
    Files = {x, y, z, g}
    Touches <- Changes
    Date <- Dates
    Generated = {g}
    MaxFiles = 3
    MinSupport = 2
INVARIANT
    SnapshotsExact
