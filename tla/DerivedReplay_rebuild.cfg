\* Every way to cut three commits into batches and transactions, and any
\* number of rebuilds, which may crash or have the daemon beside them.
SPECIFICATION Spec
CONSTANTS
    a = a
    b = b
    c = c
    bulk = bulk
    x = x
    y = y
    z = z
    g = g
    Commits = {a, b, bulk}
    Files = {x, y, z, g}
    Touches <- Changes
    Date <- Dates
    Generated = {g}
    MaxFiles = 3
    MinSupport = 1
INVARIANTS
    TypeOK
    AggregatesExact
    NeverOvercounted
