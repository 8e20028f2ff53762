\* Two processes, callers who say a tenant, "" or nothing, rows enough to fill
\* an identity, empty it and fill it again while another is in use.
SPECIFICATION FairSpec
CONSTANTS
    Clients = {p, q}
    Ids = {i1, i2, i3}
    Bodies = {b}
    Tenants = {t, empty}
    EmptyTenant = empty
    None = None
    MaxCrashes = 1
INVARIANTS
    TypeOK
    OneActivePerIdentity
    RaisesOnlyIfRivalRetired
PROPERTIES
    AddedIsInForce
    ImplementsRegister
    CallsReturn
