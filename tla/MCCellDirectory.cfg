SPECIFICATION SpecDirectory
CONSTANTS
    c1 = c1
    c2 = c2
    a1 = a1
    t1 = t1
    t2 = t2
    k1 = k1
    r1 = r1
    h1 = h1
    Cells = {c1, c2}
    Aggregates = {a1}
    Transfers = {t1, t2}
    Packages = {k1}
    Receipts = {r1}
    Holders = {h1}
    Events = {1}
    MaxRevision = 14
    MaxGeneration = 3
    MaxFence = 2
    None = None
    IoFaults = {"unacknowledged"}
    ReopenAfterIoError = TRUE
CHECK_DEADLOCK FALSE
INVARIANTS
    TypeOK
    FenceHistoriesValid
    TransfersConsistent
    PinnedCellsAssigned
    CustodyChain
    RetriesRecognised
PROPERTIES
    DurableHistory
