SPECIFICATION SpecHandoff
CONSTANTS
    c1 = c1
    c2 = c2
    p1 = p1
    t1 = t1
    t2 = t2
    h1 = h1
    Cells = {c1, c2}
    Aggregates = {p1}
    Transfers = {t1, t2}
    Packages = {t1, t2}
    Receipts <- ReceiptPairs
    Holders = {h1}
    Events <- EventNumbers
    LastEvent = 10
    MaxRevision = 40
    MaxGeneration = 6
    MaxFence = 6
    None = None
    IoFaults = {"lost", "unacknowledged"}
    ReopenAfterIoError = TRUE
    Origin = c1
    AbortPoints = {"unproved"}
    MaxFaults = 1
    MaxOperations = 1
    MaxGameplay = 6
INVARIANT
    EveryDocumentReopens
CHECK_DEADLOCK FALSE
