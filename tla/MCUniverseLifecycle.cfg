SPECIFICATION FairSpec
CONSTANTS
    c1 = c1
    h1 = h1
    h2 = h2
    grid = grid
    Cells = {c1}
    Neighbors <- NoNeighbors
    Members = {grid}
    Root = grid
    Transfers = {}
    Retired = {}
    Holders = {h1, h2}
    GenesisPlacement <- Placed
    MaxGeneration = 3
    MaxRevision = 20
    Quantum = 1
    Lease = 2
    Margin = 1
    Genesis <- Frozen
    Work <- Queued
    MaxTime = 3
    MaxRecords <- Records
    MaxFaults = 1
CHECK_DEADLOCK FALSE
INVARIANTS
    FilesReopen
    ScheduleKept
PROPERTIES
    WritesOrdered
    EverythingSettles
