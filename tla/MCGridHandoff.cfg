SPECIFICATION Spec
CONSTANTS
    c1 = c1
    c2 = c2
    grid = grid
    owner = owner
    guest = guest
    other = other
    t1 = t1
    h1 = h1
    Cells = {c1, c2}
    Neighbors <- OneWay
    Members = {grid, owner, guest, other}
    Root = grid
    Owner = owner
    Transfers = {t1}
    Retired = {}
    Holders = {h1}
    GenesisPlacement <- Genesis
    MaxGeneration = 3
    MaxRevision = 20
    JobWork = 2
    Rearm = 1
    Crews <- Crew
    MaxClaims = 5
    MaxTime = 2
    MaxQuanta = 1
CHECK_DEADLOCK FALSE
INVARIANTS
    CustodyHolds
    ProofsAgree
    TransfersCanGoOn
PROPERTIES
    ProductionUnmoved
