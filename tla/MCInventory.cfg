SPECIFICATION Spec
CONSTANTS
    alice = alice
    bob = bob
    w1 = w1
    w2 = w2
    p1 = p1
    p2 = p2
    r1 = r1
    r2 = r2
    b1 = b1
    low = low
    high = high
    Users <- MCUsers
    Workspaces <- MCWorkspaces
    Products <- MCProducts
    RequestIds <- MCRequestIds
    BarRequestIds <- MCBarRequestIds
    Settings <- MCSettings
    BarPayloads <- MCBarPayloads
    MaxVersion = 2
    MaxQuantity = 1
    NoVersion = NoVersion
    NoRow = NoRow
    NoProduct = NoProduct
    NoSettings = NoSettings
SYMMETRY Symmetry
CHECK_DEADLOCK FALSE
INVARIANTS
    OneMovementPerIntention
    LedgerExplainsCounter
    LineHonoursIntention
PROPERTIES
    AccessVersionDatesMembership
