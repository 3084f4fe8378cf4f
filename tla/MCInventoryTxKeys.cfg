SPECIFICATION FairTxSpec
CONSTANTS
    alice = alice
    bob = bob
    w1 = w1
    w2 = w2
    p1 = p1
    p2 = p2
    r1 = r1
    r2 = r2
    r3 = r3
    b1 = b1
    b2 = b2
    h1 = h1
    h2 = h2
    low = low
    high = high
    Users = {alice}
    Handlers = {h1, h2}
    Workspaces = {w1, w2}
    Products = {p1, p2}
    RequestIds = {r1}
    BarRequestIds = {b1, b2}
    Settings = {low, high}
    BarPayloads = {low}
    Amounts = {1}
    MaxIntents = 2
    MaxVersion = 1
    MaxQuantity = 1
    NoVersion = NoVersion
    NoRow = NoRow
    NoProduct = NoProduct
    NoSettings = NoSettings
    Free = Free
PROPERTIES
    ImplementsInventory
    TransactionsEnd
