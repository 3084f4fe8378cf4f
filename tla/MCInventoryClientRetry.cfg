SPECIFICATION ClientSpec
CONSTANTS
    alice = alice
    bob = bob
    w1 = w1
    p1 = p1
    b1 = b1
    low = low
    init = init
    f1 = f1
    f2 = f2
    other = other
    Users = {alice, bob}
    Workspaces = {w1}
    Products = {p1}
    RequestIds = {init, f1, f2}
    BarRequestIds = {b1}
    BarPayloads = {low}
    Settings = {low}
    MaxVersion = 2
    MaxQuantity = 2
    Me = alice
    MyBar = w1
    MyProduct = p1
    FormIds = {f1, f2}
    FormAmounts = {1}
    NoVersion = NoVersion
    NoRow = NoRow
    NoProduct = NoProduct
    NoSettings = NoSettings
CHECK_DEADLOCK FALSE
INVARIANTS
    LostAnswerNeverDoubles
