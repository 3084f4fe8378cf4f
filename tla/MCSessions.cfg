SPECIFICATION FairSpec
CONSTANTS
    u1 = u1
    u2 = u2
    s1 = s1
    s2 = s2
    s3 = s3
    h1 = h1
    h2 = h2
    h3 = h3
    Users = {u1, u2}
    SessionIds = {s1, s2}
    Handlers = {h1, h2}
    Idle <- MCIdle
    Absolute <- MCAbsolute
    MaxTime = 3
    NoRow = NoRow
    Pruned = Pruned
    NoSession = NoSession
    NoTx = NoTx
    Free = Free
CHECK_DEADLOCK FALSE
INVARIANTS
    TimelineHolds
    GlobalLogoutReachesAll
    RegistersOnce
PROPERTIES
    ImplementsService
    RequestsEnd
