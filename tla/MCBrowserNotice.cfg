SPECIFICATION Spec
CONSTANTS
    t1 = t1
    t2 = t2
    alice = alice
    bob = bob
    s1 = s1
    s2 = s2
    s3 = s3
    Tabs = {t1, t2}
    Users = {alice, bob}
    Sessions = {s1, s2}
    Owner <- MCOwner
    Remembered = {}
    MaxCalls <- MCMaxCalls
    MaxNotices = 1
    None = None
SYMMETRY TabSymmetry
INVARIANTS
    NoticesSpareNewerSessions
