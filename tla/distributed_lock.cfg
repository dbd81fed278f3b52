\* Two callers of one process and one of another; the lock lives three units and
\* is renewed every two, at most twice.
SPECIFICATION FairSpec
CONSTANTS
    Calls = {c1, c2, c3}
    Processes = {p1, p2}
    Home <- VHome
    AutoRenew = {c1, c2}
    TTL = 3
    Interval = 2
    MaxRenewals = 2
    RenewTTLs = {3}
    MaxManual = 1
    MaxLate = 2
    Free = Free
    c1 = c1
    c2 = c2
    c3 = c3
    p1 = p1
    p2 = p2
INVARIANTS HoldsWhileRenewed
PROPERTIES ImplementsLease EventuallyLost
