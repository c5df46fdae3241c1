\* Three requests and two sessions of one account: a reset, a stale writer and a login overlap.
SPECIFICATION Spec
CONSTANTS
    r1 = r1
    r2 = r2
    r3 = r3
    i1 = i1
    i2 = i2
    i3 = i3
    k1 = k1
    k2 = k2
    k3 = k3
    c1 = c1
    c2 = c2
    Zero = Zero
    None = None
    Requests <- ThreeRequests
    Ids <- TwoIds
    Keys <- TwoKeys
    Connections <- OneConnection
SYMMETRY Symmetry
CHECK_DEADLOCK FALSE
INVARIANTS
    OnlyOverlappingLogins
PROPERTIES
    StaleNeverOverwrites
