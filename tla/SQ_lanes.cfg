SPECIFICATION FairSpec
CONSTANTS
    m1 = m1  m2 = m2  c1 = c1  c2 = c2
    Tasks = {m1, m2}
    Lanes = {c1, c2}
    LaneOf <- TwoLanes
    Places = 1
    MaxUploads = 2
    MaxTroubles = 1
    Faults = {"call", "disk", "reject", "restart", "signout"}
INVARIANTS TypeOK CancelledStaysUnsent FrozenRequest 
PROPERTIES IntentKept OneFate EveryTaskSettles
CHECK_DEADLOCK FALSE
