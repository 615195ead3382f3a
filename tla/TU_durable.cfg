SPECIFICATION Spec
CONSTANTS
    t1 = t1  t2 = t2  s1 = s1  s2 = s2
    Turns = {t1}
    Sessions = {s1}
    SessionOf <- OneSession
    MaxEvents = 2
    Capacity = 2
    Faults = {"restart", "crash", "error", "expiry", "append", "handoff"}
    None = None
INVARIANTS TypeOK ReceiptsTrue PendingExact
PROPERTY PayloadSafe
CHECK_DEADLOCK FALSE
