SPECIFICATION FairSpec
CONSTANTS
    t1 = t1  t2 = t2  s1 = s1  s2 = s2
    Turns = {t1, t2}
    Sessions = {s1, s2}
    SessionOf <- TwoSessions
    MaxEvents = 1
    Capacity = 9
    Faults = {"handoff"}
    None = None
PROPERTY TransferredResumes
CHECK_DEADLOCK FALSE
