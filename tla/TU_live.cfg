SPECIFICATION FairSpec
CONSTANTS
    t1 = t1  t2 = t2  s1 = s1  s2 = s2
    Turns = {t1, t2}
    Sessions = {s1}
    SessionOf <- OneSession
    MaxEvents = 3
    Capacity = 3
    Faults = {}
    None = None
PROPERTIES EverySealedUploads HistoryFinalizes
CHECK_DEADLOCK FALSE
