SPECIFICATION Spec
CONSTANTS
    t1 = t1  t2 = t2  s1 = s1  s2 = s2
    Turns = {t1, t2}
    Sessions = {s1}
    SessionOf <- OneSession
    MaxEvents = 1
    Capacity = 1
    Faults = {"crash", "error", "append", "binding"}
    None = None
INVARIANT HistoryProven
PROPERTY NewWorkWakes
SYMMETRY Alike
CHECK_DEADLOCK FALSE
