SPECIFICATION Spec
CONSTANTS
    a = a  b = b  c1 = c1  c2 = c2
    Hosts = {a, b}
    Commands = {c1, c2}
    NoHost = NoHost
    MaxTroubles = 4
SYMMETRY Alike
INVARIANTS TypeOK AcceptedOnce ReportsTrue
PROPERTIES OneVerdict
CHECK_DEADLOCK FALSE
