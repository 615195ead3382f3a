SPECIFICATION FairSpec
CONSTANTS
    s1 = s1  s2 = s2
    Sessions = {s1}
    MaxSeq <- Single
    MaxFlights = 1
    MaxPending = 2
    MaxBuffered = 1
    BatchItems = 2
    ReadyDelay = 1
    RetryDelay = 2
    Off = Off
    Early = 1
PROPERTY FailureRetried
CHECK_DEADLOCK FALSE
