CONSTANTS
  a = a
  b = b
  Nobody = Nobody
  Instances <- TwoInstances
  MaxEpoch = 3
  MaxTransfers = 1
  MaxExits = 1
  Faults = {"flush", "dispose", "setup", "late", "native", "wake"}
SPECIFICATION FairSpec
INVARIANTS TypeOK WriterOwnsRow WorkUndisturbed ReleasedIsQuiet
PROPERTIES OneWriter ExitedOwnerReplaced EverySendSettles
CHECK_DEADLOCK FALSE
