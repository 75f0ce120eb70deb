SPECIFICATION FairSpec
CONSTANTS
  Null = Null
  Free = Free
  Orphan = Orphan
  Procs = {p1, p2}
  Envelopes <- TwoRivals
  MaxTime = 1
  MaxEvents = 2
  MaxFaults = 2
CHECK_DEADLOCK FALSE
INVARIANTS TypeOK ReceiptsBacked JournalVerifies
PROPERTIES FailsClosed OrphanedLockFreezes CallsReturn
