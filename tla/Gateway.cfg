SPECIFICATION FairSpec
CONSTANTS
  Nothing = Nothing
  PolicyTtl = 1
  Conversations = {c1, c2}
  Requests <- MCRequests
  Sites <- MCSites
  AccessTtl = 1
  ApprovalTtl = 1
  MaxTime = 2
CHECK_DEADLOCK FALSE
INVARIANTS DispatchCovered ServedOrExplained
PROPERTIES RequestsSettle
