SPECIFICATION Spec
CONSTANTS
  Nothing = Nothing
  PolicyTtl = 1
  Conversations = {c1}
  Requests <- MCRequests
  Sites <- StudioSites
  AccessTtl = 2
  ApprovalTtl = 1
  MaxTime = 1
CHECK_DEADLOCK FALSE
INVARIANTS ChallengesGrantable
