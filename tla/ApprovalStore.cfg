SPECIFICATION FairStoreSpec
CONSTANTS
  Actions = {refund}
  Tenants = {alice}
  ChallengeTtl = 1
  MaxTime = 1
  MaxChallenges = 2
  Requests = {r1, r2}
  Free = Free
  Orphan = Orphan
  NoOp = NoOp
  MaxCrashes = 1
CHECK_DEADLOCK FALSE
INVARIANTS ProofsSingleUse GrantedIsConsumed
PROPERTIES DecisionsStand ImplementsChallenges RequestsReturn
