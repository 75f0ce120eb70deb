SPECIFICATION FairSpec
CONSTANTS
  alice = alice
  bob = bob
  k = k
  pay = pay
  wipe = wipe
  drop = drop
  Calls = {c1, c2}
  Actions = {pay, wipe, drop}
  Governed = {wipe}
  Barred = {drop}
  KeyRequired = {wipe}
  Keys = {k}
  Tenants = {alice, bob}
  Requests <- RivalRequests
  Commands = {"reserve", "commit", "release"}
  Files <- PaymentFile
  PolicyTtl = 1
  ProofTtl = 1
  MaxTime = 1
  MaxChallenges = 3
  MaxFaults = 1
  Null = Null
CHECK_DEADLOCK FALSE
INVARIANTS TypeOK SentIsApproved DispatchedIsReal OneExecutionPerKey FalseClaimsExplained AnsweredLossExplained
PROPERTIES CallsReturn
