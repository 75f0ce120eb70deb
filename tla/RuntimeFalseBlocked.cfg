SPECIFICATION Spec
CONSTANTS
  alice = alice
  bob = bob
  k = k
  pay = pay
  wipe = wipe
  drop = drop
  Calls = {c1, c2}
  Actions = {pay}
  Governed = {}
  Barred = {}
  KeyRequired = {pay}
  Keys = {k}
  Tenants = {alice}
  Requests <- AnyRequest
  Commands = {}
  Files = {}
  PolicyTtl = 2
  ProofTtl = 2
  MaxTime = 1
  MaxChallenges = 0
  MaxFaults = 0
  Null = Null
CHECK_DEADLOCK FALSE
INVARIANTS NetworkClaimHonest
