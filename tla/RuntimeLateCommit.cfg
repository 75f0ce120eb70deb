SPECIFICATION Spec
CONSTANTS
  alice = alice
  bob = bob
  k = k
  pay = pay
  wipe = wipe
  drop = drop
  Calls = {c1}
  Actions = {pay}
  Governed = {}
  Barred = {}
  KeyRequired = {}
  Keys = {}
  Tenants = {alice}
  Requests <- AnyRequest
  Commands = {}
  Files = {}
  PolicyTtl = 1
  ProofTtl = 1
  MaxTime = 1
  MaxChallenges = 0
  MaxFaults = 0
  Null = Null
CHECK_DEADLOCK FALSE
INVARIANTS AnsweredIsDispatched
