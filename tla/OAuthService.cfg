SPECIFICATION Spec
CONSTANTS
  Requests = {r1, r2}
  Free = Free
  Orphan = Orphan
  Clients = {chat}
  Static = {}
  Bindings = {b1}
  Users = {alice}
  read = read
  write = write
  alice = alice
  Supported = {read, write}
  Allowed <- AliceMay
  Requestable <- ReadOrBoth
  Null = Null
  CodeTtl = 1
  RefreshTtl = 1
  AccessTtl = 1
  Grace = 1
  MaxTime = 3
  MaxSecrets = 3
  MaxRevocations = 1
  MaxCrashes = 1
SYMMETRY Symmetry
CHECK_DEADLOCK FALSE
INVARIANTS TradedOnce OneLivePerFamily ScopesNarrow AcknowledgedIsStored
PROPERTIES RevocationStands
