SPECIFICATION Spec
CONSTANTS
  Requests = {r1, r2, r3}
  Files <- MCFiles
  Contents = {"billing"}
  Modes = {"none"}
  OverrideSets = {"raised"}
  Never = Never
  Nobody = Nobody
  MaxFailures = 1
SYMMETRY Symmetry
INVARIANTS
  EditsSurvive
  GenerationsAgree
  PackageDescribed
CHECK_DEADLOCK FALSE
