SPECIFICATION Spec
CONSTANTS
  Keep = Keep
  Singular <- MCSingular
  Unsafe <- MCUnsafe
  Documents <- MCDocuments
  OverrideSets <- MCOverrideSets
  Modes = {"none", "bearer", "basic"}
  Statuses = {200, 201, 202, 404, 500}
  MaxEdits = 2
INVARIANTS
  BuiltIssuesExplained
  HighImpactIsGated
  SameRevisionSameContract
  AdmittedCallsReachProvider
  CredentialsStayHidden
  AnswersReadRight
CHECK_DEADLOCK FALSE
