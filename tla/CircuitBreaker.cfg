SPECIFICATION FairSpec
CONSTANTS
  Callers = {c1, c2, c3}
  Threshold = 1
  Cooldown = 1
INVARIANTS TypeOK FailuresBounded ProbeFlagOwned
PROPERTY AdmitsUnlessAbandoned
