CONSTANTS
  Large = 99
  Jobs <- MixedJobs
SPECIFICATION Spec
INVARIANT PlanFeasible
