CONSTANTS
  Large = 99
  Jobs <- AllJobs
SPECIFICATION Spec
INVARIANTS
  PlanInv
  PlanFeasible
  PlanOptimal
  ExitIsPlanned
  PlannedInPlan
  StopsInPlan
PROPERTY NoSpeedJump
