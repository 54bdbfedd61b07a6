CONSTANTS
  SegSize = 3
  MaxLevel = 1
  Axes <- TwoAxes
  MaxPlan = 2
  HomingCycles <- ZThenX
  Travel = 3
  PullOff = 1
  Scenarios <- ProbeScenario
SPECIFICATION Spec
INVARIANT SynchronizeWaits
CHECK_DEADLOCK FALSE
