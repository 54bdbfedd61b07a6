CONSTANTS
  SegSize = 3
  MaxLevel = 1
  Axes <- TwoAxes
  MaxPlan = 2
  HomingCycles <- ZThenX
  Travel = 3
  PullOff = 1
  Scenarios <- AllScenarios
SPECIFICATION LiveSpec
INVARIANTS
  MotionInv
  MotorFollows
  ArrivesAtTarget
  LoopIsStill
  DryTimerHasBlock
  LimitsRearmed
PROPERTIES
  Refines
  HomingEnds
CHECK_DEADLOCK FALSE
