CONSTANTS
  MaxBlocks = 2
  MaxSegs = 1
  MaxCmds = 5
  MaxLines = 3
  SoftLimits = FALSE
  Inputs = {"start", "hold", "door", "motion", "M8"}
SPECIFICATION LiveSpec
PROPERTY HoldNeedsUser
CHECK_DEADLOCK FALSE
