CONSTANTS
  MaxBlocks = 1
  MaxSegs = 1
  MaxCmds = 4
  MaxLines = 1
  SoftLimits = FALSE
  Inputs = {"start", "hold", "door", "jog_cancel", "reset", "coolant", "pin_start", "pin_hold", "pin_reset", "limit",
            "motion", "bad_motion", "jog", "unlock", "check", "sleep", "M8", "M0", "other"}
SPECIFICATION Spec
INVARIANT CoolantFollowsParser
CHECK_DEADLOCK FALSE
