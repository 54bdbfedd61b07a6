CONSTANTS
  MaxBlocks = 1
  MaxSegs = 1
  MaxCmds = 1
  MaxLines = 2
  SoftLimits = FALSE
  Inputs = {"start", "hold", "door", "jog_cancel", "reset", "coolant", "pin_start", "pin_hold", "pin_reset", "limit",
            "motion", "bad_motion", "jog", "unlock", "check", "sleep", "M8", "M0", "other"}
SPECIFICATION LiveSpec
PROPERTY AbruptStopAlarms
CHECK_DEADLOCK FALSE
