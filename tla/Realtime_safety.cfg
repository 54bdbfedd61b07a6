CONSTANTS
  MaxBlocks = 2
  MaxSegs = 1
  MaxCmds = 3
  MaxLines = 3
  SoftLimits = TRUE
  Inputs = {"start", "hold", "door", "jog_cancel", "reset", "coolant", "pin_start", "pin_hold", "pin_reset", "limit",
            "motion", "bad_motion", "jog", "unlock", "check", "sleep", "M8", "M0", "other"}
SPECIFICATION Spec
INVARIANTS TypeOK HeldIsStill NeverStranded ParkedIsOff IdleIsStill RealtimeInv
PROPERTIES ResumeNeedsUser AlarmLocks
CHECK_DEADLOCK FALSE
