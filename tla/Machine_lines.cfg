CONSTANTS
  Bad = Bad
  InchMM = 2
  MaxTravel = 2
  Lines <- MCLines
  MaxLines = 3
SPECIFICATION Spec
INVARIANTS MachineInv OffsetsStored PositionTracks SoftNeedsHoming Durable
PROPERTIES RejectedChangesNothing
