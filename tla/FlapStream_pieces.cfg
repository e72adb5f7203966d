SPECIFICATION Spec
CONSTANTS
  Frames <- Flaps
  MaxFrames = 3
  MaxLosses = 1
INVARIANTS
  FLAPsAreInOrder
  NoFLAPWaits
  BackInStep
\* The peer may stop writing.
CHECK_DEADLOCK FALSE
