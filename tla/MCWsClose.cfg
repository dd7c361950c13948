CONSTANTS
  Data = {d1, d2}
  Close = Close
  MaxFrames = 2
SYMMETRY MCDataSymmetry
SPECIFICATION Spec
INVARIANT CloseRelayed
CHECK_DEADLOCK FALSE
