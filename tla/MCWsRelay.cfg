CONSTANTS
  Data = {d1, d2}
  Close = Close
  MaxFrames = 3
SYMMETRY MCDataSymmetry
SPECIFICATION Spec
INVARIANTS TypeOK RelayInOrder
PROPERTIES ImplementsPipe
CHECK_DEADLOCK FALSE
