CONSTANTS
  Data = {d1, d2}
  Close = Close
  MaxFrames = 2
SPECIFICATION Spec
PROPERTIES RelayTerminates
CHECK_DEADLOCK FALSE
