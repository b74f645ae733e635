SPECIFICATION Spec
CONSTANTS
  Procs = {p, q}
  Second = 2
  Interval = 5
  Horizon = 12
  Resets = 1
  Missing = Missing
  Corrupt = Corrupt
PROPERTIES StampStaysWhole NotLockedOut ThrottledToASecond
CHECK_DEADLOCK FALSE
SYMMETRY ProcSymmetry
