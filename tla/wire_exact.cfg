CONSTANTS
  TextLen = 3
  Packed = 2
  BUFFER_SIZE = 90
  Uninit = {0}
  Tails = {0, 2}
  Accepted = {}
  Cuts = {}
  Ahead = {}
SPECIFICATION Spec
INVARIANT ReportedExactly
