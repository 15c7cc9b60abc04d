CONSTANTS
  Base = 3
  Widths = {2, 4, 8}
  Numbers <- EightBytes
SPECIFICATION Spec
INVARIANTS TypeOK RoundTrip
