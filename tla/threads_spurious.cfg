CONSTANTS
  Lines <- PlainLines
  Pieces = {1}
  MaxStream = 1
  Spurious = {"g_cond"}
  Failures = {}
  OnceOutcomes = {"run"}
  Timely = {}
SPECIFICATION Spec
INVARIANT ShutdownOnlyAfterQuit
CHECK_DEADLOCK FALSE
