CONSTANTS
  Lines <- AllLines
  Pieces = {1, 2}
  MaxStream = 2
  Spurious = {"s_to_c_cond"}
  Failures = {"bind", "connect", "accept", "send"}
  OnceOutcomes = {"run", "skip", "hang"}
  Timely = {}
SPECIFICATION Spec
INVARIANTS ShutdownOnlyAfterQuit
PROPERTIES KeyDeletedLast
CHECK_DEADLOCK FALSE
