CONSTANTS
  Lines <- AllLines
  Pieces = {1}
  MaxStream = 1
  Spurious = {}
  Failures = {"bind", "connect", "accept", "send"}
  OnceOutcomes = {"run", "skip", "hang"}
  Timely = {}
  TextLen = 3
  Packed = 2
  BUFFER_SIZE = 90
  Tails = {0, 2}
SPECIFICATION SessionSpec
INVARIANTS TypeOK OneTurn IdleWhenDestroyed OrderInv CounterInv BytesWithThreads
PROPERTIES KeepsOrder KeepsDialogue
CHECK_DEADLOCK FALSE
