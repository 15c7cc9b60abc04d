CONSTANTS
  Lines <- PlainLines
  Pieces = {1}
  MaxStream = 1
  Spurious = {}
  Failures = {}
  OnceOutcomes = {"run"}
  Timely = {"sleep"}
SPECIFICATION FairSpec
PROPERTY QuitEnds
CHECK_DEADLOCK FALSE
