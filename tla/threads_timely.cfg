CONSTANTS
  Lines <- PlainLines
  Pieces = {1}
  MaxStream = 1
  Spurious = {}
  Failures = {}
  OnceOutcomes = {"run", "skip"}
  Timely = {"sleep", "typing"}
SPECIFICATION FairSpec
INVARIANTS ArrivalInv HeldInv
PROPERTIES SignalsArrive QuitEnds KeepsPromise
