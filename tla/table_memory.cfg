CONSTANTS
  Keys <- Keys3
  Hash <- Hash3
  Vals = {v1}
  Null = null
  InitSizes = {1, 2}
  MaxSize = 4
  NumMod = 16
  Ops = {"delete"}
  FreshZero = FALSE
  MaxBuckets = 4
SPECIFICATION Spec
INVARIANT ReadsOwnMemory
