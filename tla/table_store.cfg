CONSTANTS
  Keys <- Keys4
  Hash <- Hash4
  Vals = {v1, v2}
  Null = null
  InitSizes = {0, 1, 2, 3, 5}
  MaxSize = 4
  NumMod = 64
  Ops = {"list", "all"}
  FreshZero = TRUE
  MaxBuckets = 16
SPECIFICATION Spec
INVARIANTS TypeOK ChainsOK IndexOK LoadOK CountInv
PROPERTY KeepsStore
