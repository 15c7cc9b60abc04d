CONSTANTS
  Keys <- Keys3
  Hash <- Hash3
  Vals = {v1}
  Null = null
  InitSizes = {1, 2}
  MaxSize = 4
  NumMod = 16
  Ops = {"delete", "list", "all"}
  FreshZero = FALSE
  MaxBuckets = 4
SPECIFICATION Spec
INVARIANTS ChainsOK IndexOK NeverUndercounts LinkInv
PROPERTY LostOnlyByDelete
