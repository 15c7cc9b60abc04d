CONSTANTS
  TextLen = 3
  Packed = 2
  BUFFER_SIZE = 90
  Uninit <- Garbage
  Tails = {0, 2}
  Accepted = {4}
  Cuts = {12}
  Ahead <- Overtaking
SPECIFICATION Spec
INVARIANTS SentWhole NumbersRead NoNumberInvented TextRead NamesRead WholeIsDefined LengthsDeclared
