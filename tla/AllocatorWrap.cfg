CONSTANTS
  Address = 10
  Lim = 91
  Lengths <- WrappingLengths
  Pointers <- MCPointers
  W = 256

SPECIFICATION Spec

PROPERTY SuccessMeansLength
