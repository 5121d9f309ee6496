CONSTANTS
  Address = 10
  Lim = 100
  Lengths <- MCLengths
  Pointers <- MCPointers
  W = 256

SPECIFICATION Spec

INVARIANTS
  TypeOK
  ListInOrder
  WalksStayLinked

PROPERTIES
  CallsReturn
  ImplementsHeap
