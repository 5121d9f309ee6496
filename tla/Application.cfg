CONSTANTS
  Key = {k1, k2}
  NoKey = NoKey
  Status = {1, 255}
  QueueBound = 2

SPECIFICATION Spec

INVARIANTS
  TypeOK
  NothingRunsOn

PROPERTIES
  SensedKeyIsNext
  KeyEndsWait
  ShutdownWaitsForProgram
