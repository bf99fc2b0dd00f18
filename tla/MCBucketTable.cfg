SPECIFICATION MCSpec
CONSTANTS
  NumSlots = 23
  BucketCounts <- TriedCounts
  MaxDraw = 110
  CapFactor = 1
  CapFloor = 10
  SlotOf <- SquareSlotOf
  Callers = {"c1", "c2", "c3"}
  Counts = {0, 2, 3}
  Invalid = {0}
  Unfillable = {3}
INVARIANTS
  TableIsTheContract
  SlotsHaveOneBucket
  PortsAgreeOnModuloSafety
  ReachesGoldenTable
  ModuloSafeWhereDocumented
  ReplicaKeysLieInTheirRange
  OneTablePerCount
PROPERTY
  CallsReturn
CHECK_DEADLOCK FALSE
