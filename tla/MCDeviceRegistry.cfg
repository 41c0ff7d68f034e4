SPECIFICATION Spec
CONSTANTS
  Devices = {d1, d2}
  Keys = {k1, k2}
  None = None
  Torn = Torn
  Absent = Absent
SYMMETRY Symmetry
INVARIANTS
  TypeOK
  AckedIsDurable
  RemovalTakesEffect
  FileLoads
PROPERTIES
  IdentityIsPinned
CHECK_DEADLOCK FALSE
