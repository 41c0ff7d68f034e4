SPECIFICATION Spec
CONSTANTS
  Conns = {c1}
  MaxBuffer = 1
  MaxPerDevice = 1
  Windows = {0, 1}
  Inf = Inf
  NaN = NaN
  Values = {20}
  Timestamps = {0, 1, Inf}
  MaxBatch = 1
  MaxReading = 2
  MaxTime = 1
  Sockets = {s1, s2}
  MaxFrames = 1
  MaxEvents = 2
INVARIANTS
  OneLiveSocket
PROPERTIES
  ReachesScreen
