SPECIFICATION CollectionSpec
CONSTANTS
  Conns = {c1, c2}
  MaxBuffer = 2
  MaxPerDevice = 3
  Windows = {0, 1}
  Inf = Inf
  NaN = NaN
  Values = {20, 29}
  Timestamps = {0, 1, Inf, NaN}
  MaxBatch = 2
  MaxReading = 4
  MaxTime = 1
SYMMETRY Symmetry
VIEW View
INVARIANTS
  CollectionTypeOK
  CountedOnce
  NewestSurvives
  WeightsRankByRecency
  FavoursRecent
