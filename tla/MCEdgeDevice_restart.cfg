SPECIFICATION Spec
CONSTANTS
  Conns = {c1, c2}
  NoConn = NoConn
  MaxNonce = 4
  MaxSeq = 1
  MaxQueue = 4
  Plaintexts = {"samples"}
  MaxFaults = 0
  MaxExpiries = 0
  MaxRestarts = 1
INVARIANTS
  KeepsRunning
