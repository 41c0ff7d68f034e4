SPECIFICATION Spec
CONSTANTS
  Conns = {c1, c2}
  NoConn = NoConn
  MaxNonce = 14
  MaxSeq = 1
  MaxQueue = 4
  Plaintexts = {"samples"}
  MaxFaults = 1
  MaxExpiries = 1
  MaxRestarts = 1
INVARIANTS
  LastSeqIsOfThisKey
