SPECIFICATION LinkSpec
CONSTANTS
  Conns = {c1, c2}
  MaxNonce = 2
  MaxSeq = 1
  MaxQueue = 1
  Plaintexts = {"samples", "notJson", "raises"}
SYMMETRY Symmetry
VIEW View
INVARIANTS
  TypeOK
  NoStaleOk
PROPERTIES
  AcceptedOnce
  ImplementsSession
