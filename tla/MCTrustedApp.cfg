SPECIFICATION Spec
CONSTANTS
  Sessions = {s1, s2}
  DeviceIds = {d1}
  IdKeys = {i1, i2}
  EphKeys = {e1, e2}
  Challenges = {c1, c2}
  Servers = {srv1, srv2}
  Secrets = {x1, x2}
  MaxSeq = 2
  None = None
SYMMETRY Symmetry
INVARIANTS
  TypeOK
  ExportedIdentityIsSealed
  KeypairSupersedesKey
  KeyAgreedWithSigner
  PinnedKeySigned
PROPERTIES
  NoSequenceReuse
  FirstWriteWins
