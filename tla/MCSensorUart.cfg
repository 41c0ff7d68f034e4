SPECIFICATION Spec
CONSTANTS
  Clients = {t1, t2}
  SecretSize = 5
INVARIANTS
  SealedIsTheSecret
CHECK_DEADLOCK FALSE
