SPECIFICATION Spec
CONSTANTS
  HmacSize = 5
  Secret <- MCSecret
  Hmac <- MCHmac
  Fifo = 32
  MaxRx = 27
  MaxLags = 4
  MaxSkips = 1
  MaxStarts = 3
  MaxBoots = 2
  MaxRedials = 1
INVARIANTS
  TypeOK
  SecretServedOnce
PROPERTIES
  NothingMisread
  ReadsAgain
  Authenticates
