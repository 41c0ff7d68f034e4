SPECIFICATION Spec
CONSTANTS
  HmacSize = 5
  Secret <- MCSecret
  Hmac <- MCHmac
  Fifo = 32
  MaxRx = 45
  MaxLags = 0
  MaxSkips = 0
  MaxStarts = 1
  MaxBoots = 1
  MaxRedials = 0
INVARIANTS
  NoBacklog
