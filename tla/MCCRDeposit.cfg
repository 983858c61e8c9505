\* A standard wallet that retrieves its CR deposit.
CONSTANTS
  a = a
  b = b
  c = c
  r = r
  x = x
  Wallet = {c, r}
  Kind <- MCMixed
  Cosigner = {a, c}
  M = 2
  RingPath = "45"
  Single = {}
  U32 = 2
  MaxPushes = 1
  MaxCreated = 1
  MaxTxs = 2
  MaxInputs = 1
SPECIFICATION Spec
INVARIANTS CreatedIsSignable
