\* A cosigner whose account was made from an extended private key.
CONSTANTS
  a = a
  b = b
  c = c
  r = r
  x = x
  Wallet = {a, x}
  Kind <- MCXprv
  Cosigner = {a, x}
  M = 2
  RingPath = "45"
  Single = {}
  U32 = 2
  MaxPushes = 3
  MaxCreated = 1
  MaxTxs = 2
  MaxInputs = 1
SPECIFICATION Spec
INVARIANTS AddressesAgree
