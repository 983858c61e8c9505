\* A standard wallet in the ring, a cosigner with an old store, and a watch-only one.
CONSTANTS
  a = a
  b = b
  c = c
  r = r
  x = x
  Wallet = {a, c, r}
  Kind <- MCOld
  Cosigner = {a, c}
  M = 2
  RingPath = "44"
  Single = {a, r}
  U32 = 3
  MaxPushes = 2
  MaxCreated = 1
  MaxTxs = 2
  MaxInputs = 1
SPECIFICATION Spec
INVARIANTS TypeOK CachedIsSignable AddressesAsked
