\* Two of three cosigners sign a transaction with up to two inputs.
CONSTANTS
  a = a
  b = b
  c = c
  r = r
  x = x
  Wallet = {a, b, c}
  Kind <- MCCosigners
  Cosigner = {a, b, c}
  M = 2
  RingPath = "45"
  Single = {}
  U32 = 2
  MaxPushes = 2
  MaxCreated = 1
  MaxTxs = 4
  MaxInputs = 2
SPECIFICATION Spec
INVARIANTS QuorumBehindSigned InLockstep AddressesAgree
SYMMETRY MCSymmetry
