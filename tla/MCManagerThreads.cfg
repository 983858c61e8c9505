\* Two threads that lock, two wallets, two keys.
CONSTANTS
  Thread = {t1, t2}
  Unlocked = {}
  NoThread = NoThread
  Id = {i1, i2}
  Key = {k1, k2}
  NoKey = NoKey
  MaxCalls = 2
\* The threads make their calls and stop.
CHECK_DEADLOCK FALSE
SPECIFICATION Spec
INVARIANTS HeldIsRegistered RegisteredIsStored OneWalletPerKey
PROPERTIES EveryCallReturns Linearizable
