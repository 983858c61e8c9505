\* Two threads that create with a single private key, two wallets, two keys.
CONSTANTS
  Thread = {t1, t2}
  Unlocked = {t1, t2}
  NoThread = NoThread
  Id = {i1, i2}
  Key = {k1, k2}
  NoKey = NoKey
  MaxCalls = 2
\* The threads make their calls and stop.
CHECK_DEADLOCK FALSE
SPECIFICATION Safety
INVARIANTS HeldIsRegistered
