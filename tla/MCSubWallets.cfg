\* One wallet, every kind of chain: the coin list.
CONSTANTS
  Id = {w1}
  k1 = k1
  k2 = k2
  Key = {k1, k2}
  NoKey = NoKey
  Chain = {"ELA", "IDChain", "BTC", "ETHSC", "TokenChain"}
  ElaChain = {"ELA", "IDChain"}
  BtcChain = {"BTC"}
  EthChain = {"ETHSC"}
  Configured = {"ELA", "BTC", "ETHSC", "TokenChain"}
  SignCount = {0, 1, 2}
  MaxCosigners = 2
  MaxSigners = 6
  LegacyStore <- MCOldestStore
  Keystore <- MCKeystore
SPECIFICATION Spec
INVARIANTS SubWalletsListed Reloadable
PROPERTIES DestroyedSubWalletStaysAway
