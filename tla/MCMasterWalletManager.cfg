\* Two wallets and two keys: the registry against the disk.
CONSTANTS
  Id = {w1, w2}
  k1 = k1
  k2 = k2
  Key = {k1, k2}
  NoKey = NoKey
  Chain = {"ELA", "ETHSC"}
  ElaChain = {"ELA"}
  BtcChain = {}
  EthChain = {"ETHSC"}
  Configured = {"ELA"}
  SignCount = {1, 3}
  MaxCosigners = 2
  MaxSigners = 4
  LegacyStore <- MCLegacyStore
  Keystore <- MCKeystore
SPECIFICATION Spec
INVARIANTS TypeOK KnownIffStored MemoryIsSaved
PROPERTIES RefusedCreateLeavesNoTrace OnlyDestroyForgets
SYMMETRY MCSymmetry
