SPECIFICATION MCSpec
CONSTANTS
  Utxos <- MCUtxos
  Owned = {"a0", "deposit"}
  Address0 = "a0"
  Amounts <- MCAmounts
  Fees <- MCFees
  MaxInputs = 2
  Signers = {"K1", "K2"}
  Word = 8
  CrossChainFee = 1
  DepositMin = 4
  BTCWord = 128
  Kb = 4
  RoundTo = 2
  StandardFee = 4
  MinFee = 4
  MinOutput = 3
  InputSize = 4
  OutputSize = 2
  HeaderSize = 2
  MaxSize = 13
  Coins <- MCCoins
  BTCPayments <- MCPayments
  Rates <- MCRates
  MaxIndex = 2
  MaxCoins = 3
  MaxPayments = 2
INVARIANTS TypeOK SignedBytesAgree DecodableUnlessStaking DecodingNeverCrashes WireBalanced BTCFeeFits BTCHandedOutIsSignable
\* A transaction that is published is done with.
CHECK_DEADLOCK FALSE
