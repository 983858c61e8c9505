---------------------------- MODULE BTCSubWallet ----------------------------
(***************************************************************************)
(* The Bitcoin sub wallet: addresses, transactions and their signatures.   *)
(* Amounts come from the host as decimal strings and become unsigned words *)
(* (strtoll into uint64_t), sums and fees are computed modulo 2^64.  Keys  *)
(* are looked for among the addresses that were derived since the wallet   *)
(* was opened, nowhere else.                                               *)
(*                                                                         *)
(* An address is the pair of a chain and an index; that of somebody else   *)
(* is on the chain "other".  Sizes and fees are those of breadwallet-core. *)
(***************************************************************************)
EXTENDS Sums, SequencesExt

CONSTANTS
  BTCWord,        \* 2^64
  Kb, RoundTo,    \* 1000 bytes, 100 satoshi
  StandardFee,    \* TX_FEE_PER_KB
  MinFee,         \* MIN_FEE_PER_KB
  MinOutput,      \* TX_MIN_OUTPUT_AMOUNT
  InputSize,      \* TX_INPUT_SIZE
  OutputSize,     \* TX_OUTPUT_SIZE
  HeaderSize,     \* the rest of a transaction
  MaxSize,        \* TX_MAX_SIZE
  Coins,          \* the inputs the host may name: [address, amount]
  BTCPayments,    \* the amounts it may want to pay
  Rates,          \* the fees per kilobyte the host may pass
  MaxIndex,       \* how many addresses of a chain it asks for
  MaxCoins,       \* how many inputs it passes
  MaxPayments     \* how many outputs it passes

ASSUME MaxIndexAssumption == MaxIndex \in Nat
ASSUME WordsAssumption == BTCWord \in Nat \ {0} /\ Kb \in Nat \ {0} /\ RoundTo \in Nat \ {0}
ASSUME FeesAssumption == StandardFee \in Nat /\ MinFee \in Nat \ {0} /\ MinOutput \in Nat
ASSUME SizesAssumption == InputSize \in Nat /\ OutputSize \in Nat /\ HeaderSize \in Nat
ASSUME CoinsAssumption ==
  /\ \A c \in Coins : c.amount \in Int
  /\ BTCPayments \subseteq Int /\ Rates \subseteq Int /\ MaxCoins \in Nat /\ MaxPayments \in Nat

VARIABLES
  single,         \* SingleAddress of the account
  multiSign,      \* whether its GetSignType is MultiSign
  cached,         \* _chainAddressCached, by chain
  given,          \* ghost: the addresses handed out since the wallet was opened
  btcTx,          \* the transaction the host has
  btcOutcome      \* of the last call

btcVars == <<single, multiSign, cached, given, btcTx, btcOutcome>>

NoBtcTx == <<>>
BTCChains == {"internal", "external"}

\* The address that a child key has.
Derive(chain, index) == <<chain, index>>

\* A signed value that is put into an unsigned word.
ToWord(x) == x % BTCWord

\* strtoll, which stops at the ends of the signed range, put into an unsigned word.
Half == BTCWord \div 2
Parsed(x) == ToWord(IF x >= Half THEN Half - 1 ELSE IF x < -Half THEN -Half ELSE x)

Larger(x, y) == IF x > y THEN x ELSE y

\* TxFee, before the words wrap.
ExactFee(rate, size) ==
  Larger((((size * rate) \div Kb + RoundTo - 1) \div RoundTo) * RoundTo, (size * StandardFee) \div Kb)

\* The fee by size, rounded up to RoundTo, but at least the standard fee.
TxFee(rate, size) ==
  Larger(ToWord(((ToWord(ToWord(size * rate) \div Kb + RoundTo - 1)) \div RoundTo) * RoundTo),
         (size * StandardFee) \div Kb)

MinOutputAmountWithFeePerKb(rate) ==
  Larger(ToWord(MinOutput * rate + MinFee - 1) \div MinFee, MinOutput)

\* BRTransactionVSize, of a transaction that is not signed.
VSize(inputs, outputs) == HeaderSize + inputs * InputSize + outputs * OutputSize

\* The sum of unsigned words, which wraps whenever a word is added.
WordSum(words) ==
  LET part[n \in 0..Len(words)] == IF n = 0 THEN 0 ELSE ToWord(part[n - 1] + words[n])
  IN  part[Len(words)]

BTCInit ==
  /\ single \in BOOLEAN /\ multiSign \in BOOLEAN
  /\ cached = [c \in BTCChains |-> <<>>] /\ given = {}
  /\ btcTx = NoBtcTx /\ btcOutcome = "none"

\* The addresses that are missing are derived and kept.  For a multi-sign account
\* an error is logged, and there is no address.
GetAddressInternal(index, count, internal) ==
  LET chain == IF internal /\ ~single THEN "internal" ELSE "external"
      from  == IF single THEN 0 ELSE index
      upto  == IF single THEN 1 ELSE index + count
      all   == [i \in 1..Larger(upto, Len(cached[chain])) |->
                  IF i <= Len(cached[chain]) THEN cached[chain][i] ELSE Derive(chain, i - 1)]
  IN  \/ multiSign /\ UNCHANGED <<cached, given>>
      \/ /\ ~multiSign
         /\ cached' = [cached EXCEPT ![chain] = all]
         /\ given' = given \cup {all[i] : i \in (from + 1)..upto}

\* GetAddresses and GetLegacyAddresses.  A count of zero is refused as an overflow.
BTCGetAddresses(index, count, internal) ==
  /\ \/ count = 0 /\ btcOutcome' = "refused" /\ UNCHANGED <<cached, given>>
     \/ count > 0 /\ btcOutcome' = "addresses" /\ GetAddressInternal(index, count, internal)
  /\ UNCHANGED <<single, multiSign, btcTx>>

\* Mutant: the output for the change is not in the size that is paid for.
FeeSizeNoChange(inputs, outputs) == VSize(inputs, outputs)

\* The size that the fee is for: there will be an output for the change.
FeeSize(inputs, outputs) == VSize(inputs, outputs) + OutputSize

\* The host names inputs, with the amounts it says they have, and payments.  The
\* change is added unless it is dust, which is left to the fee.
BTCCreateTransaction(inputs, payments, rate) ==
  LET amounts == [i \in DOMAIN inputs |-> Parsed(inputs[i].amount)]
      paid    == [i \in DOMAIN payments |-> Parsed(payments[i])]
      fee     == TxFee(Parsed(rate), FeeSize(Len(inputs), Len(paid)))
      in      == WordSum(amounts)
      out     == ToWord(WordSum(paid) + fee)
      rest    == ToWord(in - out)
      change  == rest > MinOutputAmountWithFeePerKb(Parsed(rate))
  IN  /\ btcTx = NoBtcTx
      /\ \/ /\ VSize(Len(inputs), 0) + OutputSize > MaxSize \/ payments = <<>> \/ in < out
            /\ btcOutcome' = "refused" /\ UNCHANGED btcTx
         \/ /\ VSize(Len(inputs), 0) + OutputSize <= MaxSize /\ payments # <<>> /\ in >= out
            /\ btcOutcome' = "created"
            /\ btcTx' = [inputs |-> inputs, payments |-> payments, rate |-> rate,
                         outputs |-> IF change THEN Append(paid, rest) ELSE paid,
                         signed |-> {}]
      /\ UNCHANGED <<single, multiSign, cached, given>>

\* Mutant: the internal chain is forgotten.
FindKeysExternal(address) ==
  {Derive(c, i - 1) : c \in {"external"}, i \in {n \in DOMAIN cached["external"] : cached["external"][n] = address}}

\* The key of the index at which the address is in the cache.
FindKeys(address) ==
  LET places == {p \in BTCChains \X (1..MaxIndex) :
                   p[2] <= Len(cached[p[1]]) /\ cached[p[1]][p[2]] = address}
  IN  {Derive(p[1], p[2] - 1) : p \in places}

\* An input is signed with the key whose hash is in its script.
BTCSignTransaction ==
  LET keys(i) == FindKeys(btcTx.inputs[i].address)
  IN  /\ btcTx # NoBtcTx
      /\ \/ /\ \E i \in DOMAIN btcTx.inputs : keys(i) = {}
            /\ btcOutcome' = "keyNotFound" /\ UNCHANGED btcTx
         \/ /\ \A i \in DOMAIN btcTx.inputs : keys(i) # {}
            /\ btcOutcome' = "signed"
            /\ btcTx' = [btcTx EXCEPT !.signed =
                           {i \in DOMAIN btcTx.inputs : btcTx.inputs[i].address \in keys(i)}]
      /\ UNCHANGED <<single, multiSign, cached, given>>

\* The wallet is closed and opened again; the host keeps the transaction.
Reopen ==
  /\ cached' = [c \in BTCChains |-> <<>>] /\ given' = {}
  /\ btcOutcome' = "none" /\ UNCHANGED <<single, multiSign, btcTx>>

BTCNext ==
  \/ \E index, count \in 0..MaxIndex, internal \in BOOLEAN :
       index + count <= MaxIndex /\ BTCGetAddresses(index, count, internal)
  \/ \E inputs \in SeqOf(Coins, MaxCoins), payments \in SeqOf(BTCPayments, MaxPayments), rate \in Rates :
       BTCCreateTransaction(inputs, payments, rate)
  \/ BTCSignTransaction
  \/ Reopen

BTCSpec == BTCInit /\ [][BTCNext]_btcVars

-----------------------------------------------------------------------------
\* The amounts are not negative, they can be parsed, and nothing wraps.
InRange(tx) ==
  /\ \A i \in DOMAIN tx.inputs : 0 <= tx.inputs[i].amount /\ tx.inputs[i].amount < Half
  /\ \A i \in DOMAIN tx.payments : 0 <= tx.payments[i] /\ tx.payments[i] < Half
  /\ Total([i \in DOMAIN tx.inputs |-> tx.inputs[i].amount]) < BTCWord
  /\ 0 <= tx.rate /\ tx.rate < Half /\ MinOutput * tx.rate + MinFee <= BTCWord
  /\ LET size == VSize(Len(tx.inputs), Len(tx.payments)) + OutputSize
     IN  /\ size * tx.rate + RoundTo <= BTCWord
         /\ Total(tx.payments) + ExactFee(tx.rate, size) < BTCWord

\* A transaction whose amounts and fee rate stay in range pays what it was asked to
\* pay and a fee that is at least what its size calls for, the output for the change
\* included, and at most that for one output more and an amount that would be dust;
\* the change itself is not dust (BTCSubWallet::CreateTransaction, TxFee,
\* MinOutputAmountWithFeePerKb).
BTCFeeFits ==
  btcTx # NoBtcTx /\ InRange(btcTx) =>
    LET size == VSize(Len(btcTx.inputs), Len(btcTx.outputs))
        fee  == Total([i \in DOMAIN btcTx.inputs |-> btcTx.inputs[i].amount]) - Total(btcTx.outputs)
        dust == MinOutputAmountWithFeePerKb(btcTx.rate)
    IN  /\ SubSeq(btcTx.outputs, 1, Len(btcTx.payments)) = btcTx.payments
        /\ fee >= ExactFee(btcTx.rate, size)
        /\ fee <= ExactFee(btcTx.rate, size + OutputSize) + dust
        /\ Len(btcTx.outputs) > Len(btcTx.payments) => btcTx.outputs[Len(btcTx.outputs)] > dust

\* Every input is signed, or no key is looked up for an address that the wallet did
\* not hand out since it was opened: an address that it handed out before must be
\* asked for again, and a multi-sign wallet hands out none (BTCSubWallet::FindKeys,
\* GetAddressInternal).
BTCHandedOutIsSignable ==
  /\ btcOutcome = "signed" => btcTx.signed = DOMAIN btcTx.inputs
  /\ btcOutcome = "keyNotFound" => \E i \in DOMAIN btcTx.inputs : btcTx.inputs[i].address \notin given
=============================================================================
